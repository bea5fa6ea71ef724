# A TLA+ model of Sirius, an object mover on Ceph

Sirius (`src/lib`) puts objects into one of three tiers of a Ceph cluster and
moves them between tiers.  This directory models its library in both of its
builds, its test program and samples, and its benchmark client, checks the models
with TLC, and proves with TLAPS the main results about the asynchronous interface,
about moves in both builds, about the test program, about the library as a whole and
about the client.

## 1. The system

### Inventory

**Asynchronous interface and TaskManager** (`lib/object_mover.hpp`, the ends of
the operations in `lib/object_mover.cpp`, `lib/object_mover_c.cpp`).
State: `tid_counter_`, `task_table_` (id to closure and start time), the queue of
`ios_`, the pool threads, one watcher thread, and the callers' result variables
`int *err`.  Operations: `CreateAsync`, `MoveAsync`, `ReadAsync`, `CReadAsync`,
`DeleteAsync` (GetTid, `std::bind`, StartTask, post); `FinishTask`; `WatchTasks`.
The caller resets `*err`, calls, and polls.  A thread that has done the
operation writes `*err` only if `FinishTask` still found the task.  `WatchTasks`
posts every task older than 20 s again.
Hard: one call runs in several threads at once; a late thread outlives its call;
`*err` is written outside the lock; `CRead` calls `Read` with its own id; some
error paths of Move and Delete write `*err` and skip `FinishTask`.
Correct means: every call is answered once, by the thread of that call, and every
call is answered.

**Create, Read, Move, Delete** (`lib/object_mover.cpp`, default build).  State: the
objects of three pools (cache, storage, archive) with their xattrs `tier` and `lock`;
an object below the fast tier has a redirect in the cache pool.  Each operation
is a sequence of RADOS operations.  Move takes an advisory lock (an xattr of the
object), asks `GetLocation`, and then promotes, demotes, or moves between
storage and archive.
Hard: every sequence can be interleaved with other threads and with applications
that use librados directly, can fail in the middle or be cut off by a crash, and
can be repeated by a retry; the lock lives on an object that the move itself
copies, removes and replaces; failed assertions end the process.
Correct means: no data is lost, applications do not see a demotion, two threads
never move one object, a reported success is true, no assertion fails.

**The same with micro tiering** (`USE_MICRO_TIERING`, off in all Makefiles).  The fast
and the slow tier are devices of the storage pool, chosen by an allocation hint;
only the archive is a pool of its own, and redirects are in the storage pool.
Correct means the same as above.

**SessionPool, Session and the constructor of ObjectMover** (`lib/object_mover.hpp:17-73`,
`lib/object_mover.cpp:12-136`).  State: `pool_` (sessions and whether each is free) and
`reserve_map_` (thread to session).  The constructor starts the pool threads one by one
and reserves a session for each after it was started.
Correct means: a thread that runs an operation has a session of its own.

**The library as a whole.**  A retry of WatchTasks is an operation done once more, on
whatever the first try has made of the object by then, and a lost completion keeps a
thread and maybe an advisory lock.  Correct means: what a caller was told stays true
while retries are still at work, and every call is answered.

**RADOS** is not in the repository.  What its operations do is taken from how the
code uses them (`Rados.tla`).

**Test program and samples** (`test/test.cpp`, `lib/sample.cpp`, `lib/sample.c`):
create, move, read or write, delete, each call after the answer to the one before.
(`sample.c` reads with CRead, which is never answered, and hangs there.)

**Benchmark clients** (`benchmark/replayer.cpp`, `replayer_single_reader.cpp`,
`benchmark.cpp`): hand a list of objects to the interface with `thread_num` calls in
flight and poll all result variables.
Correct means: every object once, no call on a variable still in use, no exit
before all answers.

**Not modelled**: connecting a `Session` and the destructor of `ObjectMover`;
`data_placer*.cpp` and `analyser.cpp` (sequential list processing); the experiment scripts
with their barrier file and `Titan/role_decider.sh` with its lock file; the deployment
scripts; `XGC1/*.cpp` (line filters).

### How the parts interact

    client / test --*Async--> TaskManager --post--> ios_ --> pool thread
         ^  polls *err            ^  WatchTasks posts again      |
         |                        +------ FinishTask <-----------+  Create / Read / Move / Delete
         +------------------------- *err = r <-------------------+            |
    applications -------------- librados on the cache pool ----------> RADOS <+

## 2. Modules

| module | models | state | actions |
|---|---|---|---|
| `AsyncCall` | abstract: what the interface promises | `call`, `answer` | Invoke, Answer, Collect |
| `TaskManager` | the interface, the task table, pool threads, watcher | `tid_counter`, `task_table`, `expired` (those older than 20 s), `posted` (the queue), `closure`, `thread`, `client`, `err` | Invoke (reset and GetTid), StartTask, Post, Observe; Run, Complete, ReturnEarly, Hang, FinishInner, FinishTask, Report; Expire, WatchTasks |
| `TaskManagerProofs` | theorems about `TaskManager` | | |
| `Rados` | the RADOS operations used, external | (operators) | |
| `ObjectRegister` | abstract: an object is a register only applications write | `value`, `writes` | Write, More |
| `ObjectMover` | the operations, one action per RADOS operation | `store`, `thread`, `current` (whose copied version still is that of the cache object), `status`, `bounds` | Write, Dummy, Link; Read; Lock, Unlock, Locate; Unlink, Promote, RmSource; CopyDown, Replace; XUnlink .. XLink; RmTarget, RmSelf; Start, End, DirectWrite, Crash, Restart |
| `MicroTiering` | the operations of the build with micro tiering, on the state and the helpers of `ObjectMover` | that of `ObjectMover` | MicroWrite, MicroDummy, MicroLink; MicroLocate; MicroUnlink, MicroPromote, MicroRmSource; MicroHint; MicroCopyDown, MicroReplace; MicroRmTarget, MicroRmSelf |
| `Builds` | one build or the other, and the properties both should have | `build`, which never changes | those of the build, and MoreWrites |
| `ObjectMoverProofs` | theorems about `ObjectMover` | | |
| `MicroTieringProofs` | lemmas: what each action of `MicroTiering` keeps | | |
| `BuildsProofs` | theorems about `Builds`, from the two modules above | | |
| `DemotionProofs` | theorems about the lock and the assertions in demotions, from `BuildsProofs` | | |
| `TestDriver` | `test.cpp` (both builds), `sample.cpp`, and `sample.c` as far as its CRead, one after the other, on top of `Builds` | `bounds.ops`, from which `Calls` is computed, is the place in the program | Call, Rewrite, and the actions of `Builds` |
| `TestDriverProofs` | theorems about `TestDriver`, with lemmas about what each RADOS operation makes of an object | | |
| `SessionPool` | sessions and the constructor | `started`, `free`, `reserve_map` | StartThread, ReserveSession |
| `Sirius` | `SessionPool`, `TaskManager` and `ObjectMover` together | theirs, and `script`, `request` (what `std::bind` captured), `buffer` (which Read filled `*bl`), `retried` | Construct; LibInvoke, Call; LibRun, Serve, Finish, LibReturnEarly, Answer, LibHang; LibExpire, LibWatchTasks |
| `SiriusProofs` | theorems about `Sirius`, on top of `TaskManagerProofs` | | |
| `Replayer` | the loops of `replayer.cpp` on top of `AsyncCall` | `pc`, `it`, `j`, `done`, `rets`, `waiting`, `call`, `served` | ScanFree, ScanUsedUp, Submit, WaitLook, WaitRound, Abort; Answer |
| `ReplayerProofs` | theorems about `Replayer` | | |
| `MC*` | small instances for TLC | | |

`TaskManager` leaves open what an operation does to the store (it completes with a
result, returns early or hangs); `ObjectMover` leaves open how an operation gets to
a thread.  `Sirius` puts them together: it extends `TaskManager` and has `ObjectMover`
(`OM`) and `SessionPool` (`SP`) as instances.  Its actions `LibRun`, `LibExpire`, ... are
those of `TaskManager` with what happens to the other parts: Run is the Begin of an
operation of `ObjectMover`, the end of the operation is Complete or ReturnEarly of the
task, and a failed assertion ends everything.  `mover` is the state a pool thread has in
`ObjectMover`.  `TaskManager` implements
`AsyncCall`, and `Replayer` uses what `AsyncCall` promises and is shown to be a legal
user of it, so that results about the two fit together.

The two builds share most of the code, up to the pool it names; the operators of
`ObjectMover` whose names end in `On` have that pool, the base pool, as a parameter:
`"cache"` by default, `"storage"` with micro tiering.  `ObjectMover` by itself is the
default build; what is proved of it is carried over to `Builds`, together with the same
for the other build.

Choices a reader of the code should know:

* *Locked regions are steps.*  StartTask, FinishTask, GetTid and a scan of
  WatchTasks hold `lock_` throughout; each is one action.  `*err = r` comes after the
  lock is released and is an action of its own (Report).
* *Time.*  Expire stands for 20 s having passed since the task was entered or last
  posted; it may happen at any time, since an operation may take any time.
* *Results* are `"ok"` and `"fail"`.  A Read reports the number of bytes; that an empty
  object reports 0, which clients take for "no answer", is left out (section 6).
* *Early returns* (`EarlyModes`) are the `return`s of Move (cpp:516-521) and Delete
  (cpp:893-897) after a failed remove.
* *Sending an operation and its effect* are one step: the thread waits for the
  completion, and nobody can tell the moments apart.
* *A failure* (`eio`, bounded by MaxFaults) leaves the pools as they were.
* *The operation object of a demotion* is used twice in the code (cpp:588, 611).
  librados takes the actions out of it when it is sent, so the second use does
  not repeat the copy.
* *Versions.*  `assert_version` compares with the version `copy_from` returned, which
  is that of the object copied; `current` keeps whether it still fits.  A copy made
  through a redirect has a version unrelated to that of the redirect, so either
  answer is possible.
* *Shadowed results.*  `int r` in inner blocks (cpp:586, 662) hides the result that is
  reported; these steps leave `thread.r` alone.
* *Allocation hints* are operations that change no data and no xattr.  On which device of
  the storage pool an object is, is not modelled.
* *Calls of CRead* are left out of `Sirius`; `TaskManager` has them.  In `TestDriver` the
  CRead of `sample.c` reads and ends without an answer, and no call follows it (`Answered`).
* *How long applications write.*  `BuildSpec` bounds their writes (MaxWrites).  `WritingSpec` adds
  MoreWrites, which renews the bound, so that there is no end to them.
* *A failed assert or abort()* ends the process; the pools stay, and it may be
  started again.  The assertion that follows a failed operation (Lock, GetLocation, Unlock)
  takes that failure out of `bounds.faults`, so that its cause can be told.  Nothing repairs the pools then: Restart changes only `status`.

What is assumed of RADOS: an operation sent to a redirect works on its target
unless it has `OPERATION_IGNORE_REDIRECT`; `set_redirect` works where it was sent;
`copy_from` copies data and xattrs; the actions of one `ObjectWriteOperation`
happen together or not at all; `write_full` and `set_redirect` keep xattrs;
`cmpxattr` on a missing xattr compares with the empty value.  `test.cpp`
passes under these assumptions for all nine pairs of tiers, as its authors expect.

## 3. What is checked

| run | instance | shows |
|---|---|---|
| `TaskManager_safety` | 2 callers, 2 threads, 3 calls, 2 copies of a task at once | the type invariant; a thread that writes `*err` writes the awaited answer (`ReportIsAwaited`); no call falls between table and answer (`AwaitedIsTracked`); the assertion of StartTask (`TidUnused`); refinement of `AsyncCall` (`AsyncSpec`) |
| `TaskManager_liveness` | 1 caller, 2 calls, 2 threads of which 1 may hang, Delete may return early | every call is answered (`EveryCallReported`), be it by the late `*err` of an earlier early return (`TaskManager_early`); with early returns, too, no unanswered call leaves the table (`AwaitedIsTracked`) |
| `ObjectMover_demotion` | each build; 3 threads, 3 demotions, 1 application write at a time, renewed for ever (`FairWritingSpec`), 1 failure, 1 crash | `RegisterSpec`: applications never see a demotion and lose no write; `DemotionEnds`: no other mover keeps a demotion from ending, nor do writes that cease; writes without end may (cpp:633-635), and a lock that a stopped mover left does; the process ends by itself only after a failure (`AbortsOnlyOnFailure`), and a lock without a mover is one that a failure or a crash left (`LocksReleased`) |
| `ObjectMover_relocation` | each build; 3 threads, 5 moves among all tiers, 2 failures, 1 crash | `DataKept`: some pool always has the data; `LockExclusion`: one mover per object, except where section 4 says |
| `TestDriver` | each build; the 27 calls of `test.cpp` on its 9 objects and, in the default build, then the 3 of `sample.cpp` and the first 3 of `sample.c` on one more | the assertions of the programs about calls that are answered (`TestPasses`, `NoAbort`); a reported move is true (`MovedAsReported`); `sample.cpp` reads what it wrote (`ReadsBack`); no object is left locked (`LeftUnlocked`), and nothing is left after `test.cpp` and `sample.cpp` (`NothingLeft`, which excepts a redirect with micro tiering) |
| `Sirius` | 1 caller with one of 4 scripts, 2 threads of which 1 may hang, 3 calls, 2 copies of a task at once | `OwnSession`; what a caller was told stays true (`AnsweredHolds`); reads deliver what they read, into a buffer that an earlier Read has filled (`ReadIsOwn`); every call is answered, or a mover is stuck with the object, or the process has ended (`CallsEnd`) |
| `Replayer` | 2 calls in flight, 3 objects, both modes | `EachObjectOnce`; `ClientSpec` (it obeys `AsyncCall`); `ClientEnds` |

Runs that TLC finds violated by what the code does:

| run | property | what happens |
|---|---|---|
| `TaskManager_cread` | `EveryCallReported` | the Read in CRead finishes the task; CRead's own FinishTask is told no, and `*err` is never written (`sample.c:34` waits for ever) |
| `TaskManager_early` | `AsyncSpec` | the retry of a slow Delete that had succeeded finds no object and overwrites the success |
| `ObjectMover_stale` | `MovedAsReported` | the target of a demotion keeps the tier name "fast"; moving the object up again reports 0 and does nothing |
| `Sirius_retry` | `AnsweredHolds` | a slow Create in a lower tier is posted again, and the second try writes its empty dummy through the redirect and empties the object its caller was told of |
| `ObjectMover_window` | `NoAbort` | Lock finds no object while another thread promotes it, and `assert(r == 0)` ends the process |

Met while modelling, without a run of their own:

* a demotion whose copy fails reports success (cpp:586);
* with micro tiering the second remove of Delete follows the redirect like the first
  (cpp:872), and the redirect of an object of the archive is left, which by the comment at cpp:867 is
  removed: the exception of `NothingLeft`;
* a demotion copies again after every write, and so never ends while applications write often
  enough (cpp:633-635): the first disjunct of `DemotionEnds`;
* Delete takes no lock, so that a mover of the object ends the process (cpp:781, 843);
* an object cannot be read during a promotion (cpp:511-536);
* a move between storage and archive leaves a moment in which a second mover gets the
  lock (cpp:717): the exception `Misnamed` of `LockExclusion`;
* a demotion of an object that is in the slow tier but named "fast" copies through
  the redirect, and repeats this until the version of the target happens to be that of
  the redirect.  It may never end (the exceptions of `DemotionEnds` and `CallsEnd`);
  and if the versions do coincide while an application writes, the write is lost.  For
  this reason `BuildRequests` of `ObjectMover_demotion` has, in the default build,
  demotions to the slow tier only, after which there is nothing left to demote to;
* retries: a late Read writes into the caller's buffer after the answer (the exception
  of `ReadIsOwn`); a late Delete removes what was created after it, a late Move undoes a
  later Move (scripts without these in `AnsweredHolds`); a retried Move of a deleted object
  ends the process (the exception of `CallsEnd`).

Every passing property has a mutant: a variant of one definition, written just
before it (without the increment, without the test, without the version, ...), with
which TLC finds the property violated.

### Bounds

`TaskManager`: three calls and two result variables let a caller reuse its variable while
threads of its first call are still at work and another caller is active; two copies of a
task at once let a retry overtake, finish together with, or outlive the first
try.  More copies behave like the second: after FinishTask nothing tells them
apart.

`ObjectMover` and `MicroTiering`: names do not interact (each operation works on the places
of one name), so that one object is enough.  Two threads are the smallest number
with interference, and the third is one that is still on its way with what it found
before the first two had their turn.  Five moves let threads move the object down, up and
across, before and after a crash; failures and a crash can fall on every step.
Writes have no bound: one may fall before and after each copy, any number of times.

`Sirius`: the scripts are create, read, move; read, read; move, delete; and delete, create, on an
object that is in the fast tier: every kind of call follows one whose retries may still be at
work, and a Read one that used its buffer before.  There is one caller, because what it is told about the object need not stay true
if others move or delete it; interference comes from retries of its own calls, which run
at any time.  Each of the calls may be posted again while it runs, and one of the two
threads may hang for good.

`CHECK_DEADLOCK FALSE` is in every cfg because the bounds on calls and operations let the
system stop; so does the real program when nobody calls.

### Fairness

`TaskManager`: a caller inside a call goes on and polls (WF); a thread that did not
hang gets its answer and finishes (WF on Work); a posted task gets a thread though
threads are free only now and then (SF on Run for each task: the queue of `ios_`
is FIFO, so a task that is infinitely often in the queue while a thread is free is
taken); time passes (WF on Expire) and the watcher loops (WF on WatchTasks).
Nothing is assumed about Hang, except that fewer threads hang than the pool has;
if all hang, nothing can answer.  `ObjectMover`: a thread goes on with its
operation (WF); spinning in Lock is no step; applications need not write, and may for ever.  `Sirius`: that of `TaskManager`, as long as
the process lives (nothing can be asked of one that has ended); nothing is assumed of the
constructor, and `CallsEnd` speaks of calls that were made.  `Replayer`: the client's thread runs, and
the library answers (that is `EveryCallReported`).

## 4. What is proved

Where no hypothesis says otherwise nothing is bounded in the theorems: sets of callers,
threads, objects and values are arbitrary, and so are the numbers of calls, retries,
failures and crashes (the bounds TLC needs are constants of which the proofs use only that
they are numbers).  The named assumptions on constants (`BoundsAssumption`, `ModesAssumption`, `RadosAssumption`,
`ObjectMoverAssumption`, `BuildsAssumption`, `TestDriverAssumption`, `ReplayerAssumption`,
`SiriusAssumption`) are
evaluated by TLC in the runs.

### The task manager

| theorem of `TaskManagerProofs` | statement | assumes |
|---|---|---|
| `TypeCorrect` | `Spec => []TypeOK` | |
| `ReportsAreAwaited` | `Spec => []ReportIsAwaited` | |
| `StartTaskAssertion` | `Spec => []TidUnused` | |
| `NoCallIsLost` | `Spec => []AwaitedIsTracked` | |
| `ImplementsAsyncCall` | `Spec => AsyncSpec` | `EarlyModes = {}` |

`EarlyModes = {}` says that no remove fails in Move or Delete; run
`TaskManager_early` shows that the refinement needs it.  The others hold with early returns,
which write `*err` and leave the task in the table.  What is lost with them is
that the writer of `*err` is awaited, and only for a caller who has made such a
call: `Finishers` are the others.

None of the properties is inductive.  That a thread about to write `*err` is awaited
follows from a fact about the table: *a task in the table of a caller among the `Finishers`
is awaited, has no answer, and no thread is about to give one* (`Tabled`).  FinishTask takes the
task out of the table and gives one thread the right to answer; until it does,
the caller cannot leave the call, because `*err` is still pending; and no second thread
finds the task again.  To keep `Tabled` one needs that ids are fresh (`Fresh`: an
id not handed out occurs nowhere), that a caller's task answers into its own
variable (`Owns`), and that nobody knows the task before StartTask (`Starting`).
`IInv` is their conjunction with `TypeOK` and `ReportIsAwaited`; `IInvInit` and
`IInvStep` show it inductive, `Invariance` concludes `[]IInv`.  `TrackedStep` adds
that only CRead erases a task without being about to answer, and `AsyncStep` maps each
step to a step of `AsyncCall` or a stutter.

### Moves, default build

| theorem of `ObjectMoverProofs` | statement | assumes |
|---|---|---|
| `TypeCorrect` | `Spec => []TypeOK` | |
| `MovesKeepData` | `Spec => []DataKept` | `OnlyMoves` |
| `LockExcludes` | `Spec => []LockExclusion` | `OnlyMoves` |

`OnlyMoves` says that nothing but moves and reads is asked for, that every object
exists at the start, and that no application writes: a Delete or a write takes the
data away on purpose.  The constants of the run `ObjectMover_relocation` satisfy it.
`LockExclusion` itself excepts objects that are `Misnamed`: a lower pool has the object under
the name of another lower tier.  A move between storage and archive leaves that behind, it also
removes the object that carries the lock, and TLC finds two movers there; the theorem says
that nothing else lets a second mover in.

`TypeOK` needs `Fits`: the step a thread is at tells what it was asked for and which tier it
found (a thread at `promote` moves to the fast tier an object found below it).

`DataKept` is far from inductive.  Its strengthening `Safe` says of an object that what is
below the fast tier has the data and is no redirect (`Intact`), and that it is in one of
two conditions:

* `Settled`: the cache pool has the object, or leads to a copy whose name is "fast" or that
  of its pool, or has nothing while a lower pool has the object (`Leads`); at most one
  thread is between Lock and Unlock, and where it is tells what it can count on
  (`Proceeds`).  Exclusion and the places need each other.  Lock is taken in the object
  the cache pool leads to, and every copy a mover makes carries the lock along, so
  whatever object a second thread finds is locked - or it finds none, and
  the process ends on the assertion in Lock.
* `AdriftFrom` a tier: after `x_remove` the object lies in one lower pool under the name of the
  other, its lock can be taken by anybody once the dummy has replaced the redirect,
  and several movers may be at work.  All of them found the tier that no longer has the
  object, so that every copy they try fails with nothing to copy, and they
  remove only the redirect or the dummy.  The object is kept because
  nobody can find it.

There is one lemma for each operation that succeeds (`UnlinkSafe` .. `UnlockSafe`), `GivesUp` and
`Leaves` for those that fail, `Frame` for steps that do not touch an object, and
`SafeStep` puts them together.  `LockExcludes` follows since an object that is adrift is
misnamed, and one that is settled has at most one mover inside.

### Both builds

| theorem of `BuildsProofs` | statement | assumes |
|---|---|---|
| `BuildsTypeCorrect` | `WritingSpec => []TypeOK` | |
| `BuildsKeepData` | `BuildSpec => []DataKept` | `OnlyMoves` |
| `BuildsLockExcludes` | `BuildSpec => []LockExclusion` | `OnlyMoves` |
| `MicroLockExcludes` | `BuildSpec => [](build = "micro" => AtMostOneMover)` | `OnlyMoves` |
| `DemotionsUnseen` | `WritingSpec => RegisterSpec` | `DemotesTo(tier)` for one of the two lower tiers |

A behaviour of `Builds` is one of the default build or one with micro tiering
(`DefaultSteps`, `MicroSteps`), and the first has the invariant above.

With micro tiering the invariant is much simpler than `Safe`, because there is a single pool
below and nothing is ever adrift: the archive has only whole objects, and the storage
pool has the object, a redirect to it, or, during a promotion, nothing (`Sound`); there is one
mover at most; and it relies on the object that others would lock being locked
(`HeldAt`).  `MicroSafe` is their conjunction.  The lock then excludes without the
exception of `LockExclusion`.

`DemotionsUnseen` is about applications that read and write objects while they are demoted,
any number of them at any time and without end.  It says that objects change by writes of
applications only, and that each write of an application is, at that moment, the write
of the same data to the register (`WritesArrive`).  `DemotesTo(tier)` says that objects begin in the fast
tier and that callers read them and, in the default build, move them to this tier;
with micro tiering they move them anywhere.  Run `ObjectMover_demotion` satisfies it with SLOW.
(With demotions to two tiers the version can deceive a mover, see section 3.)  The invariant
is `Hidden`: the base pool has the object, or a redirect to a copy below, each of which
still has the name "fast" (`Demoted`); and *a mover whose version still is that of the object
has a copy below that is equal to it* (`Copied`).  A write takes the writer's object out
of `current` for all movers, so nothing has to be kept about them.  The lock
is not part of the invariant: that no write is lost rests on `assert_version` alone, and
so holds even when a crash has left the lock behind or the retry of a move is at work.

### Demotions and the lock

| theorem of `DemotionProofs` | statement | assumes |
|---|---|---|
| `DemotionsExclude` | `WritingSpec => [](LockExclusion /\ AtMostOneMover)` | `DemotesTo(tier)` |
| `DemotionsAbortOnlyOnFailure` | `WritingSpec => []AbortsOnlyOnFailure` | `DemotesTo(tier)` |
| `DemotionsReleaseLocks` | `WritingSpec => []LocksReleased` | `DemotesTo(tier)` |
| `DemotionsDoNotAbort` | `WritingSpec => []NoAbort` | `DemotesTo(tier)`, `MaxFaults = 0` |

The same setting as in `DemotionsUnseen`: threads demote and read, applications write at any
time and for ever.  The theorems of `OnlyMoves` do not cover it, because a write changes the data; and the
exclusion here is without exception, in both builds.

The invariant adds to that of `DemotionsUnseen`, for each object (`Kept`): at most one thread
moves it; the object the base pool leads to then carries the lock; *and the copy of a mover
whose version is still that of the object carries it, too*, since this copy takes the object's
place when `set_redirect` succeeds.  (A copy without a version may have the lock or not: a write
goes to the object and keeps its xattrs, but the mover copies again.)  A lock that no mover holds
implies that something has failed or that the process was stopped (`Disturbed`).  So whenever the
assertion of Lock, GetLocation or Unlock is reached, the object is there, it has a name, and
Unlock finds it locked; only a failure of RADOS can make them fail.  That a move to the fast
tier can (`ObjectMover_window`) is due to the moment in which it has taken the redirect away.

### The test program

| theorem of `TestDriverProofs` | statement | assumes |
|---|---|---|
| `ProgramInOrder` | `TestSpec => []InOrder` | `MaxFaults = 0`, `InitialTiers = {"none"}` |
| `AllCallsSucceed` | `TestSpec => []TestPasses` | the same |
| `NoAssertFails` | `TestSpec => []NoAbort` | the same |
| `MovesArrive` | `TestSpec => []MovedAsReported` | the same |
| `WritesReadBack` | `TestSpec => []ReadsBack` | the same |
| `DeletedCompletely` | `TestSpec => []NothingLeft` | the same |
| `UnlockedBetweenCalls` | `TestSpec => []LeftUnlocked` | the same |

The programs and their ten objects are those of the code; the theorems are about any set of
pool threads, any of which may take a call, and any data.  The hypotheses say that no
operation of RADOS fails and that the objects do not exist before: what the programs expect
of the cluster they are started on, and what run `TestDriver` gives TLC.  `AllCallsSucceed`
is about calls that are answered, which the CRead of `sample.c` is not, and `DeletedCompletely` about
the end of `test.cpp` and of `sample.cpp`: `sample.c` does not get there.
For other callers of the library two of the properties are false even then: `NoAbort` when one
thread moves an object that another is about to lock (`ObjectMover_window`), and
`MovedAsReported` for an object that comes back from below (`ObjectMover_stale`).  These
programs make one call at a time, and move an object once after creating it.

The invariant `InOrder` says that either all threads are idle (`Idle`) or one thread does the
last call made while the others rest (`Busy`).  It relates three things: the place in the
program, the step of the thread, and the pools.

* `Due(o, n)` is the last thing done with object o when n calls have been made; `Left` says what
  that left of it: nothing, the object in the tier of its creation under that tier's name
  (`Made`), the object in the tier of its move (`Placed`), or what Delete leaves
  (`Removed`).  `Schedule` shows, from the three sequences and their concatenation, that each call
  finds its object in the state the call needs.
* `Doing` gives for each step of each operation the copies the object has, what the
  base pool has in its place, and whether it is locked (`Creating`, `Upward`, `Downward`,
  `Across`, ...), all as instances of one predicate `Shape`.

`WritesReadBack` adds to `InOrder` that the write of `sample.cpp` is made once, after its Move, and
that what it wrote is where Move has put the object (`Written`).

For each operation of RADOS there is a lemma that says how it changes a shape (`RemoveLink`,
`SecondCopy`, `MakeLink`, `TakeLock`, ...).  From it follows for each step that the operation
succeeds and makes the shape of the step after it (`WriteGoesOn` .. `RmSelfGoesOn`), for each action of
either build that it keeps `InOrder` (`CreateInOrder` .. `MicroDeleteInOrder`), and `NextInOrder` puts
them together.  Since nothing fails, the steps after a failure are never reached, and what
is left to see is that the answers "canceled" and "enoent" do not come: the lock
is free at Lock and taken at Unlock, the version is that of the object at Replace, and every
operation finds the object it works on.

### The client

| theorem of `ReplayerProofs` | statement |
|---|---|
| `TypeCorrect` | `Spec => []TypeOK` |
| `ObjectsServedOnce` | `Spec => []EachObjectOnce` |
| `KeepsToInterface` | `Spec => ClientSpec` |

for any number of objects and of result variables.  The invariant: where the loops are tells
which object is next (`Progress`); a variable is pending just while its call is
(`Polled`); the calls in flight are for different objects, all handed out before
(`InFlight`); what was handed out and is not in flight was served once (`Accounted`); and the
variables that a round of the wait loop has counted stay answered (`Counted`), which is why
the program does not end too early.

### The library as a whole

| theorem of `SiriusProofs` | statement | assumes |
|---|---|---|
| `CallsAreTasks` | `LibSpec => Spec` | |
| `SessionsAreOwn` | `LibSpec => []OwnSession` | |
| `ReadsAreOwn` | `LibSpec => []ReadIsOwn` | `ReadsFirst` |

`StepIsTasks` shows that each step of the library is a step of `TaskManager` or leaves its
variables alone, so that `IInv` and all theorems without `EarlyModes = {}` carry over.

`OwnSession` needs `Reserving`: the sessions of two threads differ, those in use are not free,
and no task id is handed out before the constructor has reserved all sessions.  A thread
that runs something runs a task whose id was handed out.

`ReadIsOwn` follows the data of a Read: a thread that has found the object has filled the buffer
(`Reading`), the buffer is still filled when it is about to answer (`Answering`), and when the
caller has the answer, until it calls again (`Told`).  Somebody else could overwrite it
meanwhile only with a Read for the same caller: that of the same call, an earlier one
that was posted again, or an earlier one that was not.  The last cannot be: `Once`, the
closure of a task that was not posted again is the only one, and its caller waits for it.
All of this needs that a caller does not leave its call by an early return of an
earlier call, hence `ReadsFirst`: in a script (`Scripted`) Reads come after Creates and other
Reads only.  The hypothesis is necessary: in the script Delete, Read TLC finds that the
second try of the Delete returns early because the object is gone, and so ends the call;
the first try, which is about to answer, then answers the Read with its 0 before
anything was read.  The scripts of run `Sirius` satisfy it.

### Only model-checked

* All liveness (`EveryCallReported`, `DemotionEnds`, `CallsEnd`, `ClientEnds`): TLAPS handles
  neither fairness nor ENABLED.
* `AnsweredHolds`: it does not hold for all scripts (`Sirius_retry`), so that a theorem would be
  about those of the run.

## 5. Plan

Done: the models of section 2; the theorems of section 4.

1. The theorems about the test program for any requests that come one at a time and move an
   object at most once.
2. `AnsweredHolds` for the callers whose retries do nothing the first try has not done.
3. `RoleDecider` (lock file without atomic creation) and `SyncBarrier` (the wait of the
   experiment scripts); `Analyser` and `DataPlacer` as pure definitions with reference
   definitions.

Order: what can corrupt data or hang callers first.

## 6. Not modelled, and why

* Trace and latency output of WatchTasks (including its uninitialised median), and
  messages: no state depends on them.
* `int version` for a 64-bit version, and `assert(now >= t.start)` under a clock set
  back: versions and clocks are abstract.
* The value of uninitialised `r` in CRead when its Read lost the task (it then copies
  an arbitrary number of bytes): `Sirius`, which has data buffers, has no CRead, as
  such a call is never answered anyway.
* `Session::Connect`: it either succeeds or ends the process before any call is possible.
  The flags it gives to `init2` are read uninitialised.
* The destructor of `ObjectMover`: it deletes the task manager and the sessions without joining
  the pool threads, and what these do with deleted objects is undefined.
* The devices of the storage pool in the micro-tiering build: which one an OSD chooses for an
  object is not decided here.  The xattr that should follow the device is not
  written (cpp:432), so that GetLocation finds the tier before the move.
* Shell scripts, `data_placer*.cpp`, `analyser.cpp`, `XGC1/*.cpp`: sequential processing of
  lists and files around the library; the two protocols among them are planned (section 5).
* Unsynchronised polling of `int *err`: taken as an atomic read, as the compilers
  used for the Makefiles' `-g` builds make it.
* Empty objects in Replayer: a read that returns 0 bytes looks unanswered, and the
  client waits for ever.  The constant `ReadAnswers` excludes it by assumption.
