----------------------------- MODULE TaskManager -----------------------------
(***************************************************************************)
(* The asynchronous calls of ObjectMover and its TaskManager               *)
(* (lib/object_mover.hpp, and the ends of Create, CRead, Read, Move and    *)
(* Delete in lib/object_mover.cpp).                                        *)
(*                                                                         *)
(* A caller resets its result variable *err, takes a task id, enters the   *)
(* task in the task table and posts a closure to the boost::asio queue; it *)
(* then polls *err.  A pool of threads runs the closures.  A thread that   *)
(* has done the operation calls FinishTask, and writes *err only if the    *)
(* task was still in the table.  WatchTasks posts the closure of every     *)
(* task older than RETRY_TIME_SEC a second time, so one call may run in    *)
(* several threads at once, and long after its caller went on to the next  *)
(* call with the same result variable.                                     *)
(*                                                                         *)
(* What an operation does to the object store is left to ObjectMover; here *)
(* it ends with a result, returns early, or hangs (wait_for_safe has no    *)
(* timeout).                                                               *)
(***************************************************************************)
EXTENDS Integers, FiniteSets

CONSTANTS Slots,       \* result variables, each used by one caller at a time
          Threads,     \* the threads that run ios_
          Modes,       \* operations called: "w" Create, "m" Move, "r" Read,
                       \* "cr" CRead, "d" Delete
          EarlyModes,  \* operations whose early return can be taken
          MaxTid,      \* bound: calls made
          MaxPosts,    \* bound: closures of one task queued or running
          MaxHangs     \* bound: threads that hang

ASSUME BoundsAssumption ==
          /\ MaxTid \in Nat \ {0}
          /\ MaxPosts \in Nat \ {0}
          /\ MaxHangs \in Nat
ASSUME ModesAssumption == /\ Slots # {}
                          /\ Modes # {}
                          /\ Modes \subseteq {"w", "m", "r", "cr", "d"}
                          /\ EarlyModes \subseteq Modes \cap {"m", "d"}

Tids == 0 .. MaxTid - 1
NoTid == -1
Results == {"ok", "fail"}

VARIABLES tid_counter,  \* the next task id
          task_table,   \* ids in task_table_
          expired,      \* those whose start is RETRY_TIME_SEC ago
          posted,       \* [Tids -> Nat], closures in the queue of ios_
          closure,      \* [Tids -> what std::bind captured]
          thread,       \* what each pool thread does
          client,       \* where each caller is
          err           \* *err of each result variable

vars == <<tid_counter, task_table, expired, posted, closure, thread, client, err>>
callVars == <<tid_counter, closure>>
tableVars == <<task_table, expired>>

Closure == [slot : Slots, mode : Modes]
IdleThread == [at |-> "idle", tid |-> NoTid, r |-> "ok"]
IdleClient == [at |-> "idle", tid |-> NoTid]
Thread == [at : {"running", "hung", "inner", "finish", "report"},
           tid : Tids, r : Results] \cup {IdleThread}
Client == [at : {"start", "post", "wait"}, tid : Tids] \cup {IdleClient}

\* An id not taken yet; nobody looks at its closure.
UnusedClosure == CHOOSE c \in Closure : TRUE

Init == /\ tid_counter = 0
        /\ task_table = {}
        /\ expired = {}
        /\ posted = [t \in Tids |-> 0]
        /\ closure = [t \in Tids |-> UnusedClosure]
        /\ thread = [th \in Threads |-> IdleThread]
        /\ client = [s \in Slots |-> IdleClient]
        /\ err = [s \in Slots |-> "pending"]

SlotOf(t) == closure[t].slot
ModeOf(th) == closure[thread[th].tid].mode

Running(t) == {th \in Threads : thread[th].tid = t}
Hung == {th \in Threads : thread[th].at = "hung"}

-----------------------------------------------------------------------------
(* Faulty variants of the definitions below: with each of them some        *)
(* property fails, which shows that the property depends on the code.      *)

\* GetTid without the increment.
InvokeSameTid(s, m) ==
    /\ client[s].at = "idle"
    /\ tid_counter < MaxTid
    /\ err' = [err EXCEPT ![s] = "pending"]
    /\ closure' = [closure EXCEPT ![tid_counter] = [slot |-> s, mode |-> m]]
    /\ client' = [client EXCEPT ![s] = [at |-> "start", tid |-> tid_counter]]
    /\ UNCHANGED <<tid_counter, tableVars, posted, thread>>

\* FinishTask that does not erase, and one that keeps the start time.
EraseNothing(t) == UNCHANGED tableVars
EraseNotStart(t) == task_table' = task_table \ {t} /\ UNCHANGED expired

\* *err written without asking whether the task was in the table.
FinishTaskUntested(th) ==
    /\ thread[th].at = "finish"
    /\ task_table' = task_table \ {thread[th].tid}
    /\ expired' = expired \ {thread[th].tid}
    /\ thread' = [thread EXCEPT ![th].at = "report"]
    /\ UNCHANGED <<callVars, posted, client, err>>

\* A failed operation finishes its task but is not reported.
FinishTaskQuietly(th) ==
    /\ thread[th].at = "finish"
    /\ task_table' = task_table \ {thread[th].tid}
    /\ expired' = expired \ {thread[th].tid}
    /\ thread' = [thread EXCEPT ![th] = IF @.tid \in task_table /\ @.r = "ok"
                                        THEN [@ EXCEPT !.at = "report"]
                                        ELSE IdleThread]
    /\ UNCHANGED <<callVars, posted, client, err>>

\* The clock is restarted but the closure is not posted.
WatchTasksNoPost ==
    /\ expired # {}
    /\ expired' = {}
    /\ UNCHANGED <<callVars, task_table, posted, thread, client, err>>

-----------------------------------------------------------------------------
(* The caller: reset *err, GetTid, std::bind, StartTask, post, poll.       *)

Invoke(s, m) ==
    /\ client[s].at = "idle"
    /\ tid_counter < MaxTid
    /\ err' = [err EXCEPT ![s] = "pending"]
    /\ tid_counter' = tid_counter + 1
    /\ closure' = [closure EXCEPT ![tid_counter] = [slot |-> s, mode |-> m]]
    /\ client' = [client EXCEPT ![s] = [at |-> "start", tid |-> tid_counter]]
    /\ UNCHANGED <<tableVars, posted, thread>>

StartTask(s) ==
    /\ client[s].at = "start"
    /\ task_table' = task_table \cup {client[s].tid}
    /\ client' = [client EXCEPT ![s].at = "post"]
    /\ UNCHANGED <<callVars, expired, posted, thread, err>>

Post(s) ==
    /\ client[s].at = "post"
    /\ posted' = [posted EXCEPT ![client[s].tid] = @ + 1]
    /\ client' = [client EXCEPT ![s].at = "wait"]
    /\ UNCHANGED <<callVars, tableVars, thread, err>>

Observe(s) ==
    /\ client[s].at = "wait"
    /\ err[s] # "pending"
    /\ client' = [client EXCEPT ![s] = IdleClient]
    /\ UNCHANGED <<callVars, tableVars, posted, thread, err>>

-----------------------------------------------------------------------------
(* A pool thread: take a closure, do the operation, finish the task.       *)

Run(th, t) ==
    /\ thread[th].at = "idle"
    /\ posted[t] > 0
    /\ posted' = [posted EXCEPT ![t] = @ - 1]
    /\ thread' = [thread EXCEPT ![th] = [at |-> "running", tid |-> t, r |-> "ok"]]
    /\ UNCHANGED <<callVars, tableVars, client, err>>

\* The operation ends; CRead first ends the Read it calls with the same tid.
Complete(th, r) ==
    /\ thread[th].at = "running"
    /\ thread' = [thread EXCEPT
                    ![th] = [at |-> IF ModeOf(th) = "cr" THEN "inner" ELSE "finish",
                             tid |-> @.tid,
                             r |-> r]]
    /\ UNCHANGED <<callVars, tableVars, posted, client, err>>

\* A failed remove: Move and Delete write *err and return without FinishTask.
ReturnEarly(th) ==
    /\ thread[th].at = "running"
    /\ ModeOf(th) \in EarlyModes
    /\ err' = [err EXCEPT ![SlotOf(thread[th].tid)] = "fail"]
    /\ thread' = [thread EXCEPT ![th] = IdleThread]
    /\ UNCHANGED <<callVars, tableVars, posted, client>>

\* The operation waits for an answer of the store that never comes.
Hang(th) ==
    /\ thread[th].at = "running"
    /\ Cardinality(Hung) < MaxHangs
    /\ thread' = [thread EXCEPT ![th].at = "hung"]
    /\ UNCHANGED <<callVars, tableVars, posted, client, err>>

\* FinishTask erases the task and says whether it was there.
Erase(t) == /\ task_table' = task_table \ {t}
            /\ expired' = expired \ {t}

\* FinishTask in Read, called by CRead: the result goes to a local of CRead.
FinishInner(th) ==
    /\ thread[th].at = "inner"
    /\ Erase(thread[th].tid)
    /\ thread' = [thread EXCEPT ![th].at = "finish"]
    /\ UNCHANGED <<callVars, posted, client, err>>

FinishTask(th) ==
    /\ thread[th].at = "finish"
    /\ Erase(thread[th].tid)
    /\ thread' = [thread EXCEPT ![th] = IF @.tid \in task_table
                                        THEN [@ EXCEPT !.at = "report"]
                                        ELSE IdleThread]
    /\ UNCHANGED <<callVars, posted, client, err>>

\* *err = r, after lock_ was released.
Report(th) ==
    /\ thread[th].at = "report"
    /\ err' = [err EXCEPT ![SlotOf(thread[th].tid)] = thread[th].r]
    /\ thread' = [thread EXCEPT ![th] = IdleThread]
    /\ UNCHANGED <<callVars, tableVars, posted, client>>

-----------------------------------------------------------------------------
(* The watcher.  Expire is the clock: RETRY_TIME_SEC pass without an end.  *)

Expire(t) ==
    /\ t \in task_table \ expired
    /\ posted[t] + Cardinality(Running(t)) < MaxPosts
    /\ expired' = expired \cup {t}
    /\ UNCHANGED <<callVars, task_table, posted, thread, client, err>>

\* One scan of the table under lock_: restart the clock of every expired
\* task and post its closure again.
WatchTasks ==
    /\ expired # {}
    /\ expired' = {}
    /\ posted' = [t \in Tids |-> IF t \in expired THEN posted[t] + 1 ELSE posted[t]]
    /\ UNCHANGED <<callVars, task_table, thread, client, err>>

-----------------------------------------------------------------------------
Caller(s) == \/ \E m \in Modes : Invoke(s, m)
             \/ StartTask(s)
             \/ Post(s)
             \/ Observe(s)

Work(th) == \/ \E r \in Results : Complete(th, r)
            \/ ReturnEarly(th)
            \/ FinishInner(th)
            \/ FinishTask(th)
            \/ Report(th)

Next == \/ \E s \in Slots : Caller(s)
        \/ \E th \in Threads, t \in Tids : Run(th, t)
        \/ \E th \in Threads : Work(th) \/ Hang(th)
        \/ \E t \in Tids : Expire(t)
        \/ WatchTasks

Spec == Init /\ [][Next]_vars

(***************************************************************************)
(* A caller that entered a call goes on with it and polls; a thread that   *)
(* does not hang gets its answer; the queue of ios_ is FIFO, so a posted   *)
(* closure gets a thread although threads are free only from time to time  *)
(* (strong fairness, per task); time passes and WatchTasks, a loop with a  *)
(* sleep of a second, scans again.  Nothing makes a caller start another   *)
(* call, and nothing ends a hang.                                          *)
(***************************************************************************)
Fairness == /\ \A s \in Slots : WF_vars(StartTask(s) \/ Post(s) \/ Observe(s))
            /\ \A th \in Threads : WF_vars(Work(th))
            /\ \A t \in Tids : SF_vars(\E th \in Threads : Run(th, t))
            /\ \A t \in Tids : WF_vars(Expire(t))
            /\ WF_vars(WatchTasks)

FairSpec == Spec /\ Fairness

-----------------------------------------------------------------------------
(* Properties *)

\* Types, and: only tasks in the table have a running clock.
TypeOK ==
    /\ tid_counter \in 0 .. MaxTid
    /\ task_table \subseteq Tids
    /\ expired \subseteq task_table
    /\ posted \in [Tids -> Nat]
    /\ closure \in [Tids -> Closure]
    /\ thread \in [Threads -> Thread]
    /\ client \in [Slots -> Client]
    /\ err \in [Slots -> Results \cup {"pending"}]

\* The caller of task t is still in that call, and has no answer yet.  It may
\* not have posted it itself: WatchTasks posts what is in the table.
Awaited(t) == /\ client[SlotOf(t)].at \in {"post", "wait"}
              /\ client[SlotOf(t)].tid = t
              /\ err[SlotOf(t)] = "pending"

\* The callers whose calls have all been of operations that end in FinishTask.
Finishers == {s \in Slots : \A t \in Tids : (t < tid_counter /\ SlotOf(t) = s)
                                              => closure[t].mode \notin EarlyModes}

\* A thread that is about to write *err writes the answer of the call its
\* caller is polling for, and no second thread is about to answer that call:
\* the test of FinishTask keeps retries of a finished call away from the
\* result variable, which by then belongs to the caller's next call.  (A caller
\* of operations that return early may leave the call before.)
ReportIsAwaited ==
    \A th \in Threads :
       thread[th].at = "report" =>
          /\ SlotOf(thread[th].tid) \in Finishers => Awaited(thread[th].tid)
          /\ \A other \in Threads \ {th} :
                ~ (thread[other].at = "report" /\ thread[other].tid = thread[th].tid)

\* No call is lost between StartTask and its answer: while the caller has no
\* answer the task is in the table, where WatchTasks finds it, or a thread is
\* about to answer.  So a thread that ends the operation first always reports.
\* (CRead is different: see EveryCallReported and the run that violates it.)
AwaitedIsTracked ==
    \A s \in Slots :
       /\ client[s].at \in {"post", "wait"}
       /\ err[s] = "pending"
       /\ closure[client[s].tid].mode # "cr"
       => \/ client[s].tid \in task_table
          \/ \E th \in Threads : thread[th].at = "report" /\ thread[th].tid = client[s].tid

\* assert(task_table_.count(tid) == 0) in StartTask; and no closure with this
\* tid is queued or running yet, so none can finish a task not yet entered.
TidUnused ==
    \A s \in Slots :
       client[s].at = "start" =>
          /\ client[s].tid \notin task_table
          /\ posted[client[s].tid] = 0
          /\ Running(client[s].tid) = {}

\* What a caller and its result variable amount to for the abstract interface.
CallPhase == [s \in Slots |-> IF client[s].at = "idle" THEN "idle"
                              ELSE IF err[s] = "pending" THEN "pending"
                              ELSE "answered"]

\* The asynchronous interface answers each call at most once, and an answer
\* stays until the caller starts its next call, although threads of earlier
\* calls are still at work: CreateAsync and the others implement AsyncCall.
Async == INSTANCE AsyncCall WITH call <- CallPhase, answer <- err
AsyncSpec == Async!Spec

\* Every call gets its answer, even when a thread hangs in it: WatchTasks
\* posts the call again and another thread of the pool serves it.
EveryCallReported ==
    \A s \in Slots : client[s].at = "start" ~> client[s].at = "idle"

-----------------------------------------------------------------------------
(***************************************************************************)
(* The inductive invariant behind the properties above.  Its core is       *)
(* Tabled: erasing a task from the table is what hands the right to write  *)
(* *err to one thread, and the caller cannot leave the call before that    *)
(* write, unless a thread that returns early writes *err as well.          *)
(***************************************************************************)

\* An id not given out yet occurs nowhere.
Fresh == \A t \in Tids :
            t >= tid_counter => /\ t \notin task_table
                                /\ posted[t] = 0
                                /\ \A th \in Threads : thread[th].tid # t
                                /\ \A s \in Slots : client[s].tid # t

\* A caller in a call owns the task of that call.
Owns == \A s \in Slots :
           client[s].at # "idle" => SlotOf(client[s].tid) = s

\* Before StartTask nobody else knows the task.
Starting == \A s \in Slots :
               client[s].at = "start" =>
                  /\ s \in Finishers => err[s] = "pending"
                  /\ client[s].tid \notin task_table
                  /\ posted[client[s].tid] = 0
                  /\ \A th \in Threads : thread[th].tid # client[s].tid

\* A task in the table is awaited, and nobody is about to answer it yet.
Tabled == \A t \in task_table :
             /\ SlotOf(t) \in Finishers => Awaited(t)
             /\ \A th \in Threads : thread[th].at = "report" => thread[th].tid # t

IInv == /\ TypeOK
        /\ Fresh
        /\ Owns
        /\ Starting
        /\ Tabled
        /\ ReportIsAwaited
=============================================================================
