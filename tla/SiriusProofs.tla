---------------------------- MODULE SiriusProofs -----------------------------
(***************************************************************************)
(* What a pool thread and a reader rely on in the whole library: a session *)
(* of their own, and a buffer that nobody else fills.                      *)
(*                                                                         *)
(* They rest on the invariant of TaskManager, which holds here because the *)
(* steps of the library are steps of the task manager.                     *)
(***************************************************************************)
EXTENDS Sirius, TaskManagerProofs, FiniteSetTheorems

-----------------------------------------------------------------------------
(* The steps of the library are steps of the task manager.                 *)

\* What the library leaves alone in a step of the task manager.
Elsewhere == <<store, mover, current, status, bounds, started, free, reserve_map,
               script, request, buffer, retried>>

\* The mode of an operation.
LEMMA ModesOfOps ==
  ASSUME NEW req \in Requests
  PROVE  /\ ModeFor(req.op) \in Modes
         /\ ModeFor(req.op) = "r" <=> req.op = "read"
         /\ req.op \in {"create", "read"} => ModeFor(req.op) \in {"w", "r"}
         /\ ModeFor(req.op) \notin {"w", "r"} => ModeFor(req.op) \in EarlyModes
BY SiriusAssumption DEF ModeFor

\* A caller's script consists of requests.
LEMMA ScriptsAreRequests ==
  ASSUME NEW calls \in Scripts, NEW i \in 1 .. Len(calls)
  PROVE  calls[i] \in Requests
BY DEF Requests

\* The steps of Sirius, one by one.
LEMMA InvokeStep ==
  ASSUME NEW s \in Slots, script[s] \in Scripts, LibInvoke(s)
  PROVE  LET n == Cardinality(Made(s)) + 1 IN
         /\ SP!Ready
         /\ n <= Len(script[s])
         /\ Invoke(s, ModeFor(script[s][n].op))
         /\ request' = [request EXCEPT ![tid_counter] = script[s][n]]
         /\ UNCHANGED <<store, mover, current, status, bounds, started, free, reserve_map,
                        script, buffer, retried>>
BY DEF LibInvoke, poolVars, sessionVars, bufferVars

\* What each step of the library is to the task manager: a call from outside,
LEMMA CallStep ==
  ASSUME NEW s \in Slots, Call(s)
  PROVE  (StartTask(s) \/ Post(s) \/ Observe(s)) /\ UNCHANGED Elsewhere
BY DEF Call, poolVars, sessionVars, bufferVars, Elsewhere

\* a pool thread that takes a task,
LEMMA RunStep ==
  ASSUME NEW th \in Threads, NEW t, LibRun(th, t)
  PROVE  /\ Run(th, t)
         /\ mover' = [mover EXCEPT ![th] = [at |-> OM!FirstStep(request[t]),
                                           req |-> request[t], tier |-> "FAST", r |-> "ok"]]
         /\ UNCHANGED <<store, current, status, bounds, started, free, reserve_map, script,
                        request, buffer, retried>>
BY DEF LibRun, OM!Begin, sessionVars, bufferVars

\* one whose operation is done,
LEMMA FinishStep ==
  ASSUME NEW th \in Threads, Finish(th)
  PROVE  /\ mover[th].at = "finish"
         /\ Complete(th, IF mover[th].r = "ok" THEN "ok" ELSE "fail")
         /\ mover' = [mover EXCEPT ![th] = OM!IdleThread]
         /\ UNCHANGED <<store, current, status, bounds, started, free, reserve_map, script,
                        request, buffer, retried>>
BY DEF Finish, OM!End, sessionVars, bufferVars

\* one that returns before FinishTask,
LEMMA ReturnEarlyStep ==
  ASSUME NEW th \in Threads, LibReturnEarly(th)
  PROVE  /\ ReturnEarly(th)
         /\ mover' = [mover EXCEPT ![th] = OM!IdleThread]
         /\ UNCHANGED <<store, current, status, bounds, started, free, reserve_map, script,
                        request, buffer, retried>>
BY DEF LibReturnEarly, OM!End, sessionVars, bufferVars

\* the two halves of the answer,
LEMMA AnswerStep ==
  ASSUME NEW th \in Threads, Answer(th)
  PROVE  (FinishTask(th) \/ Report(th)) /\ UNCHANGED Elsewhere
BY DEF Answer, poolVars, sessionVars, bufferVars, Elsewhere

\* a thread that hangs,
LEMMA HangStep ==
  ASSUME NEW th \in Threads, LibHang(th)
  PROVE  Hang(th) /\ UNCHANGED Elsewhere
BY DEF LibHang, poolVars, sessionVars, bufferVars, Elsewhere

\* a task that becomes too old,
LEMMA ExpireStep ==
  ASSUME NEW t, LibExpire(t)
  PROVE  Expire(t) /\ UNCHANGED Elsewhere
BY DEF LibExpire, poolVars, sessionVars, bufferVars, Elsewhere

\* and the watch over the tasks.
LEMMA WatchTasksStep ==
  ASSUME LibWatchTasks
  PROVE  /\ WatchTasks
         /\ retried' = retried \cup expired
         /\ UNCHANGED <<store, mover, current, status, bounds, started, free, reserve_map,
                        script, request, buffer>>
BY DEF LibWatchTasks, poolVars, sessionVars

\* An operation on RADOS takes its thread a step on, or ends the process.
LEMMA OperateGoes ==
  ASSUME NEW th \in Threads, NEW step, NEW answer, NEW after, NEW failed,
         \/ OM!Operate(th, step, answer, after, failed)
         \/ OM!OperateShadowed(th, step, answer, after, failed)
  PROVE  /\ mover[th].at = step
         /\ \E m : mover' = [mover EXCEPT ![th] = m]
         /\ UNCHANGED status
BY DEF OM!Operate, OM!OperateOn, OM!OperateShadowed, OM!OperateShadowedOn, OM!Goto,
       OM!GotoWith, OM!At

\* So does a step of any operation.
LEMMA ServeGoes ==
  ASSUME NEW th \in Threads, OM!Serve(th)
  PROVE  /\ mover[th].at # "finish"
         /\ mover[th].at = "read" => OM!Read(th)
         /\ \/ status' = "aborted"
            \/ \E m : mover' = [mover EXCEPT ![th] = m]
<1>1. CASE OM!Create(th)
  BY <1>1, OperateGoes DEF OM!Create, OM!Write, OM!Dummy, OM!Link
<1>2. CASE OM!Read(th)
  BY <1>2 DEF OM!Read, OM!ReadOn, OM!OperateOn, OM!GotoWith, OM!At
<1>3. CASE OM!Lock(th) \/ OM!Unlock(th)
  BY <1>3 DEF OM!Lock, OM!LockOn, OM!Unlock, OM!UnlockOn, OM!OperateAssertedOn, OM!Goto,
              OM!At, OM!AbortAfter, OM!Abort
<1>4. CASE OM!Locate(th)
  BY <1>4 DEF OM!Locate, OM!LocateOn, OM!At, OM!AbortAfter, OM!Abort
<1>5. CASE OM!MoveUp(th)
  BY <1>5, OperateGoes DEF OM!MoveUp, OM!Unlink, OM!Promote, OM!RmSource
<1>6. CASE OM!CopyDown(th)
  BY <1>6 DEF OM!CopyDown, OM!CopyDownOn, OM!Goto, OM!At
<1>7. CASE OM!Replace(th)
  BY <1>7, OperateGoes DEF OM!Replace
<1>8. CASE OM!MoveAcross(th)
  BY <1>8, OperateGoes DEF OM!MoveAcross, OM!XUnlink, OM!XCopy, OM!XRemove, OM!XDummy, OM!XLink
<1>9. CASE OM!Delete(th)
  <2>1. CASE OM!RmTarget(th)
    BY <2>1, OperateGoes DEF OM!RmTarget
  <2>2. CASE OM!RmSelf(th)
    BY <2>2 DEF OM!RmSelf, OM!GotoWith, OM!At
  <2> QED
    BY <1>9, <2>1, <2>2 DEF OM!Delete
<1> QED
  BY <1>1, <1>2, <1>3, <1>4, <1>5, <1>6, <1>7, <1>8, <1>9 DEF OM!Serve, OM!MoveDown

\* Nothing that serving does concerns the task manager, but a read that has
\* found its object fills the buffer.
LEMMA ServeStep ==
  ASSUME NEW th \in Threads, Serve(th)
  PROVE  /\ thread[th].at = "running"
         /\ mover[th].at # "finish"
         /\ mover[th].at = "read" =>
               /\ \E r : mover' = [mover EXCEPT ![th] = [@ EXCEPT !.at = "finish", !.r = r]]
               /\ UNCHANGED status
         /\ \/ status' = "aborted"
            \/ \E m : mover' = [mover EXCEPT ![th] = m]
         /\ \/ /\ buffer' = [buffer EXCEPT ![SlotOf(thread[th].tid)] = thread[th].tid]
               /\ mover[th].at = "read"
            \/ /\ UNCHANGED buffer
               /\ ~ (mover[th].at = "read" /\ mover'[th].r = "ok")
         /\ UNCHANGED <<tid_counter, task_table, expired, posted, closure, thread, client, err,
                        started, free, reserve_map, script, request, retried>>
<1>1. /\ thread[th].at = "running" /\ OM!Serve(th) /\ Fill(th)
      /\ UNCHANGED <<tid_counter, task_table, expired, posted, closure, thread, client, err,
                     started, free, reserve_map, script, request, retried>>
  BY DEF Serve, vars, sessionVars
<1>2. \/ /\ buffer' = [buffer EXCEPT ![SlotOf(thread[th].tid)] = thread[th].tid]
         /\ mover[th].at = "read"
      \/ /\ UNCHANGED buffer
         /\ ~ (mover[th].at = "read" /\ mover'[th].r = "ok")
  BY <1>1 DEF Fill, SlotOf, Tid
<1>3. OM!Read(th) =>
         /\ \E r : mover' = [mover EXCEPT ![th] = [@ EXCEPT !.at = "finish", !.r = r]]
         /\ UNCHANGED status
  BY DEF OM!Read, OM!ReadOn, OM!OperateOn, OM!GotoWith
<1> QED
  BY <1>1, <1>2, <1>3, ServeGoes

\* There are finitely many tasks.
LEMMA TidsFinite == IsFiniteSet(Tids)
<1>1. 0 \in Int /\ MaxTid - 1 \in Int
  BY BoundsAssumption
<1> QED
  BY <1>1, FS_Interval DEF Tids

\* The step of a caller, a pool thread or the clock.
NotWatching == \/ \E s \in Slots : Caller(s)
               \/ \E th \in Threads, t \in Tids : Run(th, t)
               \/ \E th \in Threads : Work(th) \/ Hang(th)
               \/ \E t \in Tids : Expire(t)
               \/ UNCHANGED vars

\* All in all a step of the library is a step of the task manager, and only
\* WatchTasks enters tasks among the retried, those it posts.
LEMMA StepKinds ==
  ASSUME script \in [Slots -> Scripts], [LibNext]_libVars
  PROVE  /\ \/ NotWatching /\ UNCHANGED retried
            \/ WatchTasks /\ retried' = retried \cup expired
         /\ UNCHANGED script
<1>1. CASE Construct \/ UNCHANGED libVars
  BY <1>1 DEF Construct, libVars, vars, bufferVars, NotWatching
<1>2. ASSUME NEW s \in Slots, LibInvoke(s) PROVE NotWatching /\ UNCHANGED <<script, retried>>
  <2> DEFINE n == Cardinality(Made(s)) + 1
  <2>1. /\ n <= Len(script[s]) /\ Invoke(s, ModeFor(script[s][n].op))
        /\ UNCHANGED <<script, retried>>
    BY <1>2, InvokeStep
  <2>2. n \in 1 .. Len(script[s])
    <3>1. Made(s) \subseteq Tids
      BY DEF Made, Tids
    <3>2. IsFiniteSet(Made(s))
      BY <3>1, TidsFinite, FS_Subset
    <3>3. Cardinality(Made(s)) \in Nat
      BY <3>2, FS_CardinalityType
    <3> HIDE DEF n
    <3>4. n \in Nat /\ n >= 1
      BY <3>3 DEF n
    <3> QED
      BY <2>1, <3>4
  <2>3. ModeFor(script[s][n].op) \in Modes
    BY <2>2, ScriptsAreRequests, ModesOfOps
  <2> QED
    BY <2>1, <2>3 DEF NotWatching, Caller
<1>3. ASSUME NEW s \in Slots, Call(s) PROVE NotWatching /\ UNCHANGED <<script, retried>>
  BY <1>3, CallStep DEF NotWatching, Caller, Elsewhere
<1>4. ASSUME NEW th \in Threads, NEW t \in Tids, LibRun(th, t)
      PROVE  NotWatching /\ UNCHANGED <<script, retried>>
  BY <1>4, RunStep DEF NotWatching
<1>5. ASSUME NEW th \in Threads, Serve(th) PROVE NotWatching /\ UNCHANGED <<script, retried>>
  BY <1>5, ServeStep DEF vars, NotWatching
<1>6. ASSUME NEW th \in Threads, Finish(th) PROVE NotWatching /\ UNCHANGED <<script, retried>>
  BY <1>6, FinishStep DEF NotWatching, Work, Results
<1>7. ASSUME NEW th \in Threads, LibReturnEarly(th) \/ Answer(th) \/ LibHang(th)
      PROVE  NotWatching /\ UNCHANGED <<script, retried>>
  BY <1>7, ReturnEarlyStep, AnswerStep, HangStep DEF NotWatching, Work, Elsewhere
<1>8. ASSUME NEW t \in Tids, LibExpire(t) PROVE NotWatching /\ UNCHANGED <<script, retried>>
  BY <1>8, ExpireStep DEF NotWatching, Elsewhere
<1>9. CASE LibWatchTasks
  BY <1>9, WatchTasksStep
<1> QED
  BY <1>1, <1>2, <1>3, <1>4, <1>5, <1>6, <1>7, <1>8, <1>9
  DEF LibNext, LibWork, Tids

\* Every step of the library is a step of the task manager or none.
LEMMA StepIsTasks ==
  ASSUME script \in [Slots -> Scripts], [LibNext]_libVars
  PROVE  [Next]_vars /\ UNCHANGED script
BY StepKinds DEF NotWatching, Next

-----------------------------------------------------------------------------
(* Sessions                                                                *)

\* Each thread has another session, and none of those that are free; and no
\* call is made before every thread has one.
Reserving ==
    /\ reserve_map = [th \in Threads |-> reserve_map[th]]
    /\ free \subseteq Sessions
    /\ \A th \in Threads :
          SP!Reserved(th) =>
             /\ reserve_map[th] \notin free
             /\ \A other \in Threads \ {th} : reserve_map[other] # reserve_map[th]
    /\ tid_counter # 0 => SP!Ready

\* Init has no thread with a session.
LEMMA ReservingInit == ASSUME LibInit PROVE Reserving
BY SiriusAssumption DEF LibInit, Init, SP!Init, SP!Reserved, Reserving

\* The constructor takes a session for a thread from those that are free, and
\* no other step takes or gives one.
LEMMA ReservingStep ==
  ASSUME script \in [Slots -> Scripts],
         Reserving, [LibNext]_libVars
  PROVE  Reserving'
<1>1. ASSUME UNCHANGED <<free, reserve_map>>, tid_counter' = tid_counter \/ SP!Ready
      PROVE  Reserving'
  BY <1>1 DEF Reserving, SP!Reserved, SP!Ready
<1>2. CASE Construct
  <2>1. UNCHANGED tid_counter
    BY <1>2 DEF Construct, vars
  <2>2. ASSUME NEW th \in Threads, SP!StartThread(th) PROVE Reserving'
    BY <1>1, <2>1, <2>2 DEF SP!StartThread
  <2>3. ASSUME NEW th \in Threads, SP!ReserveSession(th) PROVE Reserving'
    <3>1. PICK session : session = SP!FirstFree
      OBVIOUS
    <3>2. session \in free
      BY <2>3, <3>1 DEF SP!ReserveSession, SP!FirstFree
    <3>3. /\ reserve_map'[th] = session
          /\ \A other \in Threads \ {th} : reserve_map'[other] = reserve_map[other]
          /\ free' = free \ {session}
          /\ reserve_map' = [other \in Threads |-> reserve_map'[other]]
      BY <2>3, <3>1 DEF SP!ReserveSession, Reserving
    <3>4. tid_counter = 0
      BY <2>3 DEF SP!ReserveSession, SP!Ready, Reserving
    <3>5. session # NoSession
      BY <3>2, SiriusAssumption DEF Reserving
    <3> QED
      BY <2>1, <3>2, <3>3, <3>4, <3>5 DEF Reserving, SP!Reserved
  <2> QED
    BY <1>2, <2>2, <2>3 DEF Construct, SP!Next
<1>3. ASSUME NEW s \in Slots, LibInvoke(s) PROVE Reserving'
  BY <1>1, <1>3, InvokeStep
<1>4. ASSUME NEW s \in Slots, Call(s) PROVE Reserving'
  BY <1>1, <1>4 DEF Call, StartTask, Post, Observe, callVars, sessionVars
<1>5. ASSUME NEW th \in Threads, NEW t, LibRun(th, t) PROVE Reserving'
  BY <1>1, <1>5 DEF LibRun, Run, callVars, sessionVars
<1>6. ASSUME NEW th \in Threads, LibWork(th) \/ LibHang(th) PROVE Reserving'
  BY <1>1, <1>6 DEF LibWork, Serve, Finish, LibReturnEarly, Answer, LibHang, Complete,
                    ReturnEarly, FinishTask, Report, Hang, callVars, sessionVars, vars
<1>7. CASE LibWatchTasks \/ (\E t \in Tids : LibExpire(t)) \/ UNCHANGED libVars
  BY <1>1, <1>7 DEF LibWatchTasks, LibExpire, WatchTasks, Expire, callVars, sessionVars,
                    vars, libVars
<1> QED
  BY <1>2, <1>3, <1>4, <1>5, <1>6, <1>7 DEF LibNext

\* The invariant of the task manager holds in the library.
LEMMA TasksKept == LibSpec => [](IInv /\ script \in [Slots -> Scripts] /\ Reserving)
<1>1. LibInit => IInv /\ script \in [Slots -> Scripts] /\ Reserving
  BY IInvInit, ReservingInit DEF LibInit
<1>2. IInv /\ script \in [Slots -> Scripts] /\ Reserving /\ [LibNext]_libVars
         => (IInv /\ script \in [Slots -> Scripts] /\ Reserving)'
  BY StepIsTasks, IInvStep, ReservingStep
<1> QED
  BY <1>1, <1>2, PTL DEF LibSpec

\* Seen from the callers, the library whose operations take many steps on RADOS,
\* fail or spin is TaskManager, in which an operation is one step with any
\* result: what is proved of TaskManager holds of the library.
THEOREM CallsAreTasks == LibSpec => Spec
<1>1. LibInit => Init
  BY DEF LibInit
<1>2. script \in [Slots -> Scripts] /\ [LibNext]_libVars => [Next]_vars
  BY StepIsTasks
<1> QED
  BY <1>1, <1>2, TasksKept, PTL DEF LibSpec, Spec

\* A pool thread that runs an operation has a session, and nobody else has it:
\* the constructor starts threads before it reserves their sessions, but no
\* call can be made before it returns.
THEOREM SessionsAreOwn == LibSpec => []OwnSession
<1>1. IInv /\ Reserving => OwnSession
  <2> SUFFICES ASSUME IInv, Reserving, NEW th \in Threads, thread[th].at # "idle"
               PROVE  /\ SP!Reserved(th)
                      /\ \A other \in Threads \ {th} :
                            SP!GetSession(other) # SP!GetSession(th)
    BY DEF OwnSession
  <2>1. thread[th].tid \in Tids
    BY Typed DEF IInv, IdleThread
  <2>2. tid_counter # 0
    BY <2>1 DEF IInv, Fresh, Tids
  <2>3. SP!Reserved(th)
    BY <2>2 DEF Reserving, SP!Ready
  <2> QED
    BY <2>3 DEF Reserving, SP!GetSession
<1> QED
  BY <1>1, TasksKept, PTL

-----------------------------------------------------------------------------
(* Calls in the order of the scripts                                       *)

\* In every script a Read comes after Creates and other Reads only.
ReadsFirst ==
    \A calls \in Scripts : \A i \in 1 .. Len(calls) :
       calls[i].op = "read" => \A j \in 1 .. i - 1 : calls[j].op \in {"create", "read"}

\* Each call is one of the script, a Read among them comes after Creates and
\* other Reads, and the caller is in the last of its calls.
Scripted ==
    /\ script \in [Slots -> Scripts]
    /\ request = [t \in Tids |-> request[t]]
    /\ \A t \in Tids :
          t < tid_counter => /\ request[t] \in Requests
                             /\ closure[t].mode = ModeFor(request[t].op)
    /\ \A s \in Slots : \A t \in Made(s) :
          /\ \E i \in 1 .. Cardinality(Made(s)) : request[t] = script[s][i]
          /\ request[t].op = "read" =>
                \A u \in Made(s) : u < t => request[u].op \in {"create", "read"}
          /\ client[s].at # "idle" => t <= client[s].tid

\* A call makes a finite number of tasks.
LEMMA MadeFinite ==
  ASSUME NEW s
  PROVE  IsFiniteSet(Made(s)) /\ Cardinality(Made(s)) \in Nat
<1>1. Made(s) \subseteq Tids
  BY DEF Made
<1> QED
  BY <1>1, TidsFinite, FS_Subset, FS_CardinalityType

\* No caller gets another task.
NoNewCall ==
    /\ UNCHANGED <<tid_counter, closure, request, script>>
    /\ \A s \in Slots :
          client'[s].at # "idle" => client[s].at # "idle" /\ client'[s].tid = client[s].tid

\* But by Invoke.
LEMMA Calling ==
  ASSUME script \in [Slots -> Scripts], IInv,
         [LibNext]_libVars
  PROVE  (\E s \in Slots : LibInvoke(s)) \/ NoNewCall
<1>a. TypeOK
  BY DEF IInv
<1>0. ASSUME UNCHANGED <<tid_counter, closure, request, script, client>> PROVE NoNewCall
  BY <1>0 DEF NoNewCall
<1>1. CASE Construct \/ UNCHANGED libVars
  BY <1>1, <1>0 DEF Construct, libVars, vars
<1>2. ASSUME NEW s \in Slots, Call(s) PROVE NoNewCall
  <2>1. (StartTask(s) \/ Post(s) \/ Observe(s)) /\ UNCHANGED <<request, script>>
    BY <1>2, CallStep DEF Elsewhere
  <2>2. UNCHANGED <<tid_counter, closure>> /\ \A q \in Slots \ {s} : client'[q] = client[q]
    BY <2>1, <1>a DEF StartTask, Post, Observe, callVars, TypeOK
  <2>3. client[s].at # "idle" /\ (client'[s].tid = client[s].tid \/ client'[s] = IdleClient)
    <3>1. client[s] \in [at : {"start", "post", "wait"}, tid : Tids]
      BY <2>1, <1>a DEF StartTask, Post, Observe, TypeOK, Client, IdleClient
    <3>2. CASE StartTask(s) \/ Post(s)
      BY <1>a, <3>1, <3>2 DEF StartTask, Post, TypeOK
    <3>3. CASE Observe(s)
      BY <1>a, <3>1, <3>3 DEF Observe, TypeOK
    <3> QED
      BY <2>1, <3>2, <3>3
  <2> QED
    BY <2>1, <2>2, <2>3 DEF NoNewCall, IdleClient
<1>3. ASSUME NEW th \in Threads, NEW t, LibRun(th, t) PROVE NoNewCall
  BY <1>3, <1>0, RunStep DEF Run, callVars
<1>4. ASSUME NEW th \in Threads, Serve(th) PROVE NoNewCall
  BY <1>4, <1>0, ServeStep
<1>5. ASSUME NEW th \in Threads, Finish(th) PROVE NoNewCall
  BY <1>5, <1>0, FinishStep DEF Complete, callVars
<1>6. ASSUME NEW th \in Threads, LibReturnEarly(th) PROVE NoNewCall
  BY <1>6, <1>0, ReturnEarlyStep DEF ReturnEarly, callVars
<1>7. ASSUME NEW th \in Threads, Answer(th) \/ LibHang(th) PROVE NoNewCall
  BY <1>7, <1>0, AnswerStep, HangStep DEF FinishTask, Report, Hang, callVars, Elsewhere
<1>8. CASE LibWatchTasks \/ \E t \in Tids : LibExpire(t)
  BY <1>8, <1>0, WatchTasksStep, ExpireStep DEF WatchTasks, Expire, callVars, Elsewhere
<1> QED
  BY <1>1, <1>2, <1>3, <1>4, <1>5, <1>6, <1>7, <1>8 DEF LibNext, LibWork

\* Nothing has been called in the beginning.
LEMMA ScriptedInit == ASSUME LibInit PROVE Scripted
<1>1. tid_counter = 0 /\ script \in [Slots -> Scripts] /\ request = [t \in Tids |-> request[t]]
  BY DEF LibInit, Init, Tids
<1> QED
  BY <1>1 DEF Scripted, Made, Tids

\* Every step keeps to the scripts.
LEMMA ScriptedStep ==
  ASSUME ReadsFirst, IInv, Scripted, [LibNext]_libVars
  PROVE  Scripted'
<1>a. TypeOK /\ Fresh /\ script \in [Slots -> Scripts]
  BY DEF IInv, Scripted
<1>1. CASE NoNewCall
  <2>1. \A s \in Slots : Made(s)' = Made(s)
    BY <1>1 DEF NoNewCall, Made, SlotOf
  <2>2. ASSUME NEW s \in Slots, NEW t \in Made(s)'
        PROVE  /\ \E i \in 1 .. Cardinality(Made(s)') : request'[t] = script'[s][i]
               /\ request'[t].op = "read" =>
                     \A u \in Made(s)' : u < t => request'[u].op \in {"create", "read"}
               /\ client'[s].at # "idle" => t <= client'[s].tid
    <3>1. /\ Made(s)' = Made(s) /\ t \in Made(s)
          /\ UNCHANGED <<request, script>>
          /\ client'[s].at # "idle" => client[s].at # "idle" /\ client'[s].tid = client[s].tid
      BY <1>1, <2>1, <2>2 DEF NoNewCall
    <3>2. \E i \in 1 .. Cardinality(Made(s)') : request'[t] = script'[s][i]
      BY <3>1 DEF Scripted
    <3>3. request'[t].op = "read" =>
             \A u \in Made(s)' : u < t => request'[u].op \in {"create", "read"}
      BY <3>1 DEF Scripted
    <3>4. client'[s].at # "idle" => t <= client'[s].tid
      BY <3>1 DEF Scripted
    <3> QED
      BY <3>2, <3>3, <3>4
  <2> QED
    BY <1>1, <2>2 DEF NoNewCall, Scripted
<1>2. ASSUME NEW s \in Slots, LibInvoke(s) PROVE Scripted'
  <2> DEFINE k == Cardinality(Made(s)) + 1
             n == tid_counter
  <2>1. /\ k <= Len(script[s]) /\ Invoke(s, ModeFor(script[s][k].op))
        /\ request' = [request EXCEPT ![n] = script[s][k]]
        /\ UNCHANGED script
    BY <1>2, <1>a, InvokeStep
  <2>2. k \in Nat \ {0} /\ Cardinality(Made(s)) = k - 1 /\ k \in 1 .. Len(script[s])
    BY <2>1, MadeFinite
  <2>3. n \in Tids /\ n \in Nat /\ \A t \in Tids : t < n + 1 <=> t < n \/ t = n
    BY <2>1, <1>a, BoundsAssumption DEF Invoke, TypeOK, Tids
  <2> DEFINE req == script[s][k]
  <2>4. /\ tid_counter' = n + 1
        /\ closure'[n] = [slot |-> s, mode |-> ModeFor(req.op)]
        /\ \A t \in Tids \ {n} : closure'[t] = closure[t] /\ request'[t] = request[t]
        /\ request'[n] = req
        /\ request' = [t \in Tids |-> request'[t]]
        /\ client'[s].tid = n
        /\ \A q \in Slots \ {s} : client'[q] = client[q]
    BY <1>a, <2>1, <2>3 DEF Invoke, TypeOK, Scripted
  <2>5. /\ Made(s)' = Made(s) \cup {n} /\ n \notin Made(s)
        /\ \A q \in Slots \ {s} : Made(q)' = Made(q)
    BY <2>3, <2>4 DEF Made, SlotOf
  <2>6. Cardinality(Made(s)') = k
    BY <2>2, <2>5, MadeFinite, FS_AddElement
  <2>7. req \in Requests
    BY <1>a, <2>2, ScriptsAreRequests
  <2>8. \A q \in Slots : \A t \in Made(q) : t \in Tids \ {n} /\ t < n /\ request'[t] = request[t]
    BY <2>3, <2>4 DEF Made
  <2> HIDE DEF k, n, req
  <2>9. ASSUME req.op = "read", NEW u \in Made(s) PROVE request[u].op \in {"create", "read"}
    <3>1. PICK i \in 1 .. k - 1 : request[u] = script[s][i]
      BY <2>2, <2>9 DEF Scripted
    <3>2. script[s] \in Scripts /\ script[s][k].op = "read"
      BY <1>a, <2>9 DEF req
    <3> QED
      BY <2>2, <3>1, <3>2 DEF ReadsFirst
  <2>10. ASSUME NEW t \in Tids, t < tid_counter'
         PROVE  request'[t] \in Requests /\ closure'[t].mode = ModeFor(request'[t].op)
    <3>1. CASE t = n
      BY <2>4, <2>7, <3>1
    <3>2. CASE t # n
      BY <2>3, <2>4, <2>10, <3>2 DEF Scripted, n
    <3> QED
      BY <3>1, <3>2
  <2>11. ASSUME NEW t \in Made(s)'
         PROVE  /\ \E i \in 1 .. Cardinality(Made(s)') : request'[t] = script'[s][i]
                /\ request'[t].op = "read" =>
                      \A u \in Made(s)' : u < t => request'[u].op \in {"create", "read"}
                /\ t <= client'[s].tid
    <3>1. CASE t = n
      <4>1. request'[t] = script'[s][k] /\ k \in 1 .. Cardinality(Made(s)')
        BY <2>1, <2>2, <2>4, <2>6, <3>1 DEF req
      <4>2. \A u \in Made(s)' : u < t => u \in Made(s)
        BY <2>3, <2>5, <3>1
      <4>3. request'[t].op = "read" =>
               \A u \in Made(s)' : u < t => request'[u].op \in {"create", "read"}
        BY <2>4, <2>8, <2>9, <3>1, <4>2
      <4> QED
        BY <2>3, <2>4, <3>1, <4>1, <4>3
    <3>2. CASE t \in Made(s)
      <4>1. t < n /\ t \in Tids
        BY <2>8, <3>2
      <4>2. \A u \in Made(s)' : u < t => u \in Made(s)
        BY <2>3, <2>5, <4>1 DEF Tids
      <4>3. PICK i \in 1 .. Cardinality(Made(s)) : request[t] = script[s][i]
        BY <3>2 DEF Scripted
      <4>4. i \in 1 .. Cardinality(Made(s)') /\ request'[t] = script'[s][i]
        BY <2>1, <2>2, <2>6, <2>8, <3>2, <4>3
      <4>5. request'[t].op = "read" =>
               \A u \in Made(s)' : u < t => request'[u].op \in {"create", "read"}
        BY <2>8, <3>2, <4>2 DEF Scripted
      <4> QED
        BY <2>3, <2>4, <4>1, <4>4, <4>5 DEF Tids
    <3> QED
      BY <2>5, <3>1, <3>2
  <2>12. ASSUME NEW q \in Slots \ {s}, NEW t \in Made(q)'
         PROVE  /\ \E i \in 1 .. Cardinality(Made(q)') : request'[t] = script'[q][i]
                /\ request'[t].op = "read" =>
                      \A u \in Made(q)' : u < t => request'[u].op \in {"create", "read"}
                /\ client'[q].at # "idle" => t <= client'[q].tid
    <3>1. t \in Made(q) /\ request'[t] = request[t] /\ script'[q] = script[q]
      BY <2>1, <2>5, <2>8
    <3>2. \E i \in 1 .. Cardinality(Made(q)') : request'[t] = script'[q][i]
      <4>1. PICK i \in 1 .. Cardinality(Made(q)) : request[t] = script[q][i]
        BY <3>1 DEF Scripted
      <4>2. Made(q)' = Made(q)
        BY <2>5
      <4>3. i \in 1 .. Cardinality(Made(q)')
        BY <4>2
      <4> QED
        BY <3>1, <4>1, <4>3
    <3>3. request'[t].op = "read" =>
             \A u \in Made(q)' : u < t => request'[u].op \in {"create", "read"}
      <4>1. request[t].op = "read" =>
               \A u \in Made(q) : u < t => request[u].op \in {"create", "read"}
        BY <3>1 DEF Scripted
      <4>2. \A u \in Made(q)' : u \in Made(q) /\ request'[u] = request[u]
        BY <2>5, <2>8
      <4> QED
        BY <3>1, <4>1, <4>2
    <3>4. client'[q].at # "idle" => t <= client'[q].tid
      BY <2>4, <3>1 DEF Scripted
    <3> QED
      BY <3>2, <3>3, <3>4
  <2>13. script' \in [Slots -> Scripts]
    BY <1>a, <2>1
  <2> QED
    BY <2>4, <2>10, <2>11, <2>12, <2>13 DEF Scripted
<1> QED
  BY <1>a, <1>1, <1>2, Calling

-----------------------------------------------------------------------------
(* Buffers                                                                 *)

\* A closure of task t is queued, running or about to be posted by the caller.
Pending(t) == \/ posted[t] > 0
              \/ \E th \in Threads : thread[th].tid = t
              \/ \E s \in Slots : client[s].at = "post" /\ client[s].tid = t

\* The closure of a task that WatchTasks has not posted is the only one, and
\* the caller waits as long as it is queued or running.
Once ==
    \A t \in Tids \ retried :
       /\ posted[t] \in {0, 1}
       /\ \A th \in Threads :
             thread[th].tid = t =>
                posted[t] = 0 /\ \A other \in Threads \ {th} : thread[other].tid # t
       /\ \A s \in Slots :
             client[s].at = "post" /\ client[s].tid = t =>
                posted[t] = 0 /\ \A th \in Threads : thread[th].tid # t
       /\ SlotOf(t) \in Finishers /\ Pending(t) => Awaited(t)

\* The buffer of the caller of t holds what t has read, or a retry.
Filled(t) == buffer[SlotOf(t)] \in {t} \cup retried

\* A task which reads, for a caller that no early return answers.
Reads(t) == t \in Tids /\ closure[t].mode = "r" /\ SlotOf(t) \in Finishers

\* A thread that reads has filled the buffer when it has found the object.
Reading ==
    \A th \in Threads, t \in Tids :
       /\ thread[th].at \in {"running", "hung"}
       /\ thread[th].tid = t
       /\ closure[t].mode = "r"
       => /\ mover[th] = [at |-> mover[th].at, req |-> mover[th].req,
                          tier |-> mover[th].tier, r |-> mover[th].r]
          /\ mover[th].at \in {"read", "finish"}
          /\ mover[th].at = "finish" /\ mover[th].r = "ok" /\ Reads(t) /\ Awaited(t)
                => Filled(t)

\* It is still filled when the thread is about to answer,
Answering ==
    \A th \in Threads, t \in Tids :
       /\ thread[th].at \in {"finish", "report"}
       /\ thread[th].tid = t
       /\ thread[th].r = "ok"
       /\ Reads(t) /\ Awaited(t)
       => Filled(t)

\* and when the caller has the answer, until its next call.
Told ==
    \A s \in Slots : \A t \in Made(s) :
       err[s] = "ok" /\ Reads(t) /\ (\A u \in Made(s) : u <= t) => Filled(t)

Buffers ==
    /\ buffer = [s \in Slots |-> buffer[s]]
    /\ Once
    /\ status = "up" => /\ mover = [th \in Threads |-> mover[th]]
                       /\ Reading
                       /\ Answering
    /\ Told

\* Each step but a scan keeps Once: a closure that is posted or taken is moved on, and
\* the caller goes on waiting until a thread that had the closure has answered.
LEMMA OnceStep ==
  ASSUME IInv, Once, NotWatching, UNCHANGED retried
  PROVE  Once'
<1> USE DEF callVars, tableVars
<1>a. TypeOK /\ Fresh /\ Owns /\ Starting /\ Tabled /\ ReportIsAwaited
  BY DEF IInv
<1>b. NoTid \notin Tids
  BY DEF NoTid, Tids
<1>c. \A t \in Tids : closure[t].slot \in Slots
  BY <1>a DEF TypeOK, Closure
<1> USE <1>a DEF SlotOf, IdleThread, IdleClient
<1>1. ASSUME NEW s \in Slots, NEW m \in Modes, Invoke(s, m) PROVE Once'
  <2> DEFINE n == tid_counter
  <2>1. /\ n \in Tids
        /\ posted[n] = 0
        /\ \A th \in Threads : thread[th].tid # n
        /\ \A q \in Slots : client[q].tid # n
    BY <1>1, BoundsAssumption DEF Invoke, Fresh, Tids, TypeOK
  <2>2. /\ closure'[n].slot = s
        /\ \A t \in Tids \ {n} : closure'[t] = closure[t]
        /\ client'[s] = [at |-> "start", tid |-> n]
        /\ client[s].at = "idle"
        /\ \A q \in Slots \ {s} : client'[q] = client[q] /\ err'[q] = err[q]
        /\ UNCHANGED <<posted, thread>> /\ tid_counter' = n + 1
    BY <1>1, <2>1 DEF Invoke, TypeOK
  <2>3. s \in Finishers' => s \in Finishers
    BY <2>1, <2>2 DEF Finishers, TypeOK, Tids
  <2>4. Finishers' \ {s} = Finishers \ {s}
    BY <2>1, <2>2 DEF Finishers, TypeOK, Tids
  <2>5. \A t \in Tids \ {n} : Awaited(t) => Awaited(t)'
    BY <2>2, <1>c DEF Awaited
  <2>6. \A t \in Tids : Pending(t)' => Pending(t) /\ t # n
    BY <2>1, <2>2 DEF Pending
  <2> QED
    BY <2>1, <2>2, <2>3, <2>4, <2>5, <2>6, <1>c DEF Once
<1>2. ASSUME NEW s \in Slots, StartTask(s) PROVE Once'
  <2>0. PICK n \in Tids : n = client[s].tid
    BY <1>2, Typed DEF StartTask
  <2>1. /\ closure[n].slot = s
        /\ s \in Finishers => err[s] = "pending"
        /\ posted[n] = 0
        /\ \A th \in Threads : thread[th].tid # n
    BY <1>2, <2>0 DEF StartTask, Owns, Starting
  <2>2. /\ client'[s] = [at |-> "post", tid |-> n]
        /\ client[s].at = "start"
        /\ \A q \in Slots \ {s} : client'[q] = client[q]
        /\ UNCHANGED <<tid_counter, closure, posted, thread, err>>
    BY <1>2, <2>0 DEF StartTask, TypeOK, Client
  <2>3. Finishers' = Finishers
    BY <2>2, FinishersSame
  <2>4. \A t \in Tids : Awaited(t) => Awaited(t)'
    BY <2>2, <1>c DEF Awaited
  <2>5. s \in Finishers => Awaited(n)'
    BY <2>1, <2>2 DEF Awaited
  <2>6. \A t \in Tids \ {n} : Pending(t)' => Pending(t)
    BY <2>2 DEF Pending
  <2> QED
    BY <2>1, <2>2, <2>3, <2>4, <2>5, <2>6 DEF Once
<1>3. ASSUME NEW s \in Slots, Post(s) PROVE Once'
  <2>0. PICK n \in Tids : n = client[s].tid
    BY <1>3, Typed DEF Post
  <2>1. /\ client'[s] = [at |-> "wait", tid |-> n]
        /\ client[s].at = "post"
        /\ closure[n].slot = s
        /\ \A q \in Slots \ {s} : client'[q] = client[q]
        /\ UNCHANGED <<tid_counter, closure, thread, err>>
        /\ posted'[n] = posted[n] + 1
        /\ \A t \in Tids \ {n} : posted'[t] = posted[t]
    BY <1>3, <2>0 DEF Post, TypeOK, Client, Owns
  <2>2. Finishers' = Finishers
    BY <2>1, FinishersSame
  <2>3. \A t \in Tids : Awaited(t) => Awaited(t)'
    BY <2>0, <2>1, <1>c DEF Awaited
  <2>4. \A t \in Tids : Pending(t)' => Pending(t)
    BY <2>0, <2>1 DEF Pending
  <2>5. \A q \in Slots \ {s} : client[q].tid # n
    BY <2>0, <2>1, Typed, <1>b DEF Owns
  <2> QED
    BY <2>0, <2>1, <2>2, <2>3, <2>4, <2>5 DEF Once
<1>4. ASSUME NEW s \in Slots, Observe(s) PROVE Once'
  <2>1. /\ client'[s] = IdleClient
        /\ err[s] # "pending"
        /\ \A q \in Slots \ {s} : client'[q] = client[q]
        /\ UNCHANGED <<tid_counter, closure, posted, thread, err>>
    BY <1>4 DEF Observe, TypeOK
  <2>2. Finishers' = Finishers
    BY <2>1, FinishersSame
  <2>3. \A t \in Tids : Awaited(t) => Awaited(t)'
    BY <2>1, <1>c DEF Awaited
  <2>4. \A t \in Tids : Pending(t)' => Pending(t)
    BY <2>1 DEF Pending
  <2> QED
    BY <2>1, <2>2, <2>3, <2>4 DEF Once
<1>5. ASSUME NEW th \in Threads, NEW t \in Tids, Run(th, t) PROVE Once'
  <2>1. /\ thread'[th].tid = t
        /\ thread[th] = IdleThread
        /\ \A o \in Threads \ {th} : thread'[o] = thread[o]
        /\ posted[t] > 0 /\ posted'[t] = posted[t] - 1
        /\ \A u \in Tids \ {t} : posted'[u] = posted[u]
        /\ UNCHANGED <<tid_counter, closure, client, err>>
    BY <1>5, Typed DEF Run, TypeOK
  <2>2. Finishers' = Finishers
    BY <2>1, FinishersSame
  <2>3. \A u \in Tids : Awaited(u) => Awaited(u)'
    BY <2>1 DEF Awaited
  <2>4. \A u \in Tids : Pending(u)' => Pending(u)
    BY <2>1 DEF Pending
  <2>5. t \notin retried => posted[t] = 1 /\ posted'[t] = 0
    BY <2>1 DEF Once
  <2> QED
    BY <2>1, <2>2, <2>3, <2>4, <2>5, <1>b DEF Once
<1>6. ASSUME NEW th \in Threads,
             \/ \E r \in Results : Complete(th, r)
             \/ Hang(th) \/ FinishInner(th) \/ FinishTask(th)
      PROVE  Once'
  <2>1. /\ thread'[th].tid = thread[th].tid \/ thread'[th] = IdleThread
        /\ \A o \in Threads \ {th} : thread'[o] = thread[o]
        /\ UNCHANGED <<tid_counter, closure, posted, client, err>>
    BY <1>6, Typed DEF Complete, Hang, FinishInner, FinishTask, Erase, TypeOK, Thread
  <2>2. Finishers' = Finishers
    BY <2>1, FinishersSame
  <2>3. \A u \in Tids : Awaited(u) => Awaited(u)'
    BY <2>1 DEF Awaited
  <2>4. \A u \in Tids : Pending(u)' => Pending(u)
    BY <2>1, <1>b DEF Pending
  <2> QED
    BY <2>1, <2>2, <2>3, <2>4, <1>b DEF Once
<1>7. ASSUME NEW th \in Threads, Report(th) PROVE Once'
  <2>a. PICK n \in Tids : n = thread[th].tid
    BY <1>7, Typed DEF Report
  <2>b. PICK s \in Slots : s = closure[n].slot
    BY <1>c
  <2>1. /\ s \in Finishers => client[s].tid = n
        /\ thread'[th] = IdleThread
        /\ \A o \in Threads \ {th} : thread'[o] = thread[o]
        /\ \A q \in Slots \ {s} : err'[q] = err[q]
        /\ UNCHANGED <<tid_counter, closure, posted, client>>
    BY <1>7, <2>a, <2>b DEF Report, ReportIsAwaited, Awaited, TypeOK
  <2>2. Finishers' = Finishers
    BY <2>1, FinishersSame
  <2>3. \A u \in Tids \ {n} :
           closure[u].slot \in Finishers /\ Awaited(u) => Awaited(u)'
    BY <2>1, <2>b, <1>c DEF Awaited
  <2>4. \A u \in Tids : Pending(u)' => Pending(u)
    BY <2>1, <1>b DEF Pending
  <2>5. ASSUME n \notin retried PROVE ~ Pending(n)'
    <3>1. /\ posted[n] = 0
          /\ \A other \in Threads \ {th} : thread[other].tid # n
          /\ \A q \in Slots : ~ (client[q].at = "post" /\ client[q].tid = n)
      BY <2>5, <2>a DEF Once
    <3> QED
      BY <2>1, <3>1, <1>b DEF Pending
  <2> QED
    BY <2>1, <2>2, <2>3, <2>4, <2>5, <2>a, <1>b DEF Once
<1>8. ASSUME NEW th \in Threads, ReturnEarly(th) PROVE Once'
  <2> DEFINE s == closure[thread[th].tid].slot
  <2>1. /\ thread'[th] = IdleThread
        /\ \A o \in Threads \ {th} : thread'[o] = thread[o]
        /\ \A q \in Slots \ {s} : err'[q] = err[q]
        /\ UNCHANGED <<tid_counter, closure, posted, client>>
    BY <1>8 DEF ReturnEarly, TypeOK
  <2>2. s \notin Finishers
    <3>1. thread[th].tid \in Tids /\ closure[thread[th].tid].mode \in EarlyModes
      BY <1>8, Typed DEF ReturnEarly, ModeOf
    <3>2. thread[th].tid < tid_counter
      BY <3>1 DEF Fresh, Tids, TypeOK
    <3> QED
      BY <3>1, <3>2 DEF Finishers
  <2>3. Finishers' = Finishers /\ Finishers \subseteq Slots
    BY <2>1, FinishersSame DEF Finishers
  <2>4. \A u \in Tids : closure[u].slot \in Finishers /\ Awaited(u) => Awaited(u)'
    BY <2>1, <2>2, <2>3 DEF Awaited
  <2>5. \A u \in Tids : Pending(u)' => Pending(u)
    BY <2>1, <1>b DEF Pending
  <2> QED
    BY <2>1, <2>3, <2>4, <2>5, <1>b DEF Once
<1>9. ASSUME UNCHANGED <<tid_counter, closure, posted, thread, client, err>> PROVE Once'
  <2>1. Finishers' = Finishers
    BY <1>9, FinishersSame
  <2> QED
    BY <1>9, <2>1 DEF Once, Pending, Awaited
<1> QED
  BY <1>1, <1>2, <1>3, <1>4, <1>5, <1>6, <1>7, <1>8, <1>9
  DEF NotWatching, Caller, Work, Expire, vars

\* WatchTasks posts only what it enters among the retried.
LEMMA OnceWatching ==
  ASSUME IInv, Once, WatchTasks, retried' = retried \cup expired
  PROVE  Once'
<1>1. /\ UNCHANGED <<tid_counter, closure, thread, client, err>>
      /\ \A t \in Tids \ expired : posted'[t] = posted[t]
  BY DEF WatchTasks, callVars, IInv, TypeOK
<1>2. Finishers' = Finishers
  BY <1>1, FinishersSame
<1>3. \A t \in Tids \ expired : /\ Pending(t)' = Pending(t)
                               /\ Awaited(t)' = Awaited(t)
                               /\ SlotOf(t)' = SlotOf(t)
  BY <1>1 DEF Pending, Awaited, SlotOf
<1>4. \A t \in Tids \ retried' : t \in Tids \ expired /\ t \in Tids \ retried
  OBVIOUS
<1> QED
  BY <1>1, <1>2, <1>3, <1>4 DEF Once

\* Only a call changes what is known of the tasks.
LEMMA TasksStay ==
  ASSUME [Next]_vars
  PROVE  \/ UNCHANGED <<tid_counter, closure>>
         \/ \E s \in Slots, m \in Modes : Invoke(s, m)
BY DEF Next, Caller, Work, StartTask, Post, Observe, Run, Complete, ReturnEarly, FinishInner,
       FinishTask, Report, Hang, Expire, WatchTasks, callVars, vars

\* A task that reads has read before, unless it was called just now.
LEMMA StillReads ==
  ASSUME IInv, [Next]_vars, NEW t \in Tids, t < tid_counter, Reads(t)'
  PROVE  Reads(t) /\ SlotOf(t)' = SlotOf(t)
<1>1. CASE UNCHANGED <<tid_counter, closure>>
  BY <1>1, FinishersSame DEF Reads, SlotOf
<1>2. ASSUME NEW s \in Slots, NEW m \in Modes, Invoke(s, m)
      PROVE  Reads(t) /\ SlotOf(t)' = SlotOf(t)
  <2>1. /\ tid_counter' = tid_counter + 1
        /\ \A u \in Tids : u < tid_counter => closure'[u] = closure[u] /\ u < tid_counter'
    BY <1>2 DEF Invoke, IInv, TypeOK, Tids
  <2>2. Finishers' \subseteq Finishers
    BY <2>1 DEF Finishers, SlotOf
  <2> QED
    BY <2>1, <2>2 DEF Reads, SlotOf
<1> QED
  BY <1>1, <1>2, TasksStay

\* A task some thread works on has been called.
LEMMA BusyCalled ==
  ASSUME IInv, [Next]_vars, NEW th \in Threads, NEW t \in Tids, thread'[th].tid = t
  PROVE  t < tid_counter
<1>1. TypeOK' /\ TypeOK /\ Fresh
  BY IInvStep DEF IInv
<1>b. t # NoTid
  BY DEF NoTid, Tids
<1>2. (\E o \in Threads : thread[o].tid = t) \/ posted[t] > 0
  <2>1. ASSUME NEW o \in Threads, NEW u \in Tids, Run(o, u)
        PROVE  (\E x \in Threads : thread[x].tid = t) \/ posted[t] > 0
    <3>1. th = o \/ thread'[th] = thread[th]
      BY <1>1, <2>1 DEF Run, TypeOK
    <3>2. th = o => t = u
      BY <1>1, <2>1 DEF Run, TypeOK
    <3> QED
      BY <2>1, <3>1, <3>2 DEF Run
  <2>2. ASSUME NEW o \in Threads, Work(o) \/ Hang(o)
        PROVE  thread'[th].tid = thread[th].tid \/ thread'[th] = IdleThread
    <3>1. th = o \/ thread'[th] = thread[th]
      BY <1>1, <2>2 DEF Work, Complete, ReturnEarly, FinishInner, FinishTask, Report, Hang,
                        TypeOK
    <3>2. thread'[o].tid = thread[o].tid \/ thread'[o] = IdleThread
      <4>1. CASE \/ \E r \in Results : Complete(o, r)
                 \/ Hang(o) \/ FinishInner(o) \/ FinishTask(o)
        BY <1>1, <4>1, Typed DEF Complete, Hang, FinishInner, FinishTask, Erase, TypeOK,
                                 Thread, IdleThread
      <4>2. CASE ReturnEarly(o) \/ Report(o)
        BY <1>1, <4>2 DEF ReturnEarly, Report, TypeOK
      <4> QED
        BY <2>2, <4>1, <4>2 DEF Work
    <3> QED
      BY <3>1, <3>2
  <2>3. CASE UNCHANGED thread
    BY <2>3
  <2> QED
    BY <1>b, <2>1, <2>2, <2>3
    DEF Next, Caller, Invoke, StartTask, Post, Observe, Expire, WatchTasks, vars, IdleThread
<1>3. ~ (t >= tid_counter)
  BY <1>1, <1>2 DEF Fresh
<1> QED
  BY <1>1, <1>3 DEF TypeOK, Tids

\* And while a thread works on it, its caller does not begin to wait.
LEMMA StillAwaited ==
  ASSUME IInv, [Next]_vars, NEW th \in Threads, NEW t \in Tids, thread'[th].tid = t,
         Awaited(t)'
  PROVE  Awaited(t)
<1> USE DEF callVars, tableVars
<1>a. TypeOK /\ Starting
  BY DEF IInv
<1>1. t < tid_counter
  BY BusyCalled
<1>2. ASSUME Awaited(t)' PROVE Awaited(t)
  <2>1. ASSUME NEW s \in Slots, NEW m \in Modes, Invoke(s, m) PROVE Awaited(t)
    <3>1. /\ closure'[t] = closure[t] /\ closure[t].slot \in Slots
          /\ \A q \in Slots \ {s} : client'[q] = client[q] /\ err'[q] = err[q]
          /\ client'[s].at = "start"
      BY <1>a, <1>1, <2>1 DEF Invoke, TypeOK, Closure
    <3> QED
      BY <1>2, <3>1 DEF Awaited, SlotOf
  <2>2. ASSUME NEW s \in Slots, StartTask(s) PROVE Awaited(t)
    <3>1. client[s].tid # t
      BY <1>1, <1>a, <2>2 DEF StartTask, Starting
    <3>2. /\ UNCHANGED <<closure, err>> /\ closure[t].slot \in Slots
          /\ \A q \in Slots \ {s} : client'[q] = client[q]
          /\ client'[s].tid = client[s].tid
      BY <1>a, <2>2, Typed DEF StartTask, TypeOK, Closure, Client, IdleClient
    <3> QED
      BY <1>2, <3>1, <3>2 DEF Awaited, SlotOf
  <2>3. ASSUME NEW s \in Slots, Post(s) \/ Observe(s) PROVE Awaited(t)
    <3>1. /\ UNCHANGED <<closure, err>> /\ closure[t].slot \in Slots
          /\ \A q \in Slots \ {s} : client'[q] = client[q]
      BY <1>a, <2>3 DEF Post, Observe, TypeOK, Closure
    <3>2. \/ client'[s].at = "idle"
          \/ client[s].at = "post" /\ client'[s].tid = client[s].tid
      BY <1>a, <2>3, Typed DEF Post, Observe, TypeOK, Client, IdleClient
    <3> QED
      BY <1>2, <3>1, <3>2 DEF Awaited, SlotOf
  <2>4. ASSUME NEW o \in Threads, Report(o) \/ ReturnEarly(o) PROVE Awaited(t)
    <3>1. UNCHANGED <<closure, client>> /\ closure[t].slot \in Slots
      BY <1>a, <2>4 DEF Report, ReturnEarly, TypeOK, Closure
    <3>2. \A q \in Slots : err'[q] = "pending" => err[q] = "pending"
      BY <1>a, <2>4, Typed DEF Report, ReturnEarly, TypeOK, Results, IdleThread
    <3> QED
      BY <1>2, <3>1, <3>2 DEF Awaited, SlotOf
  <2>5. CASE UNCHANGED <<closure, client, err>>
    BY <1>2, <2>5 DEF Awaited, SlotOf
  <2> QED
    <3>1. CASE \E s \in Slots : Caller(s)
      BY <2>1, <2>2, <2>3, <3>1 DEF Caller
    <3>2. CASE \E o \in Threads : Work(o) \/ Hang(o)
      BY <2>4, <2>5, <3>2 DEF Work, Hang, Complete, FinishInner, FinishTask
    <3>3. CASE \/ \E o \in Threads, u \in Tids : Run(o, u)
               \/ \E u \in Tids : Expire(u)
               \/ WatchTasks
               \/ UNCHANGED vars
      BY <2>5, <3>3 DEF Run, Expire, WatchTasks, vars
    <3> QED
      BY <3>1, <3>2, <3>3 DEF Next
<1> QED
  BY <1>1, <1>2

\* What a step of the library does to one thread and the buffers.
Goes(th) ==
    \/ UNCHANGED <<thread[th], mover[th], buffer>>
    \/ (\E t \in Tids : LibRun(th, t)) /\ UNCHANGED buffer
    \/ (Finish(th) \/ Answer(th) \/ LibHang(th)) /\ UNCHANGED buffer
    \/ thread'[th] = IdleThread
    \/ Serve(th)
    \/ \E o \in Threads \ {th} : Serve(o) /\ UNCHANGED <<thread[th], mover[th]>>

\* Every mover goes on as the steps above say.
LEMMA EachGoes ==
  ASSUME IInv, script \in [Slots -> Scripts],
         mover = [x \in Threads |-> mover[x]], [LibNext]_libVars,
         NEW th \in Threads, status' = "up"
  PROVE  Goes(th)
<1>a. TypeOK
  BY DEF IInv
<1>1. ASSUME UNCHANGED <<thread, mover, buffer>> PROVE Goes(th)
  BY <1>1 DEF Goes
<1>3. CASE Construct \/ UNCHANGED libVars
  BY <1>3, <1>1 DEF Construct, libVars, vars, poolVars, bufferVars
<1>4. ASSUME NEW s \in Slots, LibInvoke(s) PROVE Goes(th)
  BY <1>4, <1>1, InvokeStep DEF Invoke
<1>5. ASSUME NEW s \in Slots, Call(s) PROVE Goes(th)
  BY <1>5, <1>1, CallStep DEF StartTask, Post, Observe, Elsewhere
<1>6. ASSUME NEW o \in Threads, NEW t \in Tids, LibRun(o, t) PROVE Goes(th)
  <2>1. /\ UNCHANGED buffer
        /\ \A x \in Threads \ {o} : thread'[x] = thread[x]
        /\ \A x \in Threads \ {o} : mover'[x] = mover[x]
    BY <1>a, <1>6, RunStep DEF Run, TypeOK
  <2>2. CASE th = o
    BY <1>6, <2>1, <2>2 DEF Goes
  <2>3. CASE th # o
    BY <2>1, <2>3 DEF Goes
  <2> QED
    BY <2>2, <2>3
<1>7. ASSUME NEW o \in Threads, Serve(o) PROVE Goes(th)
  <2>1. UNCHANGED thread /\ \E m : mover' = [mover EXCEPT ![o] = m]
    BY <1>7, ServeStep
  <2>2. CASE th = o
    BY <1>7, <2>2 DEF Goes
  <2>3. CASE th # o
    <3>1. UNCHANGED <<thread[th], mover[th]>>
      BY <2>1, <2>3
    <3> QED
      BY <1>7, <2>3, <3>1 DEF Goes
  <2> QED
    BY <2>2, <2>3
<1>8. ASSUME NEW o \in Threads, Finish(o) PROVE Goes(th)
  <2>1. /\ UNCHANGED buffer
        /\ \A x \in Threads \ {o} : thread'[x] = thread[x]
        /\ \A x \in Threads \ {o} : mover'[x] = mover[x]
    BY <1>a, <1>8, FinishStep DEF Complete, TypeOK
  <2>2. CASE th = o
    BY <1>8, <2>1, <2>2 DEF Goes
  <2>3. CASE th # o
    BY <2>1, <2>3 DEF Goes
  <2> QED
    BY <2>2, <2>3
<1>9. ASSUME NEW o \in Threads, LibReturnEarly(o) PROVE Goes(th)
  <2>1. /\ UNCHANGED buffer
        /\ thread'[o] = IdleThread
        /\ \A x \in Threads \ {o} : thread'[x] = thread[x]
        /\ \A x \in Threads \ {o} : mover'[x] = mover[x]
    BY <1>a, <1>9, ReturnEarlyStep DEF ReturnEarly, TypeOK
  <2>2. CASE th = o
    BY <2>1, <2>2 DEF Goes
  <2>3. CASE th # o
    BY <2>1, <2>3 DEF Goes
  <2> QED
    BY <2>2, <2>3
<1>10. ASSUME NEW o \in Threads, Answer(o) \/ LibHang(o) PROVE Goes(th)
  <2>1. UNCHANGED <<mover, buffer>> /\ \A x \in Threads \ {o} : thread'[x] = thread[x]
    BY <1>a, <1>10, AnswerStep, HangStep DEF FinishTask, Report, Hang, Elsewhere, TypeOK
  <2>2. CASE th = o
    BY <1>10, <2>1, <2>2 DEF Goes
  <2>3. CASE th # o
    BY <2>1, <2>3 DEF Goes
  <2> QED
    BY <2>2, <2>3
<1>11. CASE LibWatchTasks \/ \E t \in Tids : LibExpire(t)
  BY <1>1, <1>11, WatchTasksStep, ExpireStep DEF WatchTasks, Expire, Elsewhere
<1> QED
  BY <1>3, <1>4, <1>5, <1>6, <1>7, <1>8, <1>9, <1>10, <1>11
  DEF LibNext, LibWork, Tids

\* Who fills a buffer is a retry, or works for the call its caller is in.
LEMMA FillsOwn ==
  ASSUME IInv, Once, NEW th \in Threads, NEW u \in Tids, thread[th].tid = u,
         SlotOf(u) \in Finishers
  PROVE  u \in retried \/ Awaited(u)
BY DEF Once, Pending

\* So what a caller has in its buffer stays there, unless a call of it other
\* than t is under way.
LEMMA FilledStays ==
  ASSUME IInv, script \in [Slots -> Scripts], Once,
         buffer = [s \in Slots |-> buffer[s]], [LibNext]_libVars,
         NEW t \in Tids, SlotOf(t) \in Finishers, SlotOf(t)' = SlotOf(t), Filled(t),
         \A u \in Tids : SlotOf(u) = SlotOf(t) /\ Awaited(u) => u = t
  PROVE  Filled(t)'
<1>1. retried \subseteq retried'
  BY WatchTasksStep
  DEF LibNext, Construct, LibInvoke, Call, LibRun, LibWork, Serve, Finish, LibReturnEarly,
      Answer, LibHang, LibExpire, bufferVars, libVars
<1>2. UNCHANGED buffer \/ \E th \in Threads : Serve(th)
  BY WatchTasksStep
  DEF LibNext, Construct, LibInvoke, Call, LibRun, LibWork, Finish, LibReturnEarly, Answer,
      LibHang, LibExpire, bufferVars, libVars
<1>3. CASE UNCHANGED buffer
  BY <1>1, <1>3 DEF Filled
<1>4. ASSUME NEW th \in Threads, Serve(th), buffer' # buffer PROVE Filled(t)'
  <2>1. PICK u \in Tids : u = thread[th].tid
    <3>1. thread[th].at = "running"
      BY <1>4, ServeStep
    <3> QED
      BY <3>1, Typed DEF IInv, IdleThread
  <2>2. PICK s \in Slots : s = SlotOf(u)
    BY DEF IInv, TypeOK, Closure, SlotOf
  <2>3. buffer' = [buffer EXCEPT ![s] = u]
    BY <1>4, <2>1, <2>2, ServeStep DEF SlotOf
  <2>4. CASE s # SlotOf(t)
    <3>1. SlotOf(t) \in Slots
      BY DEF IInv, TypeOK, Closure, SlotOf
    <3>2. buffer'[SlotOf(t)] = buffer[SlotOf(t)]
      BY <2>3, <2>4, <3>1
    <3> QED
      BY <1>1, <3>2 DEF Filled
  <2>5. CASE s = SlotOf(t)
    <3>1. u \in retried \/ u = t
      BY <2>1, <2>2, <2>5, FillsOwn
    <3>2. buffer'[s] = u
      BY <2>3
    <3> QED
      BY <1>1, <2>5, <3>1, <3>2 DEF Filled
  <2> QED
    BY <2>4, <2>5
<1> QED
  BY <1>2, <1>3, <1>4

\* The calls under way in the slot of an awaited task are that task.
LEMMA AwaitedAlone ==
  ASSUME NEW t \in Tids, Awaited(t), NEW u \in Tids, SlotOf(u) = SlotOf(t), Awaited(u)
  PROVE  u = t
<1>1. client[SlotOf(t)].tid = t
  BY DEF Awaited
<1>2. client[SlotOf(u)].tid = u
  BY DEF Awaited
<1> QED
  BY <1>1, <1>2

\* The invariant: what the steps below start from.
LibraryInv == /\ ReadsFirst
              /\ IInv
              /\ Scripted
              /\ Buffers

\* A thread at work on an awaited read keeps the buffer filled.
LEMMA FilledForAwaited ==
  ASSUME LibraryInv, [LibNext]_libVars, NEW th \in Threads, NEW t \in Tids,
         thread'[th].tid = t, Reads(t)', Awaited(t)'
  PROVE  /\ Reads(t) /\ Awaited(t)
         /\ Filled(t) => Filled(t)'
<1>0. [Next]_vars
  BY StepIsTasks DEF LibraryInv, Scripted
<1>1. t < tid_counter
  BY <1>0, BusyCalled DEF LibraryInv
<1>2. Reads(t) /\ SlotOf(t)' = SlotOf(t)
  BY <1>0, <1>1, StillReads DEF LibraryInv
<1>3. Awaited(t)
  BY <1>0, StillAwaited DEF LibraryInv
<1>4. \A u \in Tids : SlotOf(u) = SlotOf(t) /\ Awaited(u) => u = t
  BY <1>3, AwaitedAlone
<1>5. Filled(t) => Filled(t)'
  BY <1>2, <1>4, FilledStays DEF LibraryInv, Scripted, Buffers, Reads
<1> QED
  BY <1>2, <1>3, <1>5

\* While the process lives, every thread has its place in an operation.
LEMMA MoversStay ==
  ASSUME LibraryInv, [LibNext]_libVars, status = "up", status' = "up"
  PROVE  mover' = [th \in Threads |-> mover'[th]]
<1>a. /\ script \in [Slots -> Scripts]
      /\ mover = [th \in Threads |-> mover[th]]
  BY DEF LibraryInv, Scripted, Buffers
<1>1. CASE UNCHANGED mover
  BY <1>1, <1>a
<1>2. ASSUME NEW th \in Threads, \E m : mover' = [mover EXCEPT ![th] = m]
      PROVE  mover' = [x \in Threads |-> mover'[x]]
  BY <1>2, <1>a
<1>3. ASSUME NEW th \in Threads, NEW t, LibRun(th, t)
      PROVE  mover' = [x \in Threads |-> mover'[x]]
  BY <1>2, <1>3, RunStep
<1>4. ASSUME NEW th \in Threads, Serve(th) \/ Finish(th) \/ LibReturnEarly(th)
      PROVE  mover' = [x \in Threads |-> mover'[x]]
  BY <1>2, <1>4, <1>a, ServeStep, FinishStep, ReturnEarlyStep
<1> QED
  BY <1>1, <1>3, <1>4
  DEF LibNext, Construct, LibInvoke, Call, LibWork, Answer, LibHang, LibExpire,
      LibWatchTasks, poolVars, libVars

\* A read starts at "read", ends at "finish", and fills the buffer between.
LEMMA ReadingStep ==
  ASSUME LibraryInv, [LibNext]_libVars, status = "up", status' = "up"
  PROVE  Reading'
<1>a. /\ IInv /\ TypeOK /\ script \in [Slots -> Scripts]
      /\ mover = [th \in Threads |-> mover[th]] /\ Reading /\ Once
      /\ buffer = [s \in Slots |-> buffer[s]]
  BY DEF LibraryInv, Scripted, Buffers, IInv
<1>b. [Next]_vars
  BY <1>a, StepIsTasks
<1> SUFFICES ASSUME NEW th \in Threads, NEW t \in Tids,
                    thread'[th].at \in {"running", "hung"},
                    thread'[th].tid = t,
                    closure'[t].mode = "r"
             PROVE  /\ mover'[th] = [at |-> mover'[th].at, req |-> mover'[th].req,
                                     tier |-> mover'[th].tier, r |-> mover'[th].r]
                    /\ mover'[th].at \in {"read", "finish"}
                    /\ /\ mover'[th].at = "finish" /\ mover'[th].r = "ok"
                       /\ Reads(t)' /\ Awaited(t)'
                       => Filled(t)'
  BY DEF Reading
<1>1. t < tid_counter
  BY <1>a, <1>b, BusyCalled
<1>2. closure[t].mode = "r"
  <2>1. UNCHANGED closure \/ closure'[t] = closure[t]
    BY <1>1, <1>a, <1>b, TasksStay DEF Invoke, TypeOK
  <2> QED
    BY <2>1
<1>3. ASSUME thread[th].at \in {"running", "hung"}, thread[th].tid = t, UNCHANGED mover[th]
      PROVE  /\ mover'[th] = [at |-> mover'[th].at, req |-> mover'[th].req,
                              tier |-> mover'[th].tier, r |-> mover'[th].r]
             /\ mover'[th].at \in {"read", "finish"}
             /\ /\ mover'[th].at = "finish" /\ mover'[th].r = "ok"
                /\ Reads(t)' /\ Awaited(t)'
                => Filled(t)'
  <2>1. /\ mover[th] = [at |-> mover[th].at, req |-> mover[th].req,
                        tier |-> mover[th].tier, r |-> mover[th].r]
        /\ mover[th].at \in {"read", "finish"}
        /\ mover[th].at = "finish" /\ mover[th].r = "ok" /\ Reads(t) /\ Awaited(t) => Filled(t)
    BY <1>2, <1>3, <1>a DEF Reading
  <2> QED
    BY <1>3, <2>1, FilledForAwaited
<1>4. CASE UNCHANGED <<thread[th], mover[th]>>
  BY <1>3, <1>4
<1>5. ASSUME NEW u \in Tids, LibRun(th, u)
      PROVE  /\ mover'[th] = [at |-> "read", req |-> mover'[th].req,
                              tier |-> mover'[th].tier, r |-> mover'[th].r]
  <2>1. /\ thread'[th].tid = u
        /\ mover'[th] = [at |-> OM!FirstStep(request[u]), req |-> request[u],
                         tier |-> "FAST", r |-> "ok"]
    BY <1>5, <1>a, RunStep DEF Run, TypeOK
  <2>2. request[t] \in Requests /\ ModeFor(request[t].op) = "r"
    BY <1>1, <1>2 DEF LibraryInv, Scripted
  <2>3. request[t].op = "read"
    BY <2>2, <1>a, ModesOfOps
  <2>4. OM!FirstStep(request[t]) = "read"
    BY <2>3 DEF OM!FirstStep
  <2> QED
    BY <2>1, <2>4
<1>6. CASE Serve(th)
  <2>1. UNCHANGED thread /\ thread[th].at = "running" /\ mover[th].at # "finish"
    BY <1>6, ServeStep
  <2>2. /\ mover[th] = [at |-> mover[th].at, req |-> mover[th].req,
                        tier |-> mover[th].tier, r |-> mover[th].r]
        /\ mover[th].at = "read"
    BY <1>2, <1>a, <2>1 DEF Reading
  <2>3. PICK r : mover' = [mover EXCEPT ![th] = [@ EXCEPT !.at = "finish", !.r = r]]
    BY <1>6, <2>2, ServeStep
  <2>4. mover'[th] = [at |-> "finish", req |-> mover[th].req, tier |-> mover[th].tier, r |-> r]
    BY <1>a, <2>2, <2>3
  <2>5. ASSUME r = "ok", Reads(t)' PROVE Filled(t)'
    <3>1. buffer' = [buffer EXCEPT ![SlotOf(t)] = t]
      <4>1. thread[th].tid = t
        BY <2>1
      <4>2. mover[th].at = "read" /\ mover'[th].r = "ok"
        BY <2>2, <2>4, <2>5
      <4>3. buffer' = [buffer EXCEPT ![SlotOf(thread[th].tid)] = thread[th].tid]
        BY <1>6, <4>2, ServeStep
      <4> QED
        BY <4>1, <4>3 DEF SlotOf
    <3>2. SlotOf(t) \in Slots /\ SlotOf(t)' = SlotOf(t)
      BY <1>1, <1>a, <1>b, <2>5, StillReads DEF TypeOK, Closure, SlotOf
    <3>3. buffer'[SlotOf(t)] = t
      BY <1>a, <3>1, <3>2
    <3> QED
      BY <3>2, <3>3 DEF Filled
  <2> QED
    BY <2>4, <2>5
<1>7. CASE Finish(th) \/ Answer(th)
  <2>1. thread'[th].at \notin {"running", "hung"}
    <3>1. CASE Finish(th)
      BY <3>1, <1>a, FinishStep DEF Complete, TypeOK
    <3>2. CASE FinishTask(th)
      <4>1. thread[th] \in Thread /\ thread[th] # IdleThread
        BY <3>2, <1>a DEF FinishTask, TypeOK, IdleThread
      <4> QED
        BY <3>2, <4>1, <1>a DEF FinishTask, TypeOK, Thread, IdleThread
    <3>3. CASE Report(th)
      BY <3>3, <1>a DEF Report, TypeOK, IdleThread
    <3> QED
      BY <1>7, <3>1, <3>2, <3>3, AnswerStep
  <2> QED
    BY <2>1
<1>8. CASE LibHang(th)
  <2>1. /\ thread[th].at = "running" /\ thread'[th] = [thread[th] EXCEPT !.at = "hung"]
        /\ UNCHANGED mover
    BY <1>8, <1>a, HangStep DEF Hang, Elsewhere, TypeOK
  <2>2. thread[th].tid = t
    BY <1>a, <2>1, Typed DEF IdleThread
  <2> QED
    BY <1>3, <2>1, <2>2
<1>9. thread'[th] # IdleThread
  BY DEF IdleThread
<1> QED
  BY <1>4, <1>5, <1>6, <1>7, <1>8, <1>9, <1>a, EachGoes DEF Goes

\* Who ends a read with "ok" has filled the buffer.
LEMMA AnsweringStep ==
  ASSUME LibraryInv, [LibNext]_libVars, status = "up", status' = "up"
  PROVE  Answering'
<1>a. /\ IInv /\ TypeOK /\ script \in [Slots -> Scripts]
      /\ mover = [th \in Threads |-> mover[th]] /\ Reading /\ Answering
  BY DEF LibraryInv, Scripted, Buffers, IInv
<1> SUFFICES ASSUME NEW th \in Threads, NEW t \in Tids,
                    thread'[th].at \in {"finish", "report"},
                    thread'[th].tid = t, thread'[th].r = "ok",
                    Reads(t)', Awaited(t)'
             PROVE  Filled(t)'
  BY DEF Answering
<1>1. Reads(t) /\ Awaited(t) /\ (Filled(t) => Filled(t)')
  BY FilledForAwaited
<1>2. ASSUME thread[th].at \in {"finish", "report"}, thread[th].tid = t, thread[th].r = "ok"
      PROVE  Filled(t)'
  BY <1>1, <1>2, <1>a DEF Answering
<1>3. CASE Finish(th)
  <2>1. /\ thread[th].at = "running" /\ thread[th].tid = t
        /\ thread'[th].r = IF mover[th].r = "ok" THEN "ok" ELSE "fail"
        /\ mover[th].at = "finish"
    BY <1>3, <1>a, FinishStep DEF Complete, TypeOK
  <2> QED
    BY <1>1, <1>a, <2>1 DEF Reading, Reads
<1>4. CASE Answer(th)
  <2>1. CASE FinishTask(th)
    <3>1. /\ thread[th].at = "finish"
          /\ thread'[th] = [thread[th] EXCEPT !.at = "report"] \/ thread'[th] = IdleThread
      BY <2>1, <1>a DEF FinishTask, TypeOK
    <3>2. thread[th].tid = t /\ thread[th].r = "ok"
      BY <3>1, <1>a DEF TypeOK, Thread, IdleThread
    <3> QED
      BY <1>2, <3>1, <3>2
  <2>2. CASE Report(th)
    BY <2>2, <1>a DEF Report, TypeOK, IdleThread
  <2> QED
    BY <1>4, <2>1, <2>2, AnswerStep
<1>5. CASE LibHang(th) \/ (\E u \in Tids : LibRun(th, u)) \/ thread'[th] = IdleThread
  <2>1. CASE LibHang(th)
    BY <2>1, <1>a, HangStep DEF Hang, TypeOK, Thread, IdleThread
  <2>2. ASSUME NEW u \in Tids, LibRun(th, u) PROVE thread'[th].at = "running"
    BY <2>2, <1>a, RunStep DEF Run, TypeOK
  <2> QED
    BY <1>5, <2>1, <2>2 DEF IdleThread
<1>6. CASE Serve(th)
  BY <1>2, <1>6, ServeStep
<1>7. CASE UNCHANGED <<thread[th], mover[th]>>
  BY <1>2, <1>7
<1> QED
  BY <1>3, <1>4, <1>5, <1>6, <1>7, <1>a, EachGoes DEF Goes

\* A caller that is told "ok" has what its last call has read.
LEMMA ToldStep ==
  ASSUME LibraryInv, [LibNext]_libVars, status = "up"
  PROVE  Told'
<1>a. /\ IInv /\ TypeOK /\ script \in [Slots -> Scripts]
      /\ buffer = [s \in Slots |-> buffer[s]] /\ Once /\ Answering /\ Told
      /\ ReportIsAwaited /\ Scripted
  BY DEF LibraryInv, Scripted, Buffers, IInv
<1>b. [Next]_vars
  BY <1>a, StepIsTasks
<1> SUFFICES ASSUME NEW s \in Slots, NEW t \in Made(s)', err'[s] = "ok", Reads(t)',
                    \A u \in Made(s)' : u <= t
             PROVE  Filled(t)'
  BY DEF Told
<1>1. t \in Tids /\ SlotOf(t)' = s /\ t < tid_counter'
  BY DEF Made
<1>2. t < tid_counter /\ \A u \in Made(s) : u <= t
  <2>1. ASSUME NEW q \in Slots, NEW m \in Modes, Invoke(q, m)
        PROVE  t < tid_counter /\ \A u \in Made(s) : u \in Made(s)'
    <3>1. /\ tid_counter \in Tids /\ tid_counter' = tid_counter + 1
          /\ closure'[tid_counter].slot = q
          /\ \A u \in Tids \ {tid_counter} : closure'[u] = closure[u]
          /\ err'[q] = "pending"
      BY <1>a, <2>1, BoundsAssumption DEF Invoke, TypeOK, Tids
    <3>2. t # tid_counter
      BY <1>1, <3>1 DEF SlotOf
    <3>3. \A u \in Made(s) : u \in Made(s)'
      BY <3>1 DEF Made, SlotOf, Tids
    <3> QED
      BY <1>1, <3>1, <3>2, <3>3 DEF Tids
  <2>2. CASE UNCHANGED <<tid_counter, closure>>
    BY <1>1, <2>2 DEF Made, SlotOf
  <2> QED
    BY <1>b, <2>1, <2>2, TasksStay
<1>3. Reads(t) /\ SlotOf(t) = s /\ t \in Made(s)
  BY <1>a, <1>b, <1>1, <1>2, StillReads DEF Made
<1>4. CASE err[s] = "ok"
  <2>1. Filled(t)
    BY <1>2, <1>3, <1>4, <1>a DEF Told
  <2>2. \A u \in Tids : SlotOf(u) = SlotOf(t) => ~ Awaited(u)
    BY <1>3, <1>4 DEF Awaited
  <2> QED
    BY <1>1, <1>3, <1>a, <2>1, <2>2, FilledStays DEF Reads
<1>5. ASSUME NEW th \in Threads, Report(th), SlotOf(thread[th].tid) = s, thread[th].r = "ok"
      PROVE  Filled(t)'
  <2>1. PICK u \in Tids : u = thread[th].tid
    BY <1>5, <1>a, Typed DEF Report, IdleThread
  <2>2. thread[th].at = "report" /\ SlotOf(u) = s /\ s \in Finishers
    BY <1>3, <1>5, <2>1 DEF Report, SlotOf, Reads
  <2>3. Awaited(u)
    BY <1>a, <2>1, <2>2 DEF ReportIsAwaited, Awaited, SlotOf
  <2>4. client[s].tid = u /\ client[s].at # "idle"
    BY <2>2, <2>3 DEF Awaited
  <2>5. u < tid_counter
    BY <1>a, <2>1 DEF IInv, Fresh, TypeOK, Tids
  <2>6. u = t
    <3>1. u <= t
      BY <1>2, <2>2, <2>5 DEF Made
    <3>2. t <= u
      BY <1>3, <1>a, <2>4 DEF Scripted
    <3> QED
      BY <1>1, <3>1, <3>2 DEF Tids
  <2>7. Filled(t)
    BY <1>3, <1>5, <1>a, <2>1, <2>2, <2>3, <2>6 DEF Answering
  <2>8. \A v \in Tids : SlotOf(v) = SlotOf(t) /\ Awaited(v) => v = t
    BY <1>1, <2>3, <2>6, AwaitedAlone
  <2> QED
    BY <1>1, <1>3, <1>a, <2>7, <2>8, FilledStays DEF Reads
<1>6. \/ err[s] = "ok"
      \/ \E th \in Threads : /\ Report(th)
                             /\ SlotOf(thread[th].tid) = s
                             /\ thread[th].r = "ok"
  <2>1. CASE UNCHANGED err
    BY <2>1
  <2>2. ASSUME NEW q \in Slots, NEW m \in Modes, Invoke(q, m) PROVE err[s] = "ok"
    BY <2>2, <1>a DEF Invoke, TypeOK
  <2>3. ASSUME NEW th \in Threads, ReturnEarly(th) PROVE err[s] = "ok"
    BY <2>3, <1>a DEF ReturnEarly, TypeOK
  <2>4. ASSUME NEW th \in Threads, Report(th)
        PROVE  err[s] = "ok" \/ (SlotOf(thread[th].tid) = s /\ thread[th].r = "ok")
    BY <2>4, <1>a DEF Report, TypeOK
  <2>5. CASE \E q \in Slots : Caller(q)
    BY <2>1, <2>2, <2>5 DEF Caller, StartTask, Post, Observe
  <2>6. CASE \E th \in Threads : Work(th) \/ Hang(th)
    BY <2>1, <2>3, <2>4, <2>6 DEF Work, Hang, Complete, FinishInner, FinishTask
  <2>7. CASE \/ \E th \in Threads, u \in Tids : Run(th, u)
             \/ \E u \in Tids : Expire(u)
             \/ WatchTasks
             \/ UNCHANGED vars
    BY <2>1, <2>7 DEF Run, Expire, WatchTasks, vars
  <2> QED
    BY <1>b, <2>5, <2>6, <2>7 DEF Next
<1> QED
  BY <1>4, <1>5, <1>6

\* Nothing has been read in the beginning.
LEMMA BuffersInit == ASSUME LibInit PROVE Buffers
<1>1. /\ tid_counter = 0
      /\ posted = [t \in Tids |-> 0]
      /\ thread = [th \in Threads |-> IdleThread]
      /\ client = [s \in Slots |-> IdleClient]
  BY DEF LibInit, Init, Tids, IdleThread, NoTid, IdleClient
<1>2. mover = [th \in Threads |-> mover[th]]
  BY DEF LibInit, OM!Init, OM!AtRest
<1>3. buffer = [s \in Slots |-> buffer[s]]
  BY DEF LibInit
<1>4. NoTid \notin Tids
  BY DEF NoTid, Tids
<1>5. Once
  BY <1>1, <1>4 DEF Once, Pending, IdleThread, IdleClient
<1>6. Reading /\ Answering
  BY <1>1 DEF Reading, Answering, IdleThread
<1>7. Told
  BY <1>1 DEF Told, Made, Tids
<1> QED
  BY <1>2, <1>3, <1>5, <1>6, <1>7 DEF Buffers

\* Every step keeps the buffers as the answers say.
LEMMA BuffersStep ==
  ASSUME LibraryInv, [LibNext]_libVars
  PROVE  Buffers'
<1>a. /\ IInv /\ script \in [Slots -> Scripts]
      /\ Once /\ buffer = [s \in Slots |-> buffer[s]]
  BY DEF LibraryInv, Scripted, Buffers
<1>1. Once'
  BY <1>a, StepKinds, OnceStep, OnceWatching
<1>2. buffer' = [s \in Slots |-> buffer'[s]]
  <2>1. CASE UNCHANGED buffer
    BY <1>a, <2>1
  <2>2. ASSUME NEW th \in Threads, Serve(th) PROVE buffer' = [s \in Slots |-> buffer'[s]]
    <3>1. \/ UNCHANGED buffer
          \/ buffer' = [buffer EXCEPT ![SlotOf(thread[th].tid)] = thread[th].tid]
      BY <2>2, ServeStep
    <3> QED
      BY <1>a, <3>1
  <2> QED
    BY <2>1, <2>2, WatchTasksStep
    DEF LibNext, Construct, LibInvoke, Call, LibRun, LibWork, Finish, LibReturnEarly, Answer,
        LibHang, LibExpire, bufferVars, libVars
<1>3. CASE LibNext
  <2>1. status = "up"
    BY <1>3 DEF LibNext, Up
  <2>2. Told'
    BY <2>1, ToldStep
  <2>3. status' = "up" => mover' = [th \in Threads |-> mover'[th]] /\ Reading' /\ Answering'
    BY <2>1, MoversStay, ReadingStep, AnsweringStep
  <2> QED
    BY <1>1, <1>2, <2>2, <2>3 DEF Buffers
<1>4. CASE UNCHANGED libVars
  <2>1. Finishers' = Finishers
    BY <1>4, FinishersSame DEF libVars, vars
  <2> QED
    BY <1>1, <1>2, <1>4, <2>1
    DEF LibraryInv, Buffers, Reading, Answering, Told, Reads, Awaited, Filled, Made, SlotOf,
        libVars, vars, poolVars, bufferVars
<1> QED
  BY <1>3, <1>4

\* It holds in the library.
LEMMA LibraryInvKept ==
  ASSUME ReadsFirst
  PROVE  LibSpec => []LibraryInv
<1>1. LibInit => LibraryInv
  BY IInvInit, ScriptedInit, BuffersInit DEF LibInit, LibraryInv
<1>2. LibraryInv /\ [LibNext]_libVars => LibraryInv'
  <2> SUFFICES ASSUME LibraryInv, [LibNext]_libVars PROVE LibraryInv'
    OBVIOUS
  <2>1. ReadsFirst /\ IInv /\ Scripted
    BY DEF LibraryInv
  <2>2. IInv'
    BY <2>1, StepIsTasks, IInvStep DEF Scripted
  <2>3. Scripted'
    BY <2>1, ScriptedStep
  <2>4. Buffers'
    BY BuffersStep
  <2> QED
    BY <2>1, <2>2, <2>3, <2>4, SiriusAssumption DEF LibraryInv, ReadsFirst
<1> QED
  BY <1>1, <1>2, PTL DEF LibSpec

\* A caller whose Read succeeded has in its bufferlist what that Read has read,
\* or what a retry has; threads of its earlier calls are kept away.  It holds
\* for callers that Move and Delete only after their last Read: a second try of
\* a Delete that returns early may otherwise end the call, and the answer of
\* the first try is then taken for that of the Read which comes after it.
THEOREM ReadsAreOwn ==
  ASSUME ReadsFirst
  PROVE  LibSpec => []ReadIsOwn
<1>1. LibraryInv => ReadIsOwn
  <2> SUFFICES ASSUME LibraryInv, NEW s \in Slots, NEW t \in LastCall(s),
                      err[s] = "ok", request[t].op = "read"
               PROVE  buffer[s] \in {t} \cup retried
    BY DEF ReadIsOwn
  <2>1. t \in Made(s) /\ \A u \in Made(s) : u <= t
    BY DEF LastCall
  <2>2. ASSUME NEW u \in Made(s) PROVE closure[u].mode \notin EarlyModes
    <3>1. request[u].op \in {"create", "read"}
      BY <2>1, <2>2 DEF LibraryInv, Scripted, Made, Tids
    <3>2. request[u] \in Requests /\ closure[u].mode = ModeFor(request[u].op)
      BY <2>2 DEF LibraryInv, Scripted, Made
    <3> QED
      BY <3>1, <3>2, ModesOfOps, SiriusAssumption DEF LibraryInv
  <2>3. s \in Finishers
    BY <2>2 DEF Finishers, Made
  <2>4. closure[t].mode = "r"
    <3>1. request[t] \in Requests /\ closure[t].mode = ModeFor(request[t].op)
      BY <2>1 DEF LibraryInv, Scripted, Made
    <3> QED
      BY <3>1, ModesOfOps DEF LibraryInv
  <2> QED
    BY <2>1, <2>3, <2>4 DEF LibraryInv, Buffers, Told, Reads, Filled, Made
<1> QED
  BY <1>1, LibraryInvKept, PTL

=============================================================================
