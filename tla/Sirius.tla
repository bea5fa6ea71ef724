------------------------------- MODULE Sirius --------------------------------
(***************************************************************************)
(* The library as its callers see it: SessionPool and the constructor,     *)
(* then calls that TaskManager hands to pool threads, in which ObjectMover *)
(* works on the pools (default build).  A retry of WatchTasks is here the  *)
(* operation done once more, on whatever the first try has made of the     *)
(* object by then; a thread that hangs keeps the advisory lock it has; and *)
(* an assert that fails in one thread ends all calls.                      *)
(*                                                                         *)
(* Each caller makes the calls of a script, one after the other.  The      *)
(* state of TaskManager is extended here; what a pool thread is doing in   *)
(* the operation it runs is mover, the thread of ObjectMover.              *)
(***************************************************************************)
EXTENDS TaskManager, Sequences

CONSTANTS Sessions, NoSession,
          Objects, Values, Empty, NoObject, InitialTiers,   \* as in ObjectMover
          Scripts,    \* sequences of requests
          Nothing     \* what a read buffer holds before a Read

Requests == UNION {{script[i] : i \in 1 .. Len(script)} : script \in Scripts}

ASSUME SiriusAssumption ==
          /\ Modes = {"w", "m", "r", "d"}
          /\ EarlyModes = {"m", "d"}
          /\ \A req \in Requests : req.op \in {"create", "move", "read", "delete"}
          /\ \A calls \in Scripts : Len(calls) * Cardinality(Slots) <= MaxTid
          /\ Cardinality(Sessions) = Cardinality(Threads)
          /\ NoSession \notin Sessions

VARIABLES store, mover, current, status, bounds,
          started, free, reserve_map,
          script,    \* [Slots -> Scripts]
          request,   \* [task ids -> the arguments std::bind captured]
          buffer,    \* [Slots -> the task that filled *bl of that caller]
          retried    \* the tasks WatchTasks has posted

OM == INSTANCE ObjectMover
         WITH thread <- mover,
              InitialData <- CHOOSE data \in Values : TRUE,
              Writers <- {},
              MaxOps <- 0, MaxWrites <- 0, MaxFaults <- 0, MaxCrashes <- 0

SP == INSTANCE SessionPool

poolVars == <<store, mover, current, status, bounds>>
sessionVars == <<started, free, reserve_map>>
bufferVars == <<buffer, retried>>
libVars == <<vars, poolVars, sessionVars, script, request, bufferVars>>

LibInit == /\ Init
           /\ OM!Init
           /\ SP!Init
           /\ script \in [Slots -> Scripts]
           /\ request = [t \in Tids |-> CHOOSE req \in Requests : TRUE]
           /\ buffer = [s \in Slots |-> Nothing]
           /\ retried = {}

\* The mode CreateAsync .. DeleteAsync give to StartTask.
ModeFor(op) == CASE op = "create" -> "w"
                 [] op = "move" -> "m"
                 [] op = "read" -> "r"
                 [] op = "delete" -> "d"

Tid(th) == thread[th].tid

-----------------------------------------------------------------------------
(* Faulty variants: as in the modules composed here.                       *)

\* A buffer that an earlier Read has filled keeps what it has.
FillEmpty(th) ==
    buffer' = IF mover[th].at = "read" /\ mover'[th].r = "ok" /\ buffer[SlotOf(Tid(th))] = Nothing
              THEN [buffer EXCEPT ![SlotOf(Tid(th))] = Tid(th)]
              ELSE buffer

\* The answer does not wait for RADOS.
FinishUnawaited(th) ==
    /\ thread[th].at = "running"
    /\ Complete(th, "ok")
    /\ mover' = [mover EXCEPT ![th] = OM!IdleThread]
    /\ current' = current \ {th}
    /\ UNCHANGED <<store, status, bounds, sessionVars, script, request, bufferVars>>

-----------------------------------------------------------------------------
(* The constructor *)

Construct == /\ SP!Next
             /\ UNCHANGED <<vars, poolVars, script, request, bufferVars>>

-----------------------------------------------------------------------------
(* The callers *)

\* The calls s has made.
Made(s) == {t \in Tids : t < tid_counter /\ SlotOf(t) = s}

LibInvoke(s) ==
    LET n == Cardinality(Made(s)) + 1
    IN  /\ SP!Ready
        /\ n <= Len(script[s])
        /\ Invoke(s, ModeFor(script[s][n].op))
        /\ request' = [request EXCEPT ![tid_counter] = script[s][n]]
        /\ UNCHANGED <<poolVars, sessionVars, script, bufferVars>>

Call(s) == /\ StartTask(s) \/ Post(s) \/ Observe(s)
           /\ UNCHANGED <<poolVars, sessionVars, script, request, bufferVars>>

-----------------------------------------------------------------------------
(* The pool threads *)

LibRun(th, t) == /\ Run(th, t)
                 /\ OM!Begin(th, request[t])
                 /\ UNCHANGED <<bounds, sessionVars, script, request, bufferVars>>

\* A read that finds the object fills *bl.
Fill(th) ==
    buffer' = IF mover[th].at = "read" /\ mover'[th].r = "ok"
              THEN [buffer EXCEPT ![SlotOf(Tid(th))] = Tid(th)]
              ELSE buffer

Serve(th) == /\ thread[th].at = "running"
             /\ OM!Serve(th)
             /\ Fill(th)
             /\ UNCHANGED <<vars, sessionVars, script, request, retried>>

Finish(th) == /\ mover[th].at = "finish"
              /\ Complete(th, IF mover[th].r = "ok" THEN "ok" ELSE "fail")
              /\ OM!End(th)
              /\ UNCHANGED <<sessionVars, script, request, bufferVars>>

LibReturnEarly(th) == /\ mover[th].at = "early"
                      /\ ReturnEarly(th)
                      /\ OM!End(th)
                      /\ UNCHANGED <<sessionVars, script, request, bufferVars>>

Answer(th) == /\ FinishTask(th) \/ Report(th)
              /\ UNCHANGED <<poolVars, sessionVars, script, request, bufferVars>>

LibHang(th) == /\ Hang(th)
               /\ UNCHANGED <<poolVars, sessionVars, script, request, bufferVars>>

LibWork(th) == Serve(th) \/ Finish(th) \/ LibReturnEarly(th) \/ Answer(th)

-----------------------------------------------------------------------------
(* The watcher *)

LibExpire(t) == /\ Expire(t)
                /\ UNCHANGED <<poolVars, sessionVars, script, request, bufferVars>>

LibWatchTasks == /\ WatchTasks
                 /\ retried' = retried \cup expired
                 /\ UNCHANGED <<poolVars, sessionVars, script, request, buffer>>

-----------------------------------------------------------------------------
Up == status = "up"

LibNext == /\ Up
           /\ \/ Construct
              \/ \E s \in Slots : LibInvoke(s) \/ Call(s)
              \/ \E th \in Threads, t \in Tids : LibRun(th, t)
              \/ \E th \in Threads : LibWork(th) \/ LibHang(th)
              \/ \E t \in Tids : LibExpire(t)
              \/ LibWatchTasks

LibSpec == LibInit /\ [][LibNext]_libVars

\* As in TaskManager; a thread that spins in Lock is not going on.
LibFairness == /\ \A s \in Slots : WF_libVars(Up /\ Call(s))
               /\ \A th \in Threads : WF_libVars(Up /\ LibWork(th))
               /\ \A t \in Tids : SF_libVars(Up /\ \E th \in Threads : LibRun(th, t))
               /\ \A t \in Tids : WF_libVars(Up /\ LibExpire(t))
               /\ WF_libVars(Up /\ LibWatchTasks)

LibFairSpec == LibSpec /\ LibFairness

-----------------------------------------------------------------------------
(* Properties *)

\* A pool thread that runs an operation has a session, and has it alone, even
\* though threads start before their session is reserved.
OwnSession ==
    \A th \in Threads :
       thread[th].at # "idle" =>
          /\ SP!Reserved(th)
          /\ \A other \in Threads \ {th} : SP!GetSession(other) # SP!GetSession(th)

\* The last call of s, if s is between two calls.
LastCall(s) == {t \in Made(s) : client[s].at = "idle" /\ \A u \in Made(s) : u <= t}

\* What the answer 0 to a call promises: the object is in the tier asked for.
Promised(req) ==
    LET pool == OM!PoolOf(req.tier)
        object == store[req.obj][pool]
    IN  /\ OM!Target(store[req.obj], "cache") = pool
        /\ object # NoObject
        /\ \A t \in 0 .. tid_counter - 1 :
              (request[t].op = "create" /\ request[t].obj = req.obj) => object.data = request[t].data

\* The caller who was told that Create or Move succeeded finds the object where
\* it asked for it, with the data it created it with, although retries of this
\* call and of earlier ones are still at work.  (Not so when a Delete was
\* called before, whose retries remove what is created after it.)
AnsweredHolds ==
    \A s \in Slots : \A t \in LastCall(s) :
       ( /\ err[s] = "ok"
         /\ request[t].op \in {"create", "move"}
         /\ \A u \in Made(s) : request[u].op # "delete" )
       => Promised(request[t])

\* A caller whose Read succeeded has in its bufferlist what that Read has read,
\* and not what an earlier Read of the caller left in it, unless WatchTasks has
\* posted that Read: nothing keeps a retry from filling the buffer late.
ReadIsOwn ==
    \A s \in Slots : \A t \in LastCall(s) :
       (err[s] = "ok" /\ request[t].op = "read") => buffer[s] \in {t} \cup retried

\* A mover is stuck with an object: it hangs with the lock, or goes on copying
\* an object that left the cache pool before.
Stuck == \E th \in Threads :
            \/ thread[th].at = "hung" /\ mover[th].at \in OM!Inside
            \/ /\ mover[th].at \in {"copy_down", "replace"}
               /\ OM!Target(store[mover[th].req.obj], "cache") # "cache"

\* Every call gets its answer, by a retry in another thread if one hangs, as
\* long as the process lives; the exception is a mover stuck for ever, since
\* the retries of other moves then spin in Lock until no thread is left.
CallsEnd ==
    \A s \in Slots : \/ client[s].at = "start" ~> client[s].at = "idle"
                     \/ <>[](~ Up)
                     \/ <>[]Stuck
==============================================================================
