-------------------------- MODULE TaskManagerProofs --------------------------
(***************************************************************************)
(* Proofs about TaskManager, for any number of callers, pool threads,      *)
(* calls, retries and hangs.                                               *)
(***************************************************************************)
EXTENDS TaskManager, TLAPS

\* The initial state, before the first call, is well typed.
LEMMA TypeInit == Init => TypeOK
<1> SUFFICES ASSUME Init PROVE TypeOK
  OBVIOUS
<1>1. UnusedClosure \in Closure
  <2>1. \E c \in Closure : TRUE
    <3>1. PICK s \in Slots, m \in Modes : TRUE
      BY ModesAssumption
    <3>2. [slot |-> s, mode |-> m] \in Closure
      BY DEF Closure
    <3> QED
      BY <3>2
  <2> QED
    BY <2>1 DEF UnusedClosure
<1>2. 0 \in 0 .. MaxTid
  BY BoundsAssumption
<1>3. IdleThread \in Thread /\ IdleClient \in Client
  BY DEF Thread, Client
<1> QED
  BY <1>1, <1>2, <1>3 DEF Init, TypeOK, Results

\* Every step of a caller, a pool thread or WatchTasks keeps the types.
LEMMA TypeStep == TypeOK /\ [Next]_vars => TypeOK'
<1> SUFFICES ASSUME TypeOK, [Next]_vars PROVE TypeOK'
  OBVIOUS
<1> USE DEF TypeOK, callVars, tableVars
<1>1. ASSUME NEW s \in Slots, NEW m \in Modes, Invoke(s, m) PROVE TypeOK'
  <2>1. tid_counter \in Tids /\ tid_counter + 1 \in 0 .. MaxTid
    BY <1>1, BoundsAssumption DEF Invoke, Tids
  <2>2. [slot |-> s, mode |-> m] \in Closure
    BY DEF Closure
  <2>3. [at |-> "start", tid |-> tid_counter] \in Client
    BY <2>1 DEF Client
  <2> QED
    BY <1>1, <2>1, <2>2, <2>3 DEF Invoke
<1>2. ASSUME NEW s \in Slots, StartTask(s) PROVE TypeOK'
  BY <1>2 DEF StartTask, Client, IdleClient
<1>3. ASSUME NEW s \in Slots, Post(s) PROVE TypeOK'
  BY <1>3 DEF Post, Client, IdleClient
<1>4. ASSUME NEW s \in Slots, Observe(s) PROVE TypeOK'
  BY <1>4 DEF Observe, Client
<1>5. ASSUME NEW th \in Threads, NEW t \in Tids, Run(th, t) PROVE TypeOK'
  <2>1. [at |-> "running", tid |-> t, r |-> "ok"] \in Thread
    BY DEF Thread, Results
  <2> QED
    BY <1>5, <2>1 DEF Run
<1>6. ASSUME NEW th \in Threads, NEW r \in Results, Complete(th, r) PROVE TypeOK'
  <2>1. thread'[th] \in Thread
    BY <1>6 DEF Complete, Thread, IdleThread
  <2> QED
    BY <1>6, <2>1 DEF Complete
<1>7. ASSUME NEW th \in Threads, ReturnEarly(th) PROVE TypeOK'
  BY <1>7 DEF ReturnEarly, Thread, Results
<1>8. ASSUME NEW th \in Threads, Hang(th) PROVE TypeOK'
  BY <1>8 DEF Hang, Thread, IdleThread
<1>9. ASSUME NEW th \in Threads, FinishInner(th) PROVE TypeOK'
  BY <1>9 DEF FinishInner, Erase, Thread, IdleThread
<1>10. ASSUME NEW th \in Threads, FinishTask(th) PROVE TypeOK'
  <2>1. [thread[th] EXCEPT !.at = "report"] \in Thread
    BY <1>10 DEF FinishTask, Thread, IdleThread
  <2>2. IdleThread \in Thread
    BY DEF Thread
  <2>3. thread' \in [Threads -> Thread]
    BY <1>10, <2>1, <2>2 DEF FinishTask
  <2>4. /\ Erase(thread[th].tid)
        /\ UNCHANGED <<callVars, posted, client, err>>
    BY <1>10 DEF FinishTask
  <2> QED
    BY <2>3, <2>4 DEF Erase
<1>11. ASSUME NEW th \in Threads, Report(th) PROVE TypeOK'
  <2>1. thread[th].r \in Results
    BY <1>11 DEF Report, Thread, IdleThread
  <2>2. IdleThread \in Thread
    BY DEF Thread
  <2> QED
    BY <1>11, <2>1, <2>2 DEF Report
<1>12. ASSUME NEW t \in Tids, Expire(t) PROVE TypeOK'
  BY <1>12 DEF Expire
<1>13. ASSUME WatchTasks PROVE TypeOK'
  BY <1>13 DEF WatchTasks
<1>14. CASE UNCHANGED vars
  BY <1>14 DEF vars
<1> QED
  BY <1>1, <1>2, <1>3, <1>4, <1>5, <1>6, <1>7, <1>8, <1>9, <1>10, <1>11,
     <1>12, <1>13, <1>14 DEF Next, Caller, Work

\* The table, the queue and the state machines of callers and threads keep
\* their types, for all operations, early returns included.
THEOREM TypeCorrect == Spec => []TypeOK
<1> QED
  BY TypeInit, TypeStep, PTL DEF Spec

\* What the types say of one thread and of one caller.
LEMMA Typed ==
  ASSUME TypeOK
  PROVE  /\ \A th \in Threads :
              \/ thread[th] = IdleThread
              \/ /\ thread[th].at \in {"running", "hung", "inner", "finish", "report"}
                 /\ thread[th].tid \in Tids
                 /\ thread[th].r \in Results
         /\ \A s \in Slots :
              \/ client[s] = IdleClient
              \/ /\ client[s].at \in {"start", "post", "wait"}
                 /\ client[s].tid \in Tids
BY DEF TypeOK, Thread, Client

\* Before the first call the inductive invariant holds.
LEMMA IInvInit == Init => IInv
<1> SUFFICES ASSUME Init PROVE IInv
  OBVIOUS
<1>1. TypeOK
  BY TypeInit
<1> QED
  BY <1>1 DEF Init, IInv, Fresh, Owns, Starting, Tabled, ReportIsAwaited, Awaited,
              IdleThread, IdleClient, Tids, NoTid

\* What callers have called changes with their next call only.
LEMMA FinishersSame ==
  ASSUME UNCHANGED <<tid_counter, closure>>
  PROVE  Finishers' = Finishers
BY DEF Finishers, SlotOf

\* Every step keeps the inductive invariant.
LEMMA IInvStep ==
  ASSUME IInv, [Next]_vars
  PROVE  IInv'
<1> USE DEF callVars, tableVars
<1>a. TypeOK /\ TypeOK' /\ Fresh /\ Owns /\ Starting /\ Tabled /\ ReportIsAwaited
  BY TypeStep DEF IInv
<1> USE <1>a DEF SlotOf, IdleThread, IdleClient
<1>b. NoTid \notin Tids
  BY DEF NoTid, Tids
<1>c. \A t \in Tids : closure[t].slot \in Slots
  BY DEF TypeOK, Closure
<1>1. ASSUME NEW s \in Slots, NEW m \in Modes, Invoke(s, m)
     PROVE  Fresh' /\ Owns' /\ Starting' /\ Tabled' /\ ReportIsAwaited'
  <2> DEFINE n == tid_counter
  <2>1. /\ n \in Tids
        /\ n \notin task_table
        /\ posted[n] = 0
        /\ \A th \in Threads : thread[th].tid # n
        /\ \A q \in Slots : client[q].tid # n
    BY <1>1, BoundsAssumption DEF Invoke, Fresh, Tids, TypeOK
  <2>2. /\ closure'[n].slot = s
        /\ \A t \in Tids \ {n} : closure'[t] = closure[t]
    BY <1>1, <2>1 DEF Invoke, TypeOK
  <2>3. /\ client'[s] = [at |-> "start", tid |-> n]
        /\ client[s].at = "idle"
        /\ \A q \in Slots \ {s} : client'[q] = client[q]
    BY <1>1 DEF Invoke, TypeOK
  <2>4. /\ err'[s] = "pending"
        /\ \A q \in Slots \ {s} : err'[q] = err[q]
    BY <1>1 DEF Invoke, TypeOK
  <2>5. UNCHANGED <<task_table, expired, posted, thread>> /\ tid_counter' = n + 1
    BY <1>1 DEF Invoke
  <2>0. /\ Finishers' \ {s} = Finishers \ {s}
        /\ s \in Finishers' => s \in Finishers
    BY <2>1, <2>2, <2>5 DEF Finishers, TypeOK, Tids
  <2>6. Fresh'
    BY <2>1, <2>3, <2>5 DEF Fresh, TypeOK, Tids
  <2>7. Owns'
    BY <2>1, <2>2, <2>3, Typed DEF Owns
  <2>8. Starting'
    BY <2>0, <2>1, <2>3, <2>4, <2>5 DEF Starting
  <2>9. \A t \in Tids \ {n} : Awaited(t) => Awaited(t)'
    BY <2>2, <2>3, <2>4, <1>c DEF Awaited
  <2>10. Tabled'
    BY <2>0, <2>1, <2>2, <2>5, <2>9, <1>c DEF Tabled, TypeOK
  <2>11. ReportIsAwaited'
    BY <2>0, <2>1, <2>2, <2>5, <2>9, <1>c, Typed DEF ReportIsAwaited
  <2> QED
    BY <2>6, <2>7, <2>8, <2>10, <2>11
<1>2. ASSUME NEW s \in Slots, StartTask(s)
     PROVE  Fresh' /\ Owns' /\ Starting' /\ Tabled' /\ ReportIsAwaited'
  <2>0. PICK n \in Tids : n = client[s].tid
    BY <1>2, Typed DEF StartTask
  <2>1. /\ closure[n].slot = s
        /\ s \in Finishers => err[s] = "pending"
        /\ \A th \in Threads : thread[th].tid # n
    BY <1>2, <2>0 DEF StartTask, Owns, Starting
  <2>2. /\ client'[s] = [at |-> "post", tid |-> n]
        /\ client[s].at = "start"
        /\ \A q \in Slots \ {s} : client'[q] = client[q]
    BY <1>2, <2>0 DEF StartTask, TypeOK, Client
  <2>3. /\ UNCHANGED <<tid_counter, closure, expired, posted, thread, err>>
        /\ task_table' = task_table \cup {n}
    BY <1>2, <2>0 DEF StartTask
  <2>12. Finishers' = Finishers
    BY <2>3, FinishersSame
  <2>4. \A q \in Slots \ {s} : client[q].tid # n
    BY <2>0, <2>1, <2>2, Typed, <1>b DEF Owns
  <2>5. Fresh'
    BY <2>0, <2>1, <2>2, <2>3 DEF Fresh
  <2>6. Owns'
    BY <2>1, <2>2, <2>3 DEF Owns
  <2>7. Starting'
    BY <2>2, <2>3, <2>4, <2>12 DEF Starting
  <2>8. \A t \in Tids : Awaited(t) => Awaited(t)'
    BY <2>2, <2>3, <1>c DEF Awaited
  <2>9. s \in Finishers => Awaited(n)'
    BY <2>1, <2>2, <2>3 DEF Awaited
  <2>10. Tabled'
    <3>1. \A t \in task_table :
             /\ closure[t].slot \in Finishers => Awaited(t)'
             /\ \A th \in Threads : thread'[th].at = "report" => thread'[th].tid # t
      BY <2>3, <2>8, <2>12 DEF Tabled, TypeOK
    <3>2. /\ s \in Finishers => Awaited(n)'
          /\ \A th \in Threads : thread'[th].at = "report" => thread'[th].tid # n
      BY <2>1, <2>3, <2>9
    <3>3. \A t \in task_table' : t \in task_table \/ t = n
      BY <2>3
    <3> QED
      BY <2>1, <2>3, <2>12, <3>1, <3>2, <3>3 DEF Tabled, Awaited
  <2>11. ReportIsAwaited'
    BY <2>3, <2>8, <2>12, Typed DEF ReportIsAwaited
  <2> QED
    BY <2>5, <2>6, <2>7, <2>10, <2>11
<1>3. ASSUME NEW s \in Slots, Post(s)
     PROVE  Fresh' /\ Owns' /\ Starting' /\ Tabled' /\ ReportIsAwaited'
  <2> DEFINE n == client[s].tid
  <2>1. n \in Tids /\ closure[n].slot = s
    BY <1>3, Typed DEF Post, Owns
  <2>2. /\ client'[s] = [at |-> "wait", tid |-> n]
        /\ client[s].at = "post"
        /\ \A q \in Slots \ {s} : client'[q] = client[q]
    BY <1>3 DEF Post, TypeOK, Client
  <2>3. /\ UNCHANGED <<tid_counter, closure, task_table, expired, thread, err>>
        /\ \A t \in Tids \ {n} : posted'[t] = posted[t]
    BY <1>3 DEF Post, TypeOK
  <2>12. Finishers' = Finishers
    BY <2>3, FinishersSame
  <2>4. \A q \in Slots \ {s} : client[q].tid # n
    BY <2>1, <2>2, Typed, <1>b DEF Owns
  <2>5. Fresh'
    BY <2>1, <2>2, <2>3 DEF Fresh
  <2>6. Owns'
    BY <2>1, <2>2, <2>3 DEF Owns
  <2>7. Starting'
    BY <2>2, <2>3, <2>4, <2>12, Typed DEF Starting
  <2>8. \A t \in Tids : Awaited(t) => Awaited(t)'
    BY <2>2, <2>3, <1>c DEF Awaited
  <2>9. Tabled'
    BY <2>3, <2>8, <2>12 DEF Tabled, TypeOK
  <2>10. ReportIsAwaited'
    BY <2>3, <2>8, <2>12, Typed DEF ReportIsAwaited
  <2> QED
    BY <2>5, <2>6, <2>7, <2>9, <2>10
<1>4. ASSUME NEW s \in Slots, Observe(s)
     PROVE  Fresh' /\ Owns' /\ Starting' /\ Tabled' /\ ReportIsAwaited'
  <2> USE <1>4 DEF Observe
  <2>0. Finishers' = Finishers
    BY FinishersSame
  <2>1. Fresh'
    BY Typed, <1>b DEF Fresh, TypeOK
  <2>2. Owns'
    BY Typed, <1>b DEF Owns, TypeOK
  <2>3. Starting'
    BY <2>0, Typed, <1>b DEF Starting, TypeOK
  <2>4. Tabled'
    BY <2>0, Typed, <1>b DEF Tabled, Awaited, TypeOK
  <2>5. ReportIsAwaited'
    BY <2>0, Typed, <1>b DEF ReportIsAwaited, Awaited, TypeOK
  <2> QED
    BY <2>1, <2>2, <2>3, <2>4, <2>5
<1>5. ASSUME NEW th \in Threads, NEW t \in Tids, Run(th, t)
     PROVE  Fresh' /\ Owns' /\ Starting' /\ Tabled' /\ ReportIsAwaited'
  <2> USE <1>5 DEF Run
  <2>0. Finishers' = Finishers
    BY FinishersSame
  <2>1. Fresh'
    BY Typed, <1>b DEF Fresh, TypeOK
  <2>2. Owns'
    BY Typed, <1>b DEF Owns, TypeOK
  <2>3. Starting'
    BY <2>0, Typed, <1>b DEF Starting, TypeOK
  <2>4. Tabled'
    BY <2>0, Typed, <1>b DEF Tabled, Awaited, TypeOK
  <2>5. ReportIsAwaited'
    BY <2>0, Typed, <1>b DEF ReportIsAwaited, Awaited, TypeOK
  <2> QED
    BY <2>1, <2>2, <2>3, <2>4, <2>5
<1>6. ASSUME NEW th \in Threads, NEW r \in Results, Complete(th, r)
     PROVE  Fresh' /\ Owns' /\ Starting' /\ Tabled' /\ ReportIsAwaited'
  <2> USE <1>6 DEF Complete
  <2>0. Finishers' = Finishers
    BY FinishersSame
  <2>1. Fresh'
    BY Typed, <1>b DEF Fresh, TypeOK
  <2>2. Owns'
    BY Typed, <1>b DEF Owns, TypeOK
  <2>3. Starting'
    BY <2>0, Typed, <1>b DEF Starting, TypeOK
  <2>4. Tabled'
    BY <2>0, Typed, <1>b DEF Tabled, Awaited, TypeOK
  <2>5. ReportIsAwaited'
    BY <2>0, Typed, <1>b DEF ReportIsAwaited, Awaited, TypeOK
  <2> QED
    BY <2>1, <2>2, <2>3, <2>4, <2>5
<1>7. ASSUME NEW th \in Threads, Hang(th)
     PROVE  Fresh' /\ Owns' /\ Starting' /\ Tabled' /\ ReportIsAwaited'
  <2> USE <1>7 DEF Hang
  <2>0. Finishers' = Finishers
    BY FinishersSame
  <2>1. Fresh'
    BY Typed, <1>b DEF Fresh, TypeOK
  <2>2. Owns'
    BY Typed, <1>b DEF Owns, TypeOK
  <2>3. Starting'
    BY <2>0, Typed, <1>b DEF Starting, TypeOK
  <2>4. Tabled'
    BY <2>0, Typed, <1>b DEF Tabled, Awaited, TypeOK
  <2>5. ReportIsAwaited'
    BY <2>0, Typed, <1>b DEF ReportIsAwaited, Awaited, TypeOK
  <2> QED
    BY <2>1, <2>2, <2>3, <2>4, <2>5
<1>8. ASSUME NEW th \in Threads, FinishInner(th)
     PROVE  Fresh' /\ Owns' /\ Starting' /\ Tabled' /\ ReportIsAwaited'
  <2> USE <1>8 DEF FinishInner, Erase
  <2>0. Finishers' = Finishers
    BY FinishersSame
  <2>1. Fresh'
    BY Typed, <1>b DEF Fresh, TypeOK
  <2>2. Owns'
    BY Typed, <1>b DEF Owns, TypeOK
  <2>3. Starting'
    BY <2>0, Typed, <1>b DEF Starting, TypeOK
  <2>4. Tabled'
    BY <2>0, Typed, <1>b DEF Tabled, Awaited, TypeOK
  <2>5. ReportIsAwaited'
    BY <2>0, Typed, <1>b DEF ReportIsAwaited, Awaited, TypeOK
  <2> QED
    BY <2>1, <2>2, <2>3, <2>4, <2>5
<1>9. ASSUME NEW th \in Threads, FinishTask(th)
     PROVE  Fresh' /\ Owns' /\ Starting' /\ Tabled' /\ ReportIsAwaited'
  <2> DEFINE n == thread[th].tid
  <2>1. /\ n \in Tids
        /\ thread[th].at = "finish"
    BY <1>9, Typed DEF FinishTask
  <2>2. /\ UNCHANGED <<tid_counter, closure, posted, client, err>>
        /\ task_table' = task_table \ {n}
        /\ \A o \in Threads \ {th} : thread'[o] = thread[o]
    BY <1>9 DEF FinishTask, Erase, TypeOK
  <2>3. /\ n \in task_table => thread'[th].at = "report" /\ thread'[th].tid = n
        /\ n \notin task_table => thread'[th] = IdleThread
    BY <1>9, Typed DEF FinishTask, TypeOK, Thread
  <2>4. \A t \in Tids : Awaited(t) <=> Awaited(t)'
    BY <2>2 DEF Awaited
  <2>11. Finishers' = Finishers
    BY <2>2, FinishersSame
  <2>5. Fresh'
    BY <2>1, <2>2, <2>3, <1>b DEF Fresh
  <2>6. Owns'
    BY <2>2 DEF Owns
  <2>7. Starting'
    BY <2>1, <2>2, <2>3, <2>11, Typed, <1>b DEF Starting
  <2>8. Tabled'
    BY <2>1, <2>2, <2>3, <2>4, <2>11, <1>b DEF Tabled, TypeOK
  <2>9. n \in task_table =>
           /\ closure[n].slot \in Finishers => Awaited(n)
           /\ \A o \in Threads : thread[o].at = "report" => thread[o].tid # n
    BY DEF Tabled
  <2>10. ReportIsAwaited'
    BY <2>1, <2>2, <2>3, <2>4, <2>9, <2>11, Typed DEF ReportIsAwaited
  <2> QED
    BY <2>5, <2>6, <2>7, <2>8, <2>10
<1>10. ASSUME NEW th \in Threads, Report(th)
     PROVE  Fresh' /\ Owns' /\ Starting' /\ Tabled' /\ ReportIsAwaited'
  <2> DEFINE n == thread[th].tid
             s == closure[n].slot
  <2>1. /\ n \in Tids
        /\ s \in Slots
        /\ thread[th].at = "report"
        /\ s \in Finishers => client[s].at \in {"post", "wait"} /\ client[s].tid = n
        /\ n \notin task_table
        /\ \A o \in Threads \ {th} : thread[o].at = "report" => thread[o].tid # n
    BY <1>10, Typed DEF Report, ReportIsAwaited, Awaited, Tabled, TypeOK, Closure
  <2>2. /\ UNCHANGED <<tid_counter, closure, task_table, expired, posted, client>>
        /\ thread'[th] = IdleThread
        /\ \A o \in Threads \ {th} : thread'[o] = thread[o]
        /\ \A q \in Slots \ {s} : err'[q] = err[q]
    BY <1>10 DEF Report, TypeOK
  <2>9. Finishers' = Finishers
    BY <2>2, FinishersSame
  <2>3. Fresh'
    BY <2>2, <1>b DEF Fresh
  <2>4. Owns'
    BY <2>2 DEF Owns
  <2>5. Starting'
    BY <2>1, <2>2, <2>9, <1>b, Typed DEF Starting
  <2>6. \A t \in Tids \ {n} :
           closure[t].slot \in Finishers /\ Awaited(t) => Awaited(t)'
    BY <2>1, <2>2 DEF Awaited, TypeOK, Closure
  <2>7. Tabled'
    BY <2>1, <2>2, <2>6, <2>9, <1>b DEF Tabled, TypeOK
  <2>8. ReportIsAwaited'
    BY <2>1, <2>2, <2>6, <2>9, Typed DEF ReportIsAwaited
  <2> QED
    BY <2>3, <2>4, <2>5, <2>7, <2>8
<1>11. ASSUME NEW t \in Tids, Expire(t)
     PROVE  Fresh' /\ Owns' /\ Starting' /\ Tabled' /\ ReportIsAwaited'
  <2> USE <1>11 DEF Expire
  <2>0. Finishers' = Finishers
    BY FinishersSame
  <2>1. Fresh'
    BY Typed, <1>b DEF Fresh, TypeOK
  <2>2. Owns'
    BY Typed, <1>b DEF Owns, TypeOK
  <2>3. Starting'
    BY <2>0, Typed, <1>b DEF Starting, TypeOK
  <2>4. Tabled'
    BY <2>0, Typed, <1>b DEF Tabled, Awaited, TypeOK
  <2>5. ReportIsAwaited'
    BY <2>0, Typed, <1>b DEF ReportIsAwaited, Awaited, TypeOK
  <2> QED
    BY <2>1, <2>2, <2>3, <2>4, <2>5
<1>12. ASSUME WatchTasks
     PROVE  Fresh' /\ Owns' /\ Starting' /\ Tabled' /\ ReportIsAwaited'
  <2> USE <1>12 DEF WatchTasks
  <2>0. Finishers' = Finishers
    BY FinishersSame
  <2>1. Fresh'
    BY Typed, <1>b DEF Fresh, TypeOK
  <2>2. Owns'
    BY Typed, <1>b DEF Owns, TypeOK
  <2>3. Starting'
    BY <2>0, Typed, <1>b DEF Starting, TypeOK
  <2>4. Tabled'
    BY <2>0, Typed, <1>b DEF Tabled, Awaited, TypeOK
  <2>5. ReportIsAwaited'
    BY <2>0, Typed, <1>b DEF ReportIsAwaited, Awaited, TypeOK
  <2> QED
    BY <2>1, <2>2, <2>3, <2>4, <2>5
<1>13. ASSUME UNCHANGED vars
      PROVE  Fresh' /\ Owns' /\ Starting' /\ Tabled' /\ ReportIsAwaited'
  <2>0. Finishers' = Finishers
    BY <1>13, FinishersSame DEF vars
  <2>1. Fresh' /\ Owns' /\ Starting'
    BY <1>13, <2>0 DEF vars, Fresh, Owns, Starting
  <2>2. Tabled'
    BY <1>13, <2>0 DEF vars, Tabled, Awaited
  <2>3. ReportIsAwaited'
    BY <1>13, <2>0 DEF vars, ReportIsAwaited, Awaited
  <2> QED
    BY <2>1, <2>2, <2>3
<1>14. ASSUME NEW th \in Threads, ReturnEarly(th)
     PROVE  Fresh' /\ Owns' /\ Starting' /\ Tabled' /\ ReportIsAwaited'
  <2> DEFINE s == closure[thread[th].tid].slot
  <2>1. /\ UNCHANGED <<tid_counter, closure, task_table, expired, posted, client>>
        /\ thread'[th] = IdleThread
        /\ \A o \in Threads \ {th} : thread'[o] = thread[o]
        /\ \A q \in Slots \ {s} : err'[q] = err[q]
    BY <1>14 DEF ReturnEarly, TypeOK
  <2>2. s \notin Finishers
    <3>1. thread[th].tid \in Tids /\ closure[thread[th].tid].mode \in EarlyModes
      BY <1>14, Typed DEF ReturnEarly, ModeOf
    <3>2. thread[th].tid < tid_counter
      BY <3>1 DEF Fresh, Tids, TypeOK
    <3> QED
      BY <3>1, <3>2 DEF Finishers
  <2>3. Finishers' = Finishers /\ Finishers \subseteq Slots
    BY <2>1, FinishersSame DEF Finishers
  <2>4. \A t \in Tids : closure[t].slot \in Finishers /\ Awaited(t) => Awaited(t)'
    BY <2>1, <2>2, <2>3 DEF Awaited
  <2>5. Fresh' /\ Owns'
    BY <2>1, <1>b DEF Fresh, Owns
  <2>6. Starting'
    BY <2>1, <2>2, <2>3, <1>b, Typed DEF Starting
  <2>7. Tabled'
    BY <2>1, <2>3, <2>4, <1>b DEF Tabled, TypeOK
  <2>8. ReportIsAwaited'
    BY <2>1, <2>3, <2>4, Typed DEF ReportIsAwaited
  <2> QED
    BY <2>5, <2>6, <2>7, <2>8
<1> QED
  BY <1>1, <1>2, <1>3, <1>4, <1>5, <1>6, <1>7, <1>8, <1>9, <1>10, <1>11, <1>12, <1>13,
     <1>14 DEF Next, Caller, Work, IInv

\* So it holds throughout.
LEMMA Invariance == Spec => []IInv
BY IInvInit, IInvStep, PTL DEF Spec

\* FinishTask hands the right to write *err to one thread, and only while the
\* caller is still in that very call: a late retry never writes into the next
\* call of a caller whose operations do not return early, whatever the other
\* callers do.
THEOREM ReportsAreAwaited == Spec => []ReportIsAwaited
<1>1. IInv => ReportIsAwaited
  BY DEF IInv
<1> QED
  BY <1>1, Invariance, PTL

\* The assertion of StartTask never fails, and no closure of a task can run
\* before the task is in the table, for all operations.
THEOREM StartTaskAssertion == Spec => []TidUnused
<1>1. IInv => TidUnused
  BY DEF IInv, Starting, TidUnused, Running
<1> QED
  BY <1>1, Invariance, PTL

-----------------------------------------------------------------------------
\* Only the Read in a CRead finishes a task without reporting it.
InnerIsCRead == \A th \in Threads : thread[th].at = "inner" => ModeOf(th) = "cr"

\* Every step keeps a call that is not answered in the table or with a thread
\* that is about to answer it.
LEMMA TrackedStep ==
  ASSUME IInv, InnerIsCRead, AwaitedIsTracked, [Next]_vars
  PROVE  InnerIsCRead' /\ AwaitedIsTracked'
<1> USE DEF callVars, tableVars, InnerIsCRead, ModeOf
<1>a. TypeOK /\ Fresh /\ Owns /\ Starting /\ Tabled /\ ReportIsAwaited
  BY DEF IInv
<1> USE <1>a DEF SlotOf, IdleThread, IdleClient
<1>b. NoTid \notin Tids
  BY DEF NoTid, Tids
<1>1. ASSUME NEW s \in Slots, NEW m \in Modes, Invoke(s, m)
     PROVE  InnerIsCRead' /\ AwaitedIsTracked'
  <2> USE <1>1 DEF Invoke
  <2>0. /\ tid_counter \in Tids
        /\ \A o \in Threads : thread[o].tid # tid_counter
        /\ \A o \in Slots : client[o].tid # tid_counter
        /\ \A t \in Tids \ {tid_counter} : closure'[t] = closure[t]
    BY BoundsAssumption DEF Fresh, Tids, TypeOK
  <2>1. InnerIsCRead'
    <3> SUFFICES ASSUME NEW o \in Threads, thread[o].at = "inner"
                 PROVE  closure'[thread[o].tid].mode = "cr"
      OBVIOUS
    <3>1. thread[o].tid \in Tids \ {tid_counter}
      BY <2>0, Typed
    <3> QED
      BY <3>1, <2>0
  <2>2. AwaitedIsTracked'
    <3> SUFFICES ASSUME NEW o \in Slots,
                        client'[o].at \in {"post", "wait"},
                        err'[o] = "pending",
                        closure'[client'[o].tid].mode # "cr"
                 PROVE  \/ client'[o].tid \in task_table
                        \/ \E th \in Threads : /\ thread[th].at = "report"
                                               /\ thread[th].tid = client'[o].tid
      BY DEF AwaitedIsTracked
    <3>1. o # s /\ client'[o] = client[o] /\ err'[o] = err[o]
      BY DEF TypeOK
    <3>2. client[o].tid \in Tids \ {tid_counter}
      BY <3>1, <2>0, Typed
    <3> QED
      BY <3>1, <3>2, <2>0 DEF AwaitedIsTracked
  <2> QED
    BY <2>1, <2>2
<1>2. ASSUME NEW s \in Slots, StartTask(s)
     PROVE  InnerIsCRead' /\ AwaitedIsTracked'
  <2> USE <1>2 DEF StartTask
  <2>1. InnerIsCRead'
    BY Typed DEF TypeOK, Closure
  <2>2. AwaitedIsTracked'
    BY Typed, <1>b DEF AwaitedIsTracked, TypeOK
  <2> QED
    BY <2>1, <2>2
<1>3. ASSUME NEW s \in Slots, Post(s)
     PROVE  InnerIsCRead' /\ AwaitedIsTracked'
  <2> USE <1>3 DEF Post
  <2>1. InnerIsCRead'
    BY Typed DEF TypeOK, Closure
  <2>2. AwaitedIsTracked'
    BY Typed, <1>b DEF AwaitedIsTracked, TypeOK
  <2> QED
    BY <2>1, <2>2
<1>4. ASSUME NEW s \in Slots, Observe(s)
     PROVE  InnerIsCRead' /\ AwaitedIsTracked'
  <2> USE <1>4 DEF Observe
  <2>1. InnerIsCRead'
    BY Typed DEF TypeOK, Closure
  <2>2. AwaitedIsTracked'
    BY Typed, <1>b DEF AwaitedIsTracked, TypeOK
  <2> QED
    BY <2>1, <2>2
<1>5. ASSUME NEW th \in Threads, NEW t \in Tids, Run(th, t)
     PROVE  InnerIsCRead' /\ AwaitedIsTracked'
  <2> USE <1>5 DEF Run
  <2>1. InnerIsCRead'
    BY Typed DEF TypeOK, Closure
  <2>2. AwaitedIsTracked'
    BY Typed, <1>b DEF AwaitedIsTracked, TypeOK
  <2> QED
    BY <2>1, <2>2
<1>6. ASSUME NEW th \in Threads, NEW r \in Results, Complete(th, r)
     PROVE  InnerIsCRead' /\ AwaitedIsTracked'
  <2> USE <1>6 DEF Complete, ModeOf
  <2>1. InnerIsCRead'
    BY Typed DEF TypeOK, Closure
  <2>2. AwaitedIsTracked'
    BY Typed, <1>b DEF AwaitedIsTracked, TypeOK
  <2> QED
    BY <2>1, <2>2
<1>7. ASSUME NEW th \in Threads, Hang(th)
     PROVE  InnerIsCRead' /\ AwaitedIsTracked'
  <2> USE <1>7 DEF Hang
  <2>1. InnerIsCRead'
    BY Typed DEF TypeOK, Closure
  <2>2. AwaitedIsTracked'
    BY Typed, <1>b DEF AwaitedIsTracked, TypeOK
  <2> QED
    BY <2>1, <2>2
<1>8. ASSUME NEW th \in Threads, FinishTask(th)
     PROVE  InnerIsCRead' /\ AwaitedIsTracked'
  <2> USE <1>8 DEF FinishTask, Erase
  <2>1. InnerIsCRead'
    BY Typed DEF TypeOK, Closure
  <2>2. AwaitedIsTracked'
    BY Typed, <1>b DEF AwaitedIsTracked, TypeOK
  <2> QED
    BY <2>1, <2>2
<1>9. ASSUME NEW th \in Threads, Report(th)
     PROVE  InnerIsCRead' /\ AwaitedIsTracked'
  <2>0. PICK n \in Tids : n = thread[th].tid
    BY <1>9, Typed DEF Report
  <2>1. InnerIsCRead'
    BY <1>9, Typed DEF Report, TypeOK
  <2>2. /\ UNCHANGED <<task_table, client, closure>>
        /\ \A o \in Threads \ {th} : thread'[o] = thread[o]
        /\ err' = [err EXCEPT ![closure[n].slot] = thread[th].r]
        /\ thread[th].r \in Results
    BY <1>9, <2>0, Typed DEF Report, TypeOK
  <2>3. ASSUME NEW s \in Slots, client[s].at \in {"post", "wait"}, err'[s] = "pending"
        PROVE  err[s] = "pending" /\ client[s].tid # n
    <3>1. client[s].tid = n => closure[n].slot = s
      BY <2>3 DEF Owns
    <3> QED
      BY <3>1, <2>2, <2>3 DEF Results, TypeOK
  <2>4. AwaitedIsTracked'
    BY <2>0, <2>2, <2>3 DEF AwaitedIsTracked
  <2> QED
    BY <2>1, <2>4
<1>10. ASSUME NEW t \in Tids, Expire(t)
     PROVE  InnerIsCRead' /\ AwaitedIsTracked'
  <2> USE <1>10 DEF Expire
  <2>1. InnerIsCRead'
    BY Typed DEF TypeOK, Closure
  <2>2. AwaitedIsTracked'
    BY Typed, <1>b DEF AwaitedIsTracked, TypeOK
  <2> QED
    BY <2>1, <2>2
<1>11. ASSUME WatchTasks
     PROVE  InnerIsCRead' /\ AwaitedIsTracked'
  <2> USE <1>11 DEF WatchTasks
  <2>1. InnerIsCRead'
    BY Typed DEF TypeOK, Closure
  <2>2. AwaitedIsTracked'
    BY Typed, <1>b DEF AwaitedIsTracked, TypeOK
  <2> QED
    BY <2>1, <2>2
<1>12. ASSUME UNCHANGED vars
     PROVE  InnerIsCRead' /\ AwaitedIsTracked'
  <2> USE <1>12 DEF vars
  <2>1. InnerIsCRead'
    BY Typed DEF TypeOK, Closure
  <2>2. AwaitedIsTracked'
    BY Typed, <1>b DEF AwaitedIsTracked, TypeOK
  <2> QED
    BY <2>1, <2>2
<1>13. ASSUME NEW th \in Threads, FinishInner(th)
     PROVE  InnerIsCRead' /\ AwaitedIsTracked'
  <2> USE <1>13 DEF FinishInner, Erase
  <2>1. InnerIsCRead'
    BY Typed DEF TypeOK, Closure
  <2>2. AwaitedIsTracked'
    BY Typed, <1>b DEF AwaitedIsTracked, TypeOK
  <2> QED
    BY <2>1, <2>2
<1>14. ASSUME NEW th \in Threads, ReturnEarly(th)
     PROVE  InnerIsCRead' /\ AwaitedIsTracked'
  <2>0. PICK n \in Tids : n = thread[th].tid
    BY <1>14, Typed DEF ReturnEarly
  <2>1. InnerIsCRead'
    BY <1>14, Typed DEF ReturnEarly, TypeOK
  <2>2. /\ UNCHANGED <<task_table, client, closure>>
        /\ \A o \in Threads \ {th} : thread'[o] = thread[o]
        /\ err' = [err EXCEPT ![closure[n].slot] = "fail"]
        /\ thread[th].at = "running"
    BY <1>14, <2>0 DEF ReturnEarly, TypeOK
  <2>3. \A s \in Slots : err'[s] = "pending" => err[s] = "pending"
    BY <2>2 DEF TypeOK
  <2>4. AwaitedIsTracked'
    BY <2>2, <2>3 DEF AwaitedIsTracked
  <2> QED
    BY <2>1, <2>4
<1> QED
  BY <1>1, <1>2, <1>3, <1>4, <1>5, <1>6, <1>7, <1>8, <1>9, <1>10, <1>11, <1>12, <1>13,
     <1>14 DEF Next, Caller, Work

\* No call is lost: until the caller has its answer, WatchTasks finds the task
\* in the table or a thread is about to write the answer (all operations but
\* CRead).
THEOREM NoCallIsLost == Spec => []AwaitedIsTracked
<1>1. Init => InnerIsCRead /\ AwaitedIsTracked
  BY DEF Init, InnerIsCRead, AwaitedIsTracked, IdleThread, IdleClient
<1>2. IInv /\ InnerIsCRead /\ AwaitedIsTracked /\ [Next]_vars
         => InnerIsCRead' /\ AwaitedIsTracked'
  BY TrackedStep
<1> QED
  BY <1>1, <1>2, Invariance, PTL DEF Spec

-----------------------------------------------------------------------------
\* A step of the program is an Invoke, Answer or Collect of the asynchronous
\* interface, or leaves callers and result variables alone.
LEMMA AsyncStep ==
  ASSUME EarlyModes = {}, IInv, [Next]_vars
  PROVE  [Async!Next]_(Async!acvars)
<1> USE DEF callVars, tableVars
<1>a. TypeOK /\ Starting /\ ReportIsAwaited
  BY DEF IInv
<1> USE <1>a
<1>b. Finishers = Slots
  BY DEF Finishers
<1> DEFINE Same == UNCHANGED <<CallPhase, err>>
<1>1. ASSUME NEW s \in Slots, NEW m \in Modes, Invoke(s, m) PROVE Async!Invoke(s)
  <2>1. client' = [client EXCEPT ![s] = [at |-> "start", tid |-> tid_counter]]
    BY <1>1 DEF Invoke
  <2>2. err' = [err EXCEPT ![s] = "pending"] /\ client[s].at = "idle"
    BY <1>1 DEF Invoke
  <2>3. CallPhase[s] = "idle"
    BY <2>2 DEF CallPhase
  <2>4. CallPhase' = [CallPhase EXCEPT ![s] = "pending"]
    BY <2>1, <2>2 DEF CallPhase, TypeOK
  <2> QED
    BY <2>2, <2>3, <2>4 DEF Async!Invoke
<1>2. ASSUME NEW s \in Slots, StartTask(s) PROVE Same
  BY <1>2 DEF StartTask, CallPhase, TypeOK
<1>3. ASSUME NEW s \in Slots, Post(s) PROVE Same
  BY <1>3 DEF Post, CallPhase, TypeOK
<1>4. ASSUME NEW s \in Slots, Observe(s) PROVE Async!Collect(s)
  <2>1. /\ client' = [client EXCEPT ![s] = IdleClient]
        /\ client[s].at = "wait"
        /\ err[s] # "pending"
        /\ UNCHANGED err
    BY <1>4 DEF Observe
  <2>2. CallPhase[s] = "answered"
    BY <2>1 DEF CallPhase
  <2>3. CallPhase' = [CallPhase EXCEPT ![s] = "idle"]
    BY <2>1 DEF CallPhase, TypeOK, IdleClient
  <2> QED
    BY <2>1, <2>2, <2>3 DEF Async!Collect
<1>5. ASSUME NEW th \in Threads, Report(th)
      PROVE  \E s \in Slots, r \in Results : Async!Answer(s, r)
  <2>1. thread[th].r \in Results /\ thread[th].tid \in Tids
    BY <1>5, Typed DEF Report, IdleThread
  <2>2. PICK s \in Slots : s = SlotOf(thread[th].tid)
    BY <2>1 DEF SlotOf, TypeOK, Closure
  <2>3. client[s].at \in {"post", "wait"} /\ err[s] = "pending"
    BY <1>5, <2>2, <1>b DEF Report, ReportIsAwaited, Awaited
  <2>4. err' = [err EXCEPT ![s] = thread[th].r] /\ UNCHANGED client
    BY <1>5, <2>2 DEF Report
  <2>5. CallPhase[s] = "pending"
    BY <2>3 DEF CallPhase
  <2>6. CallPhase' = [CallPhase EXCEPT ![s] = "answered"]
    BY <2>1, <2>3, <2>4 DEF CallPhase, TypeOK, Results
  <2> QED
    BY <2>1, <2>4, <2>5, <2>6 DEF Async!Answer
<1>6. ASSUME UNCHANGED <<client, err>> PROVE Same
  BY <1>6 DEF CallPhase
<1>7. \/ \E s \in Slots : Async!Invoke(s) \/ Async!Collect(s)
      \/ \E s \in Slots, r \in Results : Async!Answer(s, r)
      \/ Same
  <2>1. CASE \E s \in Slots : Caller(s)
    BY <2>1, <1>1, <1>2, <1>3, <1>4 DEF Caller
  <2>2. CASE \E th \in Threads, t \in Tids : Run(th, t)
    BY <2>2, <1>6 DEF Run
  <2>3. CASE \E th \in Threads : Work(th) \/ Hang(th)
    BY <2>3, <1>5, <1>6 DEF Work, Hang, Complete, ReturnEarly, FinishInner, FinishTask
  <2>4. CASE (\E t \in Tids : Expire(t)) \/ WatchTasks \/ UNCHANGED vars
    BY <2>4, <1>6 DEF Expire, WatchTasks, vars
  <2> QED
    BY <2>1, <2>2, <2>3, <2>4 DEF Next
<1> QED
  BY <1>7 DEF Async!Next, Async!acvars

\* CreateAsync, MoveAsync, ReadAsync and CReadAsync, with all retries, touch a
\* result variable only to answer the call pending on it, once per call.
THEOREM ImplementsAsyncCall ==
  ASSUME EarlyModes = {} PROVE Spec => AsyncSpec
<1>1. Init => Async!Init
  BY DEF Init, Async!Init, CallPhase, IdleClient
<1>2. IInv /\ [Next]_vars => [Async!Next]_(Async!acvars)
  BY AsyncStep
<1> QED
  BY <1>1, <1>2, Invariance, PTL DEF Spec, AsyncSpec, Async!Spec
=============================================================================
