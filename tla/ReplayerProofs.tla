--------------------------- MODULE ReplayerProofs ----------------------------
(***************************************************************************)
(* Proofs about Replayer, for any number of objects and result variables   *)
(* and any results of the calls.                                           *)
(***************************************************************************)
EXTENDS Replayer, TLAPS

-----------------------------------------------------------------------------
(* The inductive invariant.                                                *)

\* Where the client is tells what is left to hand out.
Progress == /\ pc \in {"scan", "submit"} => it \in Objects /\ done = 0
            /\ pc \in {"wait", "end"} => it = object_num + 1
            /\ pc = "submit" => j \in Slots /\ call[j] = "idle"

\* A variable says "pending" just while its call is.
Polled == \A s \in Slots : call[s] = "pending" <=> rets[s] = Pending

\* The calls in flight are for different objects, all handed out before.
InFlight ==
    /\ \A s \in Slots : call[s] = "pending" => waiting[s] \in 1 .. it - 1
    /\ \A s, u \in Slots : (call[s] = "pending" /\ call[u] = "pending" /\ s # u)
                              => waiting[s] # waiting[u]

\* What was handed out is served, or its call is in flight.
Accounted ==
    \A o \in Objects :
       served[o] = IF o < it /\ (\A s \in Slots : call[s] = "pending" => waiting[s] # o)
                   THEN 1 ELSE 0

\* A round of the wait loop that found all variables answered so far.
Counted == /\ pc = "wait" /\ done = j => \A s \in Slots : s < j => call[s] # "pending"
           /\ pc = "end" => \A s \in Slots : call[s] # "pending"

IInv == TypeOK /\ Progress /\ Polled /\ InFlight /\ Accounted /\ Counted

-----------------------------------------------------------------------------
\* The programs that there are, and what their variables can say.
LEMMA ModeFacts ==
  ASSUME TypeOK
  PROVE  /\ Pending \in Int
         /\ ~ Free(Pending)
         /\ mode = "read" => \A r \in ReadAnswers : r \in Int /\ r # Pending
         /\ mode # "read" => \A r \in WriteAnswers : r \in Int /\ r # Pending
BY ReplayerAssumption DEF TypeOK, Pending, Free

\* The invariant holds at the start.
LEMMA IInvInit == Init => IInv
<1> SUFFICES ASSUME Init PROVE IInv
  OBVIOUS
<1> USE ReplayerAssumption DEF Init, Slots, Objects, NoObject
<1>1. TypeOK
  BY DEF TypeOK
<1>2. Progress
  BY DEF Progress
<1>3. Polled
  BY DEF Polled, Pending
<1>4. InFlight
  BY DEF InFlight
<1>5. Accounted
  BY DEF Accounted
<1>6. Counted
  BY DEF Counted
<1> QED
  BY <1>1, <1>2, <1>3, <1>4, <1>5, <1>6 DEF IInv

\* Seeing an answer changes nothing for the calls that are pending.
LEMMA CollectFacts ==
  ASSUME TypeOK, NEW s \in Slots, Collect(s)
  PROVE  /\ call' \in [Slots -> {"idle", "pending", "answered"}]
         /\ \A u \in Slots : call'[u] = "pending" <=> call[u] = "pending"
         /\ call[s] # "pending" => call'[s] = "idle"
BY DEF TypeOK, Collect

\* What holds of the pending calls stays so if these stay the same.
LEMMA SamePending ==
  ASSUME IInv, UNCHANGED <<mode, it, rets, waiting, served>>,
         call' \in [Slots -> {"idle", "pending", "answered"}],
         \A u \in Slots : call'[u] = "pending" <=> call[u] = "pending"
  PROVE  Polled' /\ InFlight' /\ Accounted'
<1>1. Polled'
  BY DEF IInv, Polled, Pending
<1>2. InFlight'
  BY DEF IInv, InFlight
<1>3. Accounted'
  BY DEF IInv, Accounted
<1> QED
  BY <1>1, <1>2, <1>3

\* The scan finds a free variable.
LEMMA ScanFreeStep == ASSUME IInv, ScanFree PROVE IInv'
<1> USE ReplayerAssumption
<1>1. j \in Slots /\ Free(rets[j]) /\ Collect(j)
  BY DEF ScanFree, IInv, TypeOK, Slots
<1>2. call[j] # "pending"
  BY <1>1, ModeFacts DEF IInv, Polled
<1>3. /\ call' \in [Slots -> {"idle", "pending", "answered"}]
      /\ \A u \in Slots : call'[u] = "pending" <=> call[u] = "pending"
      /\ call'[j] = "idle"
  BY <1>1, <1>2, CollectFacts DEF IInv
<1>4. Polled' /\ InFlight' /\ Accounted'
  BY <1>3, SamePending DEF ScanFree
<1>5. TypeOK'
  BY <1>3 DEF ScanFree, IInv, TypeOK
<1>6. Progress'
  BY <1>1, <1>3 DEF ScanFree, IInv, Progress
<1>7. Counted'
  BY DEF ScanFree, Counted
<1> QED
  BY <1>4, <1>5, <1>6, <1>7 DEF IInv

\* The scan passes a variable in use, or begins anew.
LEMMA ScanUsedUpStep == ASSUME IInv, ScanUsedUp PROVE IInv'
<1> USE ReplayerAssumption
<1>1. Polled' /\ InFlight' /\ Accounted'
  BY SamePending DEF ScanUsedUp, IInv, TypeOK
<1>2. TypeOK'
  BY DEF ScanUsedUp, IInv, TypeOK, Progress
<1>3. Progress' /\ Counted'
  BY DEF ScanUsedUp, IInv, Progress, Counted
<1> QED
  BY <1>1, <1>2, <1>3 DEF IInv

\* The variable at j is free and goes to the next object.
LEMMA SubmitStep == ASSUME IInv, Submit PROVE IInv'
<1> USE ReplayerAssumption
<1>1. j \in Slots /\ call[j] = "idle" /\ it \in Objects /\ done = 0
  BY DEF Submit, IInv, Progress
<1>2. /\ call' = [call EXCEPT ![j] = "pending"] /\ call \in [Slots -> {"idle", "pending", "answered"}]
      /\ rets' = [rets EXCEPT ![j] = Pending] /\ rets \in [Slots -> Int]
      /\ waiting' = [waiting EXCEPT ![j] = it] /\ waiting \in [Slots -> Objects \cup {NoObject}]
      /\ it' = it + 1
      /\ UNCHANGED <<mode, done, served>>
  BY DEF Submit, IInv, TypeOK
<1>3. TypeOK'
  BY <1>1, <1>2, ModeFacts DEF Submit, IInv, TypeOK, Objects
<1>4. Progress'
  BY <1>1, <1>2 DEF Submit, Progress, Objects, IInv, TypeOK
<1>5. Polled'
  BY <1>1, <1>2 DEF IInv, Polled, Pending
<1>6. InFlight'
  <2>1. \A s \in Slots : call'[s] = "pending" => waiting'[s] \in 1 .. it' - 1
    BY <1>1, <1>2 DEF IInv, InFlight, Objects
  <2>2. \A s \in Slots \ {j} : call'[s] = "pending" =>
           call[s] = "pending" /\ waiting'[s] = waiting[s] /\ waiting[s] < it
    BY <1>1, <1>2 DEF IInv, InFlight, Objects
  <2>3. waiting'[j] = it /\ it \in Int
    BY <1>1, <1>2 DEF Objects
  <2>4. ASSUME NEW s \in Slots, NEW u \in Slots, call'[s] = "pending", call'[u] = "pending", s # u
        PROVE  waiting'[s] # waiting'[u]
    <3>1. CASE s = j
      BY <3>1, <2>2, <2>3, <2>4
    <3>2. CASE u = j
      BY <3>2, <2>2, <2>3, <2>4
    <3>3. CASE j \notin {s, u}
      BY <3>3, <2>2, <2>4 DEF IInv, InFlight
    <3> QED
      BY <3>1, <3>2, <3>3
  <2> QED
    BY <2>1, <2>4 DEF InFlight
<1>7. Accounted'
  <2> SUFFICES ASSUME NEW o \in Objects
               PROVE  served[o] = IF o < it + 1 /\ (\A s \in Slots : call'[s] = "pending" => waiting'[s] # o)
                                  THEN 1 ELSE 0
    BY <1>2 DEF Accounted
  <2>1. served[o] = IF o < it /\ (\A s \in Slots : call[s] = "pending" => waiting[s] # o) THEN 1 ELSE 0
    BY DEF IInv, Accounted
  <2>2. call'[j] = "pending" /\ waiting'[j] = it
    BY <1>1, <1>2
  <2>3. \A s \in Slots \ {j} : call'[s] = call[s] /\ waiting'[s] = waiting[s]
    BY <1>1, <1>2
  <2>4. CASE o < it
    <3>1. (\A s \in Slots : call'[s] = "pending" => waiting'[s] # o)
             <=> (\A s \in Slots : call[s] = "pending" => waiting[s] # o)
      BY <1>1, <2>2, <2>3, <2>4 DEF Objects
    <3>2. o < it + 1
      BY <1>1, <2>4 DEF Objects
    <3> QED
      BY <2>1, <2>4, <3>1, <3>2
  <2>5. CASE o = it
    BY <1>1, <2>1, <2>2, <2>5 DEF Objects
  <2>6. CASE o > it
    BY <1>1, <2>1, <2>6 DEF Objects
  <2> QED
    BY <1>1, <2>4, <2>5, <2>6 DEF Objects
<1>8. Counted'
  BY <1>1 DEF Submit, Counted, Slots
<1> QED
  BY <1>3, <1>4, <1>5, <1>6, <1>7, <1>8 DEF IInv

\* A variable that the wait loop finds answered stays so for the round.
LEMMA WaitLookStep == ASSUME IInv, WaitLook PROVE IInv'
<1> USE ReplayerAssumption
<1>1. j \in Slots /\ j' = j + 1 /\ done \in 0 .. j /\ j \in Nat
  BY DEF WaitLook, IInv, TypeOK, Slots
<1>2. /\ call' \in [Slots -> {"idle", "pending", "answered"}]
      /\ \A u \in Slots : call'[u] = "pending" <=> call[u] = "pending"
  BY <1>1, CollectFacts DEF WaitLook, IInv, TypeOK
<1>3. Polled' /\ InFlight' /\ Accounted'
  BY <1>2, SamePending DEF WaitLook
<1>4. TypeOK'
  BY <1>1, <1>2 DEF WaitLook, IInv, TypeOK, Slots
<1>5. Progress'
  BY DEF WaitLook, IInv, Progress
<1>6. Counted'
  <2> SUFFICES ASSUME done' = j', NEW s \in Slots, s < j' PROVE call'[s] # "pending"
    BY DEF WaitLook, Counted
  <2>1. Free(rets[j]) /\ done = j
    BY <1>1 DEF WaitLook
  <2>2. call[j] # "pending"
    BY <1>1, <2>1, ModeFacts DEF IInv, Polled
  <2>3. s < j \/ s = j
    BY <1>1 DEF Slots
  <2> QED
    BY <1>2, <2>1, <2>2, <2>3 DEF WaitLook, IInv, Counted
<1> QED
  BY <1>3, <1>4, <1>5, <1>6 DEF IInv

\* A round of the final wait ends.
LEMMA WaitRoundStep == ASSUME IInv, WaitRound PROVE IInv'
<1> USE ReplayerAssumption
<1>1. Polled' /\ InFlight' /\ Accounted'
  BY SamePending DEF WaitRound, IInv, TypeOK
<1>2. TypeOK' /\ Progress'
  BY DEF WaitRound, IInv, TypeOK, Progress
<1>3. Counted'
  BY DEF WaitRound, IInv, Counted, Slots
<1> QED
  BY <1>1, <1>2, <1>3 DEF IInv

\* The assertion on an answer fails.
LEMMA AbortStep == ASSUME IInv, Abort PROVE IInv'
<1>1. Polled' /\ InFlight' /\ Accounted'
  BY SamePending DEF Abort, IInv, TypeOK
<1>2. TypeOK' /\ Progress' /\ Counted'
  BY DEF Abort, IInv, TypeOK, Progress, Counted
<1> QED
  BY <1>1, <1>2 DEF IInv

\* An answer ends one call, and that call alone was for its object.
LEMMA AnswerStep == ASSUME IInv, NEW s \in Slots, Answer(s) PROVE IInv'
<1> USE ReplayerAssumption
<1>1. PICK r \in Int : r # Pending /\ rets' = [rets EXCEPT ![s] = r]
  BY ModeFacts DEF Answer, IInv
<1>2. /\ call[s] = "pending" /\ pc # "aborted"
      /\ call' = [call EXCEPT ![s] = "answered"] /\ call \in [Slots -> {"idle", "pending", "answered"}]
      /\ served' = [served EXCEPT ![waiting[s]] = @ + 1] /\ served \in [Objects -> Nat]
      /\ rets \in [Slots -> Int]
      /\ UNCHANGED <<mode, pc, it, j, done, waiting>>
  BY DEF Answer, IInv, TypeOK
<1>3. waiting[s] \in 1 .. it - 1 /\ waiting[s] \in Objects /\ it \in Int
  BY <1>2 DEF IInv, InFlight, TypeOK, Objects
<1>4. TypeOK'
  BY <1>1, <1>2, <1>3 DEF IInv, TypeOK
<1>5. Progress'
  BY <1>2 DEF IInv, Progress
<1>6. Polled'
  BY <1>1, <1>2 DEF IInv, Polled, Pending
<1>7. InFlight'
  BY <1>2 DEF IInv, InFlight
<1>8. Accounted'
  <2> SUFFICES ASSUME NEW o \in Objects
               PROVE  served'[o] = IF o < it /\ (\A u \in Slots : call'[u] = "pending" => waiting[u] # o)
                                   THEN 1 ELSE 0
    BY <1>2 DEF Accounted
  <2>1. served[o] = IF o < it /\ (\A u \in Slots : call[u] = "pending" => waiting[u] # o) THEN 1 ELSE 0
    BY DEF IInv, Accounted
  <2>2. CASE o = waiting[s]
    <3>1. served[o] = 0 /\ served'[o] = 1 /\ o < it
      BY <1>2, <1>3, <2>1, <2>2
    <3>2. \A u \in Slots : call'[u] = "pending" => waiting[u] # o
      BY <1>2, <2>2 DEF IInv, InFlight
    <3> QED
      BY <3>1, <3>2
  <2>3. CASE o # waiting[s]
    <3>1. served'[o] = served[o]
      BY <1>2, <1>3, <2>3
    <3>2. (\A u \in Slots : call'[u] = "pending" => waiting[u] # o)
             <=> (\A u \in Slots : call[u] = "pending" => waiting[u] # o)
      BY <1>2, <2>3
    <3> QED
      BY <2>1, <3>1, <3>2
  <2> QED
    BY <2>2, <2>3
<1>9. Counted'
  BY <1>2 DEF IInv, Counted
<1> QED
  BY <1>4, <1>5, <1>6, <1>7, <1>8, <1>9 DEF IInv

\* Every step keeps the invariant.
LEMMA IInvStep == IInv /\ [Next]_vars => IInv'
<1> SUFFICES ASSUME IInv, [Next]_vars PROVE IInv'
  OBVIOUS
<1>1. CASE Client
  BY <1>1, ScanFreeStep, ScanUsedUpStep, SubmitStep, WaitLookStep, WaitRoundStep, AbortStep
  DEF Client
<1>2. CASE \E s \in Slots : Answer(s)
  BY <1>2, AnswerStep
<1>3. CASE UNCHANGED vars
  <2>1. Polled' /\ InFlight' /\ Accounted'
    BY <1>3, SamePending DEF vars, IInv, TypeOK
  <2>2. TypeOK' /\ Progress' /\ Counted'
    BY <1>3 DEF vars, IInv, TypeOK, Progress, Counted
  <2> QED
    BY <2>1, <2>2 DEF IInv
<1> QED
  BY <1>1, <1>2, <1>3 DEF Next

\* So it always holds.
LEMMA Invariance == Spec => []IInv
BY IInvInit, IInvStep, PTL DEF Spec

-----------------------------------------------------------------------------
\* Type correctness; in particular the count of answered variables never
\* exceeds those looked at in this round.
THEOREM TypeCorrect == Spec => []TypeOK
<1>1. IInv => TypeOK
  BY DEF IInv
<1> QED
  BY <1>1, Invariance, PTL

\* Every object of the list is served at most once, and exactly once when the
\* program ends, whatever the order of the answers.
THEOREM ObjectsServedOnce == Spec => []EachObjectOnce
<1>1. IInv => EachObjectOnce
  BY ReplayerAssumption DEF IInv, EachObjectOnce, Accounted, Counted, Progress, Objects
<1> QED
  BY <1>1, Invariance, PTL

-----------------------------------------------------------------------------
\* A step of the client or the library is one of the interface, or is none of
\* its business.
LEMMA InterfaceStep ==
  ASSUME IInv, [Next]_vars
  PROVE  [Interface!Next]_(Interface!acvars)
<1> DEFINE Same == UNCHANGED <<call, Answers>>
<1>1. ASSUME UNCHANGED <<mode, rets>> PROVE Answers' = Answers
  BY <1>1 DEF Answers, Pending, Free
<1>2. ASSUME NEW s \in Slots, Collect(s), UNCHANGED <<mode, rets>>
      PROVE  Interface!Collect(s) \/ Same
  <2>1. CASE call[s] = "answered"
    BY <1>1, <1>2, <2>1 DEF Collect, Interface!Collect
  <2>2. CASE call[s] # "answered"
    <3>1. call' = call
      BY <1>2, <2>2 DEF Collect, IInv, TypeOK
    <3> QED
      BY <1>1, <1>2, <3>1
  <2> QED
    BY <2>1, <2>2
<1>3. ASSUME Submit PROVE \E s \in Slots : Interface!Invoke(s)
  <2>1. PICK s \in Slots : s = j /\ call[s] = "idle"
    BY <1>3 DEF Submit, IInv, Progress
  <2>2. Answers' = [Answers EXCEPT ![s] = "pending"]
    BY <1>3, <2>1 DEF Submit, IInv, TypeOK, Answers, Pending, Free
  <2>3. call' = [call EXCEPT ![s] = "pending"]
    BY <1>3, <2>1 DEF Submit
  <2> QED
    BY <2>1, <2>2, <2>3 DEF Interface!Invoke
<1>4. ASSUME NEW s \in Slots, Answer(s)
      PROVE  \E r \in {"ok", "fail"} : Interface!Answer(s, r)
  <2>1. PICK ret \in Int : ret # Pending /\ rets' = [rets EXCEPT ![s] = ret]
    BY <1>4, ModeFacts DEF Answer, IInv
  <2>2. PICK r \in {"ok", "fail"} : r = IF Free(ret) THEN "ok" ELSE "fail"
    OBVIOUS
  <2>3. Answers' = [Answers EXCEPT ![s] = r]
    BY <1>4, <2>1, <2>2 DEF Answer, IInv, TypeOK, Answers, Pending, Free
  <2>4. call[s] = "pending" /\ call' = [call EXCEPT ![s] = "answered"]
    BY <1>4 DEF Answer
  <2> QED
    BY <2>3, <2>4 DEF Interface!Answer
<1>5. \/ \E s \in Slots : Interface!Collect(s) \/ Interface!Invoke(s)
      \/ \E s \in Slots, r \in {"ok", "fail"} : Interface!Answer(s, r)
      \/ Same
  <2>1. CASE ScanFree
    <3>1. j \in Slots
      BY <2>1, ReplayerAssumption DEF ScanFree, IInv, TypeOK, Slots
    <3> QED
      BY <2>1, <3>1, <1>2 DEF ScanFree
  <2>2. CASE WaitLook
    <3>1. j \in Slots
      BY <2>2, ReplayerAssumption DEF WaitLook, IInv, TypeOK, Slots
    <3> QED
      BY <2>2, <3>1, <1>1, <1>2 DEF WaitLook
  <2>3. CASE Submit
    BY <2>3, <1>3
  <2>4. CASE ScanUsedUp \/ WaitRound \/ Abort \/ UNCHANGED vars
    BY <2>4, <1>1 DEF ScanUsedUp, WaitRound, Abort, vars
  <2>5. CASE \E s \in Slots : Answer(s)
    BY <2>5, <1>4
  <2> QED
    BY <2>1, <2>2, <2>3, <2>4, <2>5 DEF Next, Client
<1> QED
  BY <1>5 DEF Interface!Next, Interface!acvars

\* The client keeps to the interface: no call on a variable whose last answer
\* it has not seen.
THEOREM KeepsToInterface == Spec => ClientSpec
<1>1. Init => Interface!Init
  BY ReplayerAssumption DEF Init, Interface!Init, Answers, Pending, Free
<1>2. IInv /\ [Next]_vars => [Interface!Next]_(Interface!acvars)
  BY InterfaceStep
<1> QED
  BY <1>1, <1>2, Invariance, PTL DEF Spec, ClientSpec, Interface!Spec
==============================================================================
