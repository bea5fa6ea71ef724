------------------------------ MODULE Replayer -------------------------------
(***************************************************************************)
(* The clients of benchmark/replayer.cpp: read, write and move hand every  *)
(* object of a list to the asynchronous interface, with thread_num calls   *)
(* in flight, each with a result variable of its own, and wait for all of  *)
(* them.  The variables are polled while the library writes them.          *)
(*                                                                         *)
(* The library is what AsyncCall promises (TaskManager implements it): it  *)
(* answers a pending call at any time, and only that.                      *)
(***************************************************************************)
EXTENDS Integers

CONSTANTS thread_num,    \* result variables, calls in flight
          object_num,    \* objects in the list
          Modes,         \* what the program is started for: "read", "write"
          ReadAnswers,   \* results of a read: bytes read, or an error
          WriteAnswers   \* results of a create or a move: 0, or an error

ASSUME ReplayerAssumption ==
          /\ thread_num \in Nat \ {0}
          /\ object_num \in Nat
          /\ Modes \subseteq {"read", "write"}
          /\ ReadAnswers \subseteq Int \ {0}
          /\ WriteAnswers \subseteq Int \ {1}

Slots == 0 .. thread_num - 1
Objects == 1 .. object_num
NoObject == 0

VARIABLES mode,      \* of the program
          pc,        \* "scan", "submit", "wait", "end", "aborted"
          it,        \* the object to hand out next
          j,         \* the result variable looked at
          done,      \* variables found answered in this round of the wait loop
          rets,      \* the result variables
          waiting,   \* [Slots -> the object of the call]
          call,      \* [Slots -> "idle", "pending", "answered"], the interface
          served     \* [Objects -> Nat], calls answered for each object

vars == <<mode, pc, it, j, done, rets, waiting, call, served>>

\* What a variable says: 0 is pending for read, success for write and move.
Pending == IF mode = "read" THEN 0 ELSE 1
Free(ret) == IF mode = "read" THEN ret > 0 ELSE ret = 0
Failed(ret) == ~ Free(ret) /\ ret # Pending

Init == /\ mode \in Modes
        /\ pc = IF object_num = 0 THEN "wait" ELSE "scan"
        /\ it = 1
        /\ j = 0
        /\ done = 0
        /\ rets = [s \in Slots |-> IF mode = "read" THEN 1 ELSE 0]
        /\ waiting = [s \in Slots |-> NoObject]
        /\ call = [s \in Slots |-> "idle"]
        /\ served = [o \in Objects |-> 0]

\* The caller has seen the answer in variable s, if there was a new one.
Collect(s) == call' = [call EXCEPT ![s] = IF @ = "answered" THEN "idle" ELSE @]

-----------------------------------------------------------------------------
(* Faulty variants of the definitions below: with each of them some        *)
(* property fails, which shows that the property depends on the code.      *)

\* A pending variable is taken for a free one.
ScanUsed == /\ pc = "scan"
            /\ j < thread_num
            /\ ~ Failed(rets[j])
            /\ pc' = "submit"
            /\ Collect(j)
            /\ UNCHANGED <<mode, it, j, done, rets, waiting, served>>

\* One answer ends the wait loop; the count goes on in the next round; and the
\* next round does not begin at the first variable.
WaitRoundAny == /\ pc = "wait"
                /\ j = thread_num
                /\ j' = 0
                /\ done' = 0
                /\ pc' = IF done > 0 THEN "end" ELSE "wait"
                /\ UNCHANGED <<mode, it, rets, waiting, call, served>>
WaitRoundOn == /\ pc = "wait"
               /\ j = thread_num
               /\ j' = 0
               /\ pc' = IF done = thread_num THEN "end" ELSE "wait"
               /\ UNCHANGED <<mode, it, done, rets, waiting, call, served>>
WaitRoundStuck == /\ pc = "wait"
                  /\ j = thread_num
                  /\ done' = 0
                  /\ pc' = IF done = thread_num THEN "end" ELSE "wait"
                  /\ UNCHANGED <<mode, it, j, rets, waiting, call, served>>

-----------------------------------------------------------------------------
(* The client                                                              *)

\* Look for a free variable for the next object; usleep and retry if there is
\* none.
ScanFree == /\ pc = "scan"
            /\ j < thread_num
            /\ Free(rets[j])
            /\ pc' = "submit"
            /\ Collect(j)
            /\ UNCHANGED <<mode, it, j, done, rets, waiting, served>>

ScanUsedUp == /\ pc = "scan"
              /\ \/ j < thread_num /\ rets[j] = Pending /\ j' = j + 1
                 \/ j = thread_num /\ j' = 0
              /\ UNCHANGED <<mode, pc, it, done, rets, waiting, call, served>>

\* Reset the variable and call ReadAsync, CreateAsync or MoveAsync.
Submit == /\ pc = "submit"
          /\ rets' = [rets EXCEPT ![j] = Pending]
          /\ waiting' = [waiting EXCEPT ![j] = it]
          /\ call' = [call EXCEPT ![j] = "pending"]
          /\ it' = it + 1
          /\ j' = 0
          /\ pc' = IF it = object_num THEN "wait" ELSE "scan"
          /\ UNCHANGED <<mode, done, served>>

\* The wait loop looks at all variables, round after round.
WaitLook == /\ pc = "wait"
            /\ j < thread_num
            /\ ~ Failed(rets[j])
            /\ j' = j + 1
            /\ done' = IF Free(rets[j]) THEN done + 1 ELSE done
            /\ IF Free(rets[j]) THEN Collect(j) ELSE UNCHANGED call
            /\ UNCHANGED <<mode, pc, it, rets, waiting, served>>

WaitRound == /\ pc = "wait"
             /\ j = thread_num
             /\ j' = 0
             /\ done' = 0
             /\ pc' = IF done = thread_num THEN "end" ELSE "wait"
             /\ UNCHANGED <<mode, it, rets, waiting, call, served>>

\* A failed call ends the program.
Abort == /\ pc \in {"scan", "wait"}
         /\ j < thread_num
         /\ Failed(rets[j])
         /\ pc' = "aborted"
         /\ UNCHANGED <<mode, it, j, done, rets, waiting, call, served>>

Client == ScanFree \/ ScanUsedUp \/ Submit \/ WaitLook \/ WaitRound \/ Abort

-----------------------------------------------------------------------------
\* The library answers the call in variable s.
Answer(s) ==
    /\ pc # "aborted"
    /\ call[s] = "pending"
    /\ \E r \in IF mode = "read" THEN ReadAnswers ELSE WriteAnswers :
          rets' = [rets EXCEPT ![s] = r]
    /\ call' = [call EXCEPT ![s] = "answered"]
    /\ served' = [served EXCEPT ![waiting[s]] = @ + 1]
    /\ UNCHANGED <<mode, pc, it, j, done, waiting>>

Next == Client \/ \E s \in Slots : Answer(s)

Spec == Init /\ [][Next]_vars

\* The client's thread runs, and TaskManager answers every call.
FairSpec == Spec /\ WF_vars(Client) /\ \A s \in Slots : WF_vars(Answer(s))

-----------------------------------------------------------------------------
(* Properties                                                              *)

TypeOK == /\ mode \in Modes
          /\ pc \in {"scan", "submit", "wait", "end", "aborted"}
          /\ it \in 1 .. object_num + 1
          /\ j \in 0 .. thread_num
          /\ done \in 0 .. j
          /\ rets \in [Slots -> Int]
          /\ waiting \in [Slots -> Objects \cup {NoObject}]
          /\ call \in [Slots -> {"idle", "pending", "answered"}]
          /\ served \in [Objects -> Nat]

\* Whatever the order of the answers, every object is served once, and all are
\* when the program ends and the result variables, the buffers and the
\* ObjectMover are destroyed.
EachObjectOnce ==
    /\ \A o \in Objects : served[o] <= 1
    /\ pc = "end" => \A o \in Objects : served[o] = 1

\* The result variables as the abstract interface has them.
Answers == [s \in Slots |-> IF rets[s] = Pending THEN "pending"
                            ELSE IF Free(rets[s]) THEN "ok" ELSE "fail"]

\* The program keeps to the interface: it starts a call on a variable only
\* after it has seen the answer to the call before.
Interface == INSTANCE AsyncCall WITH Results <- {"ok", "fail"}, answer <- Answers
ClientSpec == Interface!Spec

\* The program ends, or a call failed and it stops with abort().
ClientEnds == <>(pc \in {"end", "aborted"})
=============================================================================
