------------------------------ MODULE AsyncCall ------------------------------
(***************************************************************************)
(* What the asynchronous interface of the object mover promises to its     *)
(* callers, stated without threads, queues, tables or retries.             *)
(*                                                                         *)
(* A caller owns a result variable (the int *err of CreateAsync, MoveAsync *)
(* and the others).  It resets the variable, starts one call on it and     *)
(* polls it.  The library answers a call at most once, and touches the     *)
(* variable at no other time.                                              *)
(***************************************************************************)
CONSTANTS Slots,     \* the callers' result variables
          Results    \* the results a call can report

VARIABLES call,      \* [Slots -> {"idle", "pending", "answered"}]
          answer     \* [Slots -> Results \cup {"pending"}], the variable itself

acvars == <<call, answer>>

Init == /\ call = [s \in Slots |-> "idle"]
        /\ answer \in [Slots -> Results \cup {"pending"}]

\* The caller resets its variable and starts a call on it.
Invoke(s) == /\ call[s] = "idle"
             /\ call' = [call EXCEPT ![s] = "pending"]
             /\ answer' = [answer EXCEPT ![s] = "pending"]

\* The library reports the result r of the pending call.
Answer(s, r) == /\ call[s] = "pending"
                /\ call' = [call EXCEPT ![s] = "answered"]
                /\ answer' = [answer EXCEPT ![s] = r]

\* The caller sees that its variable is no longer pending.
Collect(s) == /\ call[s] = "answered"
              /\ call' = [call EXCEPT ![s] = "idle"]
              /\ UNCHANGED answer

Next == \E s \in Slots :
           \/ Invoke(s)
           \/ \E r \in Results : Answer(s, r)
           \/ Collect(s)

Spec == Init /\ [][Next]_acvars
==============================================================================
