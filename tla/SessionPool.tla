----------------------------- MODULE SessionPool -----------------------------
(***************************************************************************)
(* The sessions of an ObjectMover (SessionPool in lib/object_mover.hpp)    *)
(* and its constructor, which starts the pool threads one by one and       *)
(* reserves a session for each after the thread has started.  An operation *)
(* gets the session of its thread with GetSession, which enters a null     *)
(* pointer for a thread that has none.                                     *)
(*                                                                         *)
(* The constructor makes as many sessions as threads, so that none is      *)
(* missing when it reserves.                                               *)
(***************************************************************************)
CONSTANTS Threads, Sessions, NoSession

VARIABLES started,      \* the threads that have started
          free,         \* the sessions of pool_ that are free
          reserve_map   \* [Threads -> the session reserved for it]

vars == <<started, free, reserve_map>>

Init == /\ started = {}
        /\ free = Sessions
        /\ reserve_map = [th \in Threads |-> NoSession]

Reserved(th) == reserve_map[th] # NoSession

\* boost::thread_group::create_thread, in the loop of the constructor; threads
\* and sessions are named in the order in which they come.
StartThread(th) ==
    /\ started # Threads
    /\ th = CHOOSE next \in Threads : next \notin started
    /\ \A other \in started : Reserved(other)
    /\ started' = started \cup {th}
    /\ UNCHANGED <<free, reserve_map>>

\* The first session of pool_ that is free.
FirstFree == CHOOSE s \in free : TRUE

\* A faulty variant: the session stays free.
ReserveSharedSession(th) ==
    /\ th \in started /\ ~ Reserved(th)
    /\ reserve_map' = [reserve_map EXCEPT ![th] = FirstFree]
    /\ UNCHANGED <<started, free>>

ReserveSession(th) ==
    /\ th \in started /\ ~ Reserved(th)
    /\ free # {}
    /\ free' = free \ {FirstFree}
    /\ reserve_map' = [reserve_map EXCEPT ![th] = FirstFree]
    /\ UNCHANGED started

GetSession(th) == reserve_map[th]

\* The constructor has returned.
Ready == \A th \in Threads : Reserved(th)

Next == \E th \in Threads : StartThread(th) \/ ReserveSession(th)
==============================================================================
