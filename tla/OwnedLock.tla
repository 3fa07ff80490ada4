------------------------------ MODULE OwnedLock ------------------------------
(***************************************************************************)
(* The lock that the interpreter needs: it has an owner, only the owner    *)
(* gives it back or changes the current thread state, and nobody gives it  *)
(* back while a thread state is current.                                   *)
(***************************************************************************)
CONSTANTS Threads, States, Null

VARIABLES
  holder,   \* the thread that owns the lock, or Null
  current   \* the current thread state

vars == <<holder, current>>

Init == holder = Null /\ current = Null

Take(t) == holder = Null /\ holder' = t /\ UNCHANGED current

Switch(t) == holder = t /\ UNCHANGED holder /\ current' \in States \cup {Null}

Give(t) == holder = t /\ holder' = Null /\ current = Null /\ UNCHANGED current

Next == \E t \in Threads : Take(t) \/ Switch(t) \/ Give(t)

Spec == Init /\ [][Next]_vars
=============================================================================
