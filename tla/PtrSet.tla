-------------------------------- MODULE PtrSet --------------------------------
(***************************************************************************)
(* What JyNI.h expects of the pointer table: a set of the pointers that    *)
(* JyNI allocated dynamically, with membership queries.  JyHash.c keeps    *)
(* that exactly while its table has room.  An insertion that makes it grow *)
(* may come to nothing, and one whose growth starts over may cost one      *)
(* older member besides.                                                   *)
(***************************************************************************)
CONSTANT Ptrs

VARIABLES
  members,  \* the tracked pointers
  answer,   \* the last operation, its pointer and its result as a truth value
  growth    \* "none", "once", or "again" when growth has started over

vars == <<members, answer, growth>>

Init == members = {} /\ growth = "none"

Insert(p) ==
  /\ answer' = <<"insert", p, p \notin members>>
  /\ members' = members \cup {p}

Delete(p) ==
  /\ answer' = <<"delete", p, p \in members>>
  /\ members' = members \ {p}

Contains(p) ==
  /\ answer' = <<"contains", p, p \in members>>
  /\ UNCHANGED members

(* Without growth the table is the set. *)
Exact(p) ==
  /\ growth = "none" /\ UNCHANGED growth
  /\ Insert(p) \/ Delete(p) \/ Contains(p)

Grow ==
  /\ growth = "none" /\ growth' = "once"
  /\ UNCHANGED <<members, answer>>

StartOver ==
  /\ growth = "once" /\ growth' = "again"
  /\ UNCHANGED <<members, answer>>

(* The new member claims to be stored, but it or the older q may be gone. *)
Grown(p, q) ==
  /\ growth # "none" /\ growth' = "none"
  /\ p \notin members
  /\ answer' = <<"insert", p, TRUE>>
  /\ \E gone \in SUBSET (IF growth = "again" THEN {p, q} ELSE {p}) :
       members' = (members \cup {p}) \ gone

LossyNext ==
  \/ \E p \in Ptrs : Exact(p)
  \/ Grow \/ StartOver
  \/ \E p, q \in Ptrs : Grown(p, q)

LossySpec == Init /\ [][LossyNext]_vars
=============================================================================
