----------------------------- MODULE GraphMirror -----------------------------
(***************************************************************************)
(* What the Java heads owe Java's collector: of a mirrored container the   *)
(* Java side knows every reference it has.  Code that writes references    *)
(* without telling makes the mirror stale; before delayed finalizations    *)
(* are decided on, every container is checked, and repaired, and a missed  *)
(* reference anywhere forces the delay.                                    *)
(***************************************************************************)
CONSTANTS Containers, Items

VARIABLES
  refs,     \* the references a container has
  known,    \* those its head has links for, outdated ones included
  view,     \* "hidden" (not explored yet), "mirror" or "stale"
  busy,     \* a check is running
  left,     \* the containers it has yet to look at
  missed,   \* the running check found a reference that was not known
  forced    \* finalizations are delayed

vars  == <<refs, known, view, busy, left, missed, forced>>
check == <<busy, left, missed, forced>>

OthersSame(f, g, c) == \A o \in Containers \ {c} : g[o] = f[o]

Only(c) ==
  /\ OthersSame(refs, refs', c) /\ OthersSame(known, known', c) /\ OthersSame(view, view', c)

(* Native code changes references of c, and tells or does not tell. *)
Native(c) ==
  /\ Only(c) /\ UNCHANGED check
  /\ view'[c] = "hidden" <=> view[c] = "hidden"
  /\ view'[c] = "mirror" =>
       refs'[c] \subseteq known'[c] /\ known'[c] \subseteq known[c] \cup refs'[c]
  /\ view'[c] = "hidden" => known'[c] = known[c]

Explore(c) ==
  /\ Only(c) /\ UNCHANGED <<refs, check>>
  /\ view[c] = "hidden" /\ view'[c] # "hidden"
  /\ known'[c] = refs[c]

BeginCheck ==
  /\ ~busy /\ busy' = TRUE /\ left' = Containers
  /\ missed' = FALSE /\ forced' = FALSE
  /\ UNCHANGED <<refs, known, view>>

Check(c) ==
  /\ c \in left /\ left' = left \ {c}
  /\ Only(c) /\ UNCHANGED <<refs, busy, forced>>
  /\ missed' = (missed \/ ~(refs[c] \subseteq known[c]))
  /\ IF view[c] = "hidden"
       THEN view'[c] = "hidden" /\ known'[c] = known[c]
       ELSE /\ view'[c] # "hidden"
            /\ refs[c] \subseteq known'[c] /\ known'[c] \subseteq known[c] \cup refs[c]

(* A container that has no head yet is not looked at. *)
Skip(c) ==
  /\ c \in left /\ left' = left \ {c}
  /\ view[c] = "hidden"
  /\ UNCHANGED <<refs, known, view, busy, missed, forced>>

EndCheck ==
  /\ busy /\ left = {}
  /\ busy' = FALSE /\ forced' = missed /\ missed' = FALSE
  /\ UNCHANGED <<refs, known, view, left>>

Init ==
  /\ refs \in [Containers -> SUBSET Items]
  /\ known = [c \in Containers |-> {}]
  /\ view = [c \in Containers |-> "hidden"]
  /\ busy = FALSE /\ left = {} /\ missed = FALSE /\ forced = FALSE

Next ==
  \/ \E c \in Containers : Native(c) \/ Explore(c) \/ Check(c) \/ Skip(c)
  \/ BeginCheck \/ EndCheck

Spec == Init /\ [][Next]_vars
=============================================================================
