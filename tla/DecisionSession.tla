--------------------------- MODULE DecisionSession ---------------------------
(***************************************************************************)
(* What the fair interface promises of every State object a Python caller  *)
(* holds: it stands at one decision, named by a revision, and it moves     *)
(* only by one choice of the list shown there, to a successor that can be  *)
(* shown, under the next revision.  Whatever threads, batches and refused  *)
(* requests there are, nothing else ever happens to it.                    *)
(***************************************************************************)
EXTENDS PublicGame

VARIABLE env     \* env[h]: the environment behind handle h

Init == env = [h \in Handles |-> Absent]

New(h) ==
  /\ env[h] = Absent
  /\ \E s \in Initial : env' = [env EXCEPT ![h] = At(s, 0)]

Clone(h, copy) ==
  /\ env[h] # Absent /\ env[copy] = Absent
  /\ env' = [env EXCEPT ![copy] = env[h]]

SyntheticRoot(h, copy) ==
  /\ env[h] # Absent /\ env[copy] = Absent
  /\ env[h].revision < MaxRevision
  /\ \E s \in Roots[env[h].state] \intersect Projectable :
       env' = [env EXCEPT ![copy] = At(s, env[h].revision + 1)]

Advance(h) ==
  /\ env[h] # Absent
  /\ env[h].revision < MaxRevision
  /\ \E c \in Range(Legal[env[h].state]) :
       /\ Successor[env[h].state][c] \in Projectable
       /\ env' = [env EXCEPT
                    ![h] = At(Successor[env[h].state][c], env[h].revision + 1)]

Next ==
  \E h \in Handles :
    \/ New(h)
    \/ Advance(h)
    \/ \E copy \in Handles : Clone(h, copy) \/ SyntheticRoot(h, copy)

Spec == Init /\ [][Next]_env
==============================================================================
