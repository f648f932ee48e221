------------------------------ MODULE ScopeLock ------------------------------
(***************************************************************************)
(* What the operation job table promises to the operator: each lock scope  *)
(* is held by at most one job, a job takes its scope once, and once it has *)
(* given the scope up it never comes back.                                 *)
(***************************************************************************)
EXTENDS Integers

CONSTANTS Job, LockScope, Free   \* Free is not a job

VARIABLES holder,   \* the job that holds each scope, or Free
          finished  \* the jobs that gave their scope up

vars == <<holder, finished>>

Init == holder = [s \in LockScope |-> Free] /\ finished = {}

Acquire(j, s) ==
  /\ holder[s] = Free
  /\ j \notin finished
  /\ \A t \in LockScope : holder[t] # j
  /\ holder' = [holder EXCEPT ![s] = j]
  /\ UNCHANGED finished

\* One transaction may end several jobs: the reaper does.
Release(S) ==
  /\ \A s \in S : holder[s] # Free
  /\ holder' = [s \in LockScope |-> IF s \in S THEN Free ELSE holder[s]]
  /\ finished' = finished \cup {holder[s] : s \in S}

Next == \/ \E j \in Job, s \in LockScope : Acquire(j, s)
        \/ \E S \in SUBSET LockScope : Release(S)

Spec == Init /\ [][Next]_vars
=============================================================================
