-------------------------------- MODULE SemSet --------------------------------
(***************************************************************************)
(* One of the three System V semaphore sets the master creates and the     *)
(* users, nodes and block builders operate on through sem_reserve and      *)
(* sem_release (src/utils/sem.c).  The results of both calls are ignored   *)
(* by every caller, so a failing semop leaves the caller running.          *)
(*                                                                         *)
(* semaphores_init creates each set with one semaphore, whose only valid   *)
(* number is 0, and never gives it a value; every call of sem_reserve and  *)
(* sem_release in users.c and nodes.c names semaphore number 1.            *)
(***************************************************************************)
EXTENDS Integers

VARIABLE sem        \* the values of the set's semaphores

\* The nsems argument of the three semget calls.
SemNsems == 1

\* Mutant: the only semaphore the sets have is named.
SemNumZero == 0

\* The sem_num argument of every sem_reserve and sem_release call.
SemNum == 1

\* semget zeroes a new set, and nothing calls sem_set_val.
SemInit == sem = [num \in 0 .. SemNsems - 1 |-> 0]

\* semop with a number outside the set fails with EFBIG and never waits;
\* inside the set it waits until the value is positive.
SemReserve(num) ==
    \/ num \notin DOMAIN sem /\ UNCHANGED sem
    \/ /\ num \in DOMAIN sem
       /\ sem[num] > 0
       /\ sem' = [sem EXCEPT ![num] = @ - 1]

SemRelease(num) ==
    \/ num \notin DOMAIN sem /\ UNCHANGED sem
    \/ num \in DOMAIN sem /\ sem' = [sem EXCEPT ![num] = @ + 1]

===============================================================================
