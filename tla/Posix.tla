-------------------------------- MODULE Posix --------------------------------
(***************************************************************************)
(* The calls of <semaphore.h> and <pthread.h> on which the programs under  *)
(* project2 block.  External: not part of the repository.  Nothing is      *)
(* assumed about which of the blocked threads gets through first.          *)
(***************************************************************************)
EXTENDS Integers

\* A semaphore is a natural number; sem_wait() blocks while it is 0.
sem_wait(sem) == sem > 0 /\ sem' = sem - 1

sem_post(sem) == sem' = sem + 1

\* A mutex holds its owner, or Unlocked.
Unlocked == "unlocked"

pthread_mutex_lock(mutex, t) == mutex = Unlocked /\ mutex' = t

pthread_mutex_unlock(mutex) == mutex' = Unlocked

\* A condition variable is the set of threads blocked on it.  A thread releases
\* the mutex and joins the set in one step; it leaves the set when signalled, or
\* for no reason at all (a spurious wakeup), and then locks the mutex again.
pthread_cond_wait(cond, mutex, t) ==
    /\ cond' = cond \cup {t}
    /\ pthread_mutex_unlock(mutex)

pthread_cond_signal(cond) ==
    \/ cond = {} /\ cond' = {}
    \/ \E t \in cond : cond' = cond \ {t}

SpuriousWakeup(cond) == \E t \in cond : cond' = cond \ {t}
=============================================================================
