--------------------------- MODULE HashedKeyMutex ---------------------------
(***************************************************************************)
(* hashedKeyMutex (internal/common/key_mutex.go): a fixed set of mutexes,  *)
(* the key's hash choosing one.  The holder of a mutex is recorded for the *)
(* properties only; as in sync.Mutex, nobody checks who unlocks.           *)
(***************************************************************************)
CONSTANTS Keys,              \* the strings that are locked
          Buckets,           \* the indexes of km.mutexes
          hash,              \* fnv32a of a key modulo len(km.mutexes)
          Free               \* a mutex nobody holds

ASSUME HashAssumption == hash \in [Keys -> Buckets]

VARIABLE mutexes

InitMutexes == mutexes = [b \in Buckets |-> Free]

\* Mutant: a try-lock whose result is not looked at.
LockKeyUnawaited(id, g) == mutexes' = [mutexes EXCEPT ![hash[id]] = g]

LockKey(id, g) ==
    /\ mutexes[hash[id]] = Free
    /\ mutexes' = [mutexes EXCEPT ![hash[id]] = g]

\* Mutant: the mutex stays locked.
UnlockKeyNever(id) == UNCHANGED mutexes

UnlockKey(id) ==
    /\ mutexes[hash[id]] # Free       \* unlocking a free mutex is fatal
    /\ mutexes' = [mutexes EXCEPT ![hash[id]] = Free]
=============================================================================
