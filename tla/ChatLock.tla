------------------------------ MODULE ChatLock ------------------------------
(***************************************************************************)
(* What KeyMutex promises (key_mutex.go "acquires a lock associated with   *)
(* the specified ID"), with no buckets in sight: a lock per key, held by   *)
(* at most one goroutine at a time.                                        *)
(***************************************************************************)
CONSTANTS Keys, Goroutines

VARIABLE holders             \* {<<key, goroutine>>}: who holds which lock

Init == holders = {}

Acquire(k, g) ==
    /\ \A h \in Goroutines : <<k, h>> \notin holders
    /\ holders' = holders \cup {<<k, g>>}

Release(k, g) ==
    /\ <<k, g>> \in holders
    /\ holders' = holders \ {<<k, g>>}

Next == \E k \in Keys, g \in Goroutines : Acquire(k, g) \/ Release(k, g)

Spec == Init /\ [][Next]_holders
=============================================================================
