-------------------------- MODULE MCEventDispatch ---------------------------
(* EventDispatch on a small instance: two buckets for three keys, so that   *)
(* one chat has a mutex to itself and the other shares one with "".        *)
EXTENDS EventDispatch, TLC, Integers

CONSTANTS c1, c2

MCKeys == {c1, c2, NoKey}
MCHash == (c1 :> 0) @@ (c2 :> 1) @@ (NoKey :> 1)
=============================================================================
