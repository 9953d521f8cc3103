---------------------------- MODULE RequestReply ----------------------------
(***************************************************************************)
(* What Client.request promises to the handlers that call it, with no      *)
(* echo, waiter table, channel or goroutine in sight: a call is pending    *)
(* until it is resolved once, either with an answer NapCat gave to this    *)
(* very call after having received it, or by giving up.                    *)
(***************************************************************************)

CONSTANT Calls               \* the invocations of Client.request

VARIABLES status,            \* what the caller knows of each call
          received,          \* the calls whose request reached NapCat
          answers            \* <<call, verdict>>: the answers NapCat gave

vars == <<status, received, answers>>

Verdict == {"ok", "failed"}

Init ==
    /\ status = [r \in Calls |-> "idle"]
    /\ received = {}
    /\ answers = {}

Submit(r) ==
    /\ status[r] = "idle"
    /\ status' = [status EXCEPT ![r] = "pending"]
    /\ UNCHANGED <<received, answers>>

Receive(r) ==
    /\ status[r] = "pending"
    /\ received' = received \cup {r}
    /\ UNCHANGED <<status, answers>>

Answer(r, v) ==
    /\ r \in received
    /\ answers' = answers \cup {<<r, v>>}
    /\ UNCHANGED <<status, received>>

Resolve(r, v) ==
    /\ status[r] = "pending"
    /\ <<r, v>> \in answers
    /\ status' = [status EXCEPT ![r] = v]
    /\ UNCHANGED <<received, answers>>

GiveUp(r) ==
    /\ status[r] = "pending"
    /\ status' = [status EXCEPT ![r] = "error"]
    /\ UNCHANGED <<received, answers>>

Next ==
    \E r \in Calls :
        \/ Submit(r)
        \/ Receive(r)
        \/ GiveUp(r)
        \/ \E v \in Verdict : Answer(r, v) \/ Resolve(r, v)

Spec == Init /\ [][Next]_vars
=============================================================================
