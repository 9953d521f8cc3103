------------------------ MODULE EventDispatchProofs -------------------------
(***************************************************************************)
(* Proofs about EventDispatch, for any events, chats, buckets and hash:    *)
(* types, who holds which mutex, and that the buckets implement a lock per *)
(* chat.                                                                   *)
(***************************************************************************)
EXTENDS EventDispatch, TLAPS

\* The inductive invariant.
Inv == TypeOK /\ BucketInv

\* The initial states satisfy it.
LEMMA InitInv == Init => Inv
  BY DispatchAssumption, HashAssumption
     DEF Init, Inv, TypeOK, BucketInv, NoEvent, InitMutexes, Holding, Types,
         Messages, Recalls, Meta

\* What an event can be has the type of an event.
LEMMA PossibleType ==
  ASSUME TypeOK, NEW v \in Possible
  PROVE  /\ v \in [type : Types, chat : Keys, target : Events \cup {Free}]
         /\ v.type # "none"
<1>1. ASSUME NEW m \in Events, event[m].type \in Messages
      PROVE  RecallOf(event[m].type) \in Recalls
  BY <1>1 DEF RecallOf, Messages, Recalls
<1> QED
  BY <1>1, DispatchAssumption
     DEF TypeOK, Possible, PossibleRecalls, Types, Messages, Recalls, Meta

\* Every step keeps types and mutex holders.
LEMMA NextInv == Inv /\ [Next]_vars => Inv'
<1> SUFFICES ASSUME Inv, [Next]_vars PROVE Inv'
  OBVIOUS
<1> USE HashAssumption, DispatchAssumption
    DEF Inv, TypeOK, BucketInv, Holding, Goto, getEventKey
<1>1. ASSUME NEW e \in Events, ReadEvent(e) PROVE Inv'
  <2>1. PICK v \in Possible : event' = [event EXCEPT ![e] = v]
    BY <1>1 DEF ReadEvent
  <2>2. /\ v \in [type : Types, chat : Keys, target : Events \cup {Free}]
        /\ v.type # "none"
    BY PossibleType
  <2> QED
    BY <1>1, <2>1, <2>2 DEF ReadEvent
<1>2. ASSUME NEW e \in Events, Lock(e) PROVE Inv'
  <2>1. /\ pc[e] = "lock" /\ pc' = [pc EXCEPT ![e] = "handle"]
        /\ UNCHANGED <<event, sent, lost>>
        /\ mutexes[hash[event[e].chat]] = Free
        /\ mutexes' = [mutexes EXCEPT ![hash[event[e].chat]] = e]
    BY <1>2 DEF Lock, LockKey
  <2>2. hash[event[e].chat] \in Buckets
    OBVIOUS
  <2>3. TypeOK'
    BY <2>1, <2>2
  <2>4. BucketInv'
    BY <2>1, <2>2
  <2> QED
    BY <2>3, <2>4
<1>3. ASSUME NEW e \in Events,
             Handle(e) \/ Transmit(e) \/ TransmitFails(e)
      PROVE  Inv'
  <2>1. PICK to \in {"transmit", "unlock"} :
            /\ pc[e] \in {"handle", "transmit"}
            /\ pc' = [pc EXCEPT ![e] = to]
            /\ UNCHANGED <<event, mutexes>>
    BY <1>3 DEF Handle, Transmit, TransmitFails
  <2>2. /\ sent' = sent \/ sent' = Append(sent, e)
        /\ lost' = lost \/ lost' = lost \cup {e}
    BY <1>3 DEF Handle, Transmit, TransmitFails
  <2>3. sent' \in Seq(Events)
    BY <2>2
  <2>4. TypeOK'
    BY <2>1, <2>2, <2>3
  <2>5. BucketInv'
    BY <2>1
  <2> QED
    BY <2>4, <2>5
<1>4. ASSUME NEW e \in Events, Unlock(e) PROVE Inv'
  BY <1>4 DEF Unlock, UnlockKey
<1>5. CASE UNCHANGED vars
  BY <1>5 DEF vars
<1> QED
  BY <1>1, <1>2, <1>3, <1>4, <1>5 DEF Next, handleEvent, Terminated

\* Every variable keeps its type.
THEOREM TypeCorrect == Spec => []TypeOK
<1>1. Inv => TypeOK
  BY DEF Inv
<1> QED
  BY <1>1, InitInv, NextInv, PTL DEF Spec

\* A mutex is always held by the goroutine that locked it.
THEOREM BucketCorrect == Spec => []BucketInv
<1>1. Inv => BucketInv
  BY DEF Inv
<1> QED
  BY <1>1, InitInv, NextInv, PTL DEF Spec

\* What TransmittedOnce rests on: an event is lost by its own transmission,
\* and a lifecycle event never comes to be transmitted.
FateInv ==
    /\ TransmittedOnce
    /\ \A e \in lost : pc[e] \in {"unlock", "done"}
    /\ \A e \in Events : pc[e] = "transmit" => event[e].type # "lifecycle"

\* A step that leaves sent and lost alone keeps FateInv, unless it takes an
\* event past its transmission.
LEMMA FateKept ==
  ASSUME Inv, Inv', FateInv, NEW e \in Events, UNCHANGED <<sent, lost>>,
         \A f \in Events \ {e} : pc'[f] = pc[f] /\ event'[f] = event[f],
         \/ pc'[e] \in {"unread", "lock", "handle"} /\ pc[e] \notin {"unlock", "done"}
         \/ pc'[e] = "transmit" /\ pc[e] = "handle" /\ event'[e].type # "lifecycle"
         \/ pc'[e] = "unlock" /\ pc[e] = "handle" /\ event'[e].type = "lifecycle"
         \/ pc'[e] = "done" /\ pc[e] = "unlock" /\ event'[e] = event[e]
  PROVE  FateInv'
<1>1. \A f \in lost : f \in Events /\ pc'[f] \in {"unlock", "done"}
  BY DEF Inv, TypeOK, FateInv
<1>2. \A f \in Events :
          (\E k \in DOMAIN sent : sent[k] = f) <=>
              /\ pc'[f] \in {"unlock", "done"}
              /\ f \notin lost
              /\ event'[f].type # "lifecycle"
  BY DEF FateInv, TransmittedOnce
<1>3. TransmittedOnce'
  BY <1>2 DEF FateInv, TransmittedOnce
<1>4. \A f \in Events : pc'[f] = "transmit" => event'[f].type # "lifecycle"
  BY DEF FateInv
<1> QED
  BY <1>1, <1>3, <1>4 DEF FateInv

\* An event that was read is transmitted once, and nothing else is.
THEOREM TransmittedOnceCorrect == Spec => []TransmittedOnce
<1>1. Init => FateInv
  BY DEF Init, FateInv, TransmittedOnce
<1>2. Inv /\ Inv' /\ FateInv /\ [Next]_vars => FateInv'
  <2> SUFFICES ASSUME Inv, Inv', FateInv, [Next]_vars PROVE FateInv'
    OBVIOUS
  <2>1. ASSUME NEW e \in Events, ReadEvent(e) PROVE FateInv'
    <3>1. /\ pc[e] = "unread" /\ pc'[e] = "lock"
          /\ \A f \in Events \ {e} : pc'[f] = pc[f] /\ event'[f] = event[f]
          /\ UNCHANGED <<sent, lost>>
      BY <2>1 DEF ReadEvent, Goto, Inv, TypeOK
    <3> QED
      BY <3>1, FateKept
  <2>2. ASSUME NEW e \in Events, Lock(e) \/ Handle(e) \/ Unlock(e)
        PROVE  FateInv'
    <3>1. /\ \A f \in Events \ {e} : pc'[f] = pc[f] /\ event'[f] = event[f]
          /\ event'[e] = event[e]
          /\ UNCHANGED <<sent, lost>>
      BY <2>2 DEF Lock, Handle, Unlock, Goto, Inv, TypeOK
    <3>2. \/ pc[e] = "lock" /\ pc'[e] = "handle"
          \/ /\ pc[e] = "handle" /\ pc'[e] = "transmit"
             /\ event[e].type # "lifecycle"
          \/ /\ pc[e] = "handle" /\ pc'[e] = "unlock"
             /\ event[e].type = "lifecycle"
          \/ pc[e] = "unlock" /\ pc'[e] = "done"
      BY <2>2 DEF Lock, Handle, Unlock, Goto, Inv, TypeOK
    <3> QED
      BY <3>1, <3>2, FateKept
  <2>3. ASSUME NEW e \in Events, Transmit(e) PROVE FateInv'
    <3>1. /\ pc[e] = "transmit" /\ pc' = [pc EXCEPT ![e] = "unlock"]
          /\ sent' = Append(sent, e) /\ UNCHANGED <<event, lost>>
      BY <2>3 DEF Transmit, Goto
    <3>2. /\ e \notin lost /\ event[e].type # "lifecycle"
          /\ \A k \in DOMAIN sent : sent[k] # e
      BY <3>1 DEF FateInv, TransmittedOnce
    <3>3. /\ DOMAIN sent' = DOMAIN sent \cup {Len(sent) + 1}
          /\ \A k \in DOMAIN sent : sent'[k] = sent[k]
          /\ sent'[Len(sent) + 1] = e
          /\ Len(sent) + 1 \notin DOMAIN sent
      BY <3>1 DEF Inv, TypeOK
    <3>4. \A j, k \in DOMAIN sent' : sent'[j] = sent'[k] => j = k
      BY <3>2, <3>3 DEF FateInv, TransmittedOnce
    <3>5. \A f \in Events :
              (\E k \in DOMAIN sent' : sent'[k] = f) <=>
                  f = e \/ \E k \in DOMAIN sent : sent[k] = f
      BY <3>3
    <3>6. /\ pc'[e] = "unlock"
          /\ \A f \in Events \ {e} : pc'[f] = pc[f]
      BY <3>1 DEF Inv, TypeOK
    <3>7. TransmittedOnce'
      BY <3>1, <3>2, <3>4, <3>5, <3>6 DEF FateInv, TransmittedOnce
    <3> QED
      BY <3>1, <3>6, <3>7 DEF FateInv, Inv, TypeOK
  <2>4. ASSUME NEW e \in Events, TransmitFails(e) PROVE FateInv'
    <3>1. /\ pc[e] = "transmit" /\ pc' = [pc EXCEPT ![e] = "unlock"]
          /\ lost' = lost \cup {e} /\ UNCHANGED <<event, sent>>
      BY <2>4 DEF TransmitFails, Goto
    <3>2. /\ pc'[e] = "unlock"
          /\ \A f \in Events \ {e} : pc'[f] = pc[f]
      BY <3>1 DEF Inv, TypeOK
    <3>3. \A k \in DOMAIN sent : sent[k] # e
      BY <3>1 DEF FateInv, TransmittedOnce
    <3>4. TransmittedOnce'
      BY <3>1, <3>2, <3>3 DEF FateInv, TransmittedOnce
    <3> QED
      BY <3>1, <3>2, <3>4 DEF FateInv, Inv, TypeOK
  <2>5. CASE UNCHANGED vars
    BY <2>5 DEF vars, FateInv, TransmittedOnce
  <2> QED
    BY <2>1, <2>2, <2>3, <2>4, <2>5 DEF Next, handleEvent, Terminated
<1>3. FateInv => TransmittedOnce
  BY DEF FateInv
<1> QED
  BY <1>1, <1>2, <1>3, InitInv, NextInv, PTL DEF Spec

\* The buckets implement a lock per chat, whatever the hash.
THEOREM Refinement == Spec => Implements
<1> USE HashAssumption, DispatchAssumption
<1>1. Init => Chat!Init
  BY DEF Init, Chat!Init, Holders, Holding
<1>2. Inv /\ [Next]_vars => [Chat!Next]_Holders
  <2> SUFFICES ASSUME Inv, [Next]_vars PROVE [Chat!Next]_Holders
    OBVIOUS
  <2> USE DEF Inv, TypeOK, Goto, getEventKey
  <2>1. ASSUME NEW e \in Events, ReadEvent(e) PROVE UNCHANGED Holders
    BY <2>1 DEF ReadEvent, Holders, Holding
  <2>2. ASSUME NEW e \in Events, Lock(e) PROVE Chat!Next
    <3>1. \A f \in Events : <<event[e].chat, f>> \notin Holders
      BY <2>2 DEF Lock, LockKey, BucketInv, Holders
    <3>2. Holders' = Holders \cup {<<event[e].chat, e>>}
      BY <2>2 DEF Lock, Holders, Holding
    <3>3. Chat!Acquire(event[e].chat, e)
      BY <3>1, <3>2 DEF Chat!Acquire
    <3> QED
      BY <3>3 DEF Chat!Next
  <2>3. ASSUME NEW e \in Events,
               Handle(e) \/ Transmit(e) \/ TransmitFails(e)
        PROVE  UNCHANGED Holders
    BY <2>3 DEF Handle, Transmit, TransmitFails, Holders, Holding
  <2>4. ASSUME NEW e \in Events, Unlock(e) PROVE Chat!Next
    <3>1. <<event[e].chat, e>> \in Holders
      BY <2>4 DEF Unlock, Holders, Holding
    <3>2. Holders' = Holders \ {<<event[e].chat, e>>}
      BY <2>4 DEF Unlock, Holders, Holding
    <3>3. Chat!Release(event[e].chat, e)
      BY <3>1, <3>2 DEF Chat!Release
    <3> QED
      BY <3>3 DEF Chat!Next
  <2>5. CASE UNCHANGED vars
    BY <2>5 DEF vars, Holders, Holding
  <2> QED
    BY <2>1, <2>2, <2>3, <2>4, <2>5 DEF Next, handleEvent, Terminated
<1> QED
  BY <1>1, <1>2, InitInv, NextInv, PTL DEF Spec, Implements, Chat!Spec
=============================================================================
