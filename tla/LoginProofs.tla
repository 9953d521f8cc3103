---------------------------- MODULE LoginProofs -----------------------------
(***************************************************************************)
(* Proofs about Login, for any set of requests: the inductive invariant,   *)
(* and that a request nothing went wrong for succeeds.                     *)
(***************************************************************************)
EXTENDS Login, TLAPS

\* The initial state satisfies the inductive invariant.
LEMMA InitIInv == Init => IInv
  BY LoginAssumption
     DEF Init, IInv, TypeOK, PlaceInv, LockInv, RetryInv, UntroubledSucceeds,
         Logins

\* A request that begins, takes the lock, sends a call or ends.
LEMMA OwnStepIInv ==
  ASSUME IInv, NEW g \in Requests,
         Begin(g) \/ LockInstance(g) \/ Send(g) \/ Reply(g) \/ Panic(g)
  PROVE  IInv'
<1> USE LoginAssumption
    DEF IInv, TypeOK, webui, Goto, Methods, Logins, Calls
<1>1. CASE Begin(g)
  <2>1. TypeOK' /\ PlaceInv'
    BY <1>1 DEF Begin, PlaceInv
  <2>2. LockInv'
    BY <1>1 DEF Begin, LockInv
  <2>3. RetryInv' /\ UntroubledSucceeds'
    BY <1>1 DEF Begin, PlaceInv, RetryInv, UntroubledSucceeds
  <2> QED
    BY <2>1, <2>2, <2>3
<1>2. CASE LockInstance(g)
  <2>1. TypeOK' /\ PlaceInv'
    BY <1>2 DEF LockInstance, PlaceInv
  <2>2. LockInv'
    BY <1>2 DEF LockInstance, PlaceInv, LockInv
  <2>3. RetryInv' /\ UntroubledSucceeds'
    BY <1>2 DEF LockInstance, PlaceInv, RetryInv, UntroubledSucceeds
  <2> QED
    BY <2>1, <2>2, <2>3
<1>3. CASE Send(g)
  <2>1. trouble \subseteq trouble'
    BY <1>3 DEF Send
  <2>2. TypeOK' /\ PlaceInv' /\ LockInv' /\ UntroubledSucceeds'
    BY <1>3, <2>1 DEF Send, Reads, PlaceInv, LockInv, UntroubledSucceeds
  <2>3. RetryInv'
    BY <1>3, <2>1 DEF Send, Reads, RetryInv, Retrying
  <2> QED
    BY <2>2, <2>3
<1>4. CASE Reply(g)
  BY <1>4 DEF Reply, PlaceInv, LockInv, RetryInv, UntroubledSucceeds
<1>5. CASE Panic(g)
  <2>1. instanceLock = g
    BY <1>5 DEF Panic, PlaceInv, LockInv
  <2>2. TypeOK' /\ PlaceInv'
    BY <1>5 DEF Panic, PlaceInv
  <2>3. LockInv'
    BY <1>5, <2>1 DEF Panic, LockInv
  <2>4. RetryInv' /\ UntroubledSucceeds'
    BY <1>5 DEF Panic, PlaceInv, RetryInv, UntroubledSucceeds
  <2> QED
    BY <2>2, <2>3, <2>4
<1> QED
  BY <1>1, <1>2, <1>3, <1>4, <1>5

\* A call ends: with the answer that was asked for, or with an error.
LEMMA AnswerIInv ==
  ASSUME IInv, NEW g \in Requests,
         Accepted(g) \/ Unauthorized(g) \/ Fails(g) \/ Blank(g)
  PROVE  IInv'
<1> USE LoginAssumption
    DEF IInv, TypeOK, webui, callUnchanged, Goto, Methods, Logins, Calls
<1>1. /\ pc[g] = "sent"
      /\ UNCHANGED <<callUnchanged>>
      /\ trouble \subseteq trouble' /\ told \subseteq told'
  BY DEF Accepted, Unauthorized, Fails, Blank
<1>2. TypeOK'
  BY <1>1 DEF Accepted, Unauthorized, Fails, Blank, CallFails, CheckedLogin,
              UpdatedConfig, GotLoginInfo, NextCall, Answer
<1>3. \/ /\ pc' = [pc EXCEPT ![g] = "auth"]
         /\ try[g] = 1
         /\ UNCHANGED <<api, try, answer, told>>
      \/ /\ pc' = [pc EXCEPT ![g] = "call"]
         /\ try' = [try EXCEPT ![g] = 1]
         /\ UNCHANGED answer
         /\ \/ /\ api[g] = "_checkLogin"
               /\ api' = [api EXCEPT ![g] = "_updateOB11Config"]
            \/ /\ api[g] = "_updateOB11Config"
               /\ api' = [api EXCEPT ![g] = "_getLoginInfo"]
               /\ g \in trouble' \/ g \in told'
      \/ /\ pc' = [pc EXCEPT ![g] = "reply"]
         /\ UNCHANGED <<api, try>>
         /\ \E a \in {"error", "not_yet", "complete", "user_info"} :
                /\ answer' = [answer EXCEPT ![g] = a]
                /\ a = "error" => g \in trouble'
                /\ a = "complete" => /\ method[g] \in Logins
                                     /\ api[g] = "_getLoginInfo"
  <2>1. CASE Accepted(g)
    BY <1>1, <2>1 DEF Accepted, CheckedLogin, UpdatedConfig, GotLoginInfo,
                      NextCall, Answer
  <2>2. CASE Unauthorized(g)
    <3>1. try[g] = 2 => g \in trouble
      BY <2>2 DEF Unauthorized, RetryInv
    <3> QED
      BY <1>1, <2>2, <3>1 DEF Unauthorized, CallFails, UpdatedConfig,
                              NextCall, Answer
  <2>3. CASE Fails(g)
    BY <1>1, <2>3 DEF Fails, CallFails, UpdatedConfig, NextCall, Answer
  <2>4. CASE Blank(g)
    BY <1>1, <2>4 DEF Blank, CheckedLogin, UpdatedConfig, GotLoginInfo,
                      NextCall, Answer
  <2> QED
    BY <2>1, <2>2, <2>3, <2>4
<1>4. PlaceInv'
  BY <1>1, <1>3 DEF PlaceInv
<1>5. LockInv'
  BY <1>1, <1>3 DEF LockInv
<1>6. RetryInv'
  BY <1>1, <1>3 DEF RetryInv
<1>7. UntroubledSucceeds'
  BY <1>1, <1>3 DEF UntroubledSucceeds, PlaceInv
<1> QED
  BY <1>2, <1>4, <1>5, <1>6, <1>7

\* auth() ends and its credential is stored, or the credentials expire.
LEMMA AuthIInv ==
  ASSUME IInv,
         \/ \E g \in Requests :
                \/ Authorized(g) \/ AuthorizedBlank(g) \/ AuthFails(g)
                \/ StoreBegins(g) \/ StoreEnds(g)
         \/ Expire
  PROVE  IInv'
<1> USE LoginAssumption
    DEF IInv, TypeOK, webui, requestVars, Goto, Methods, Logins, Calls
<1>1. ASSUME NEW g \in Requests, Authorized(g) PROVE IInv'
  <2>1. TypeOK'
    <3>1. accepted' \subseteq 1..issued'
      BY <1>1 DEF Authorized
    <3> QED
      BY <1>1, <3>1 DEF Authorized
  <2>2. PlaceInv' /\ LockInv' /\ UntroubledSucceeds'
    BY <1>1 DEF Authorized, PlaceInv, LockInv, UntroubledSucceeds
  <2>3. RetryInv'
    BY <1>1 DEF Authorized, RetryInv
  <2> QED
    BY <2>1, <2>2, <2>3
<1>2. ASSUME NEW g \in Requests, AuthorizedBlank(g) \/ AuthFails(g)
      PROVE  IInv'
  <2>1. TypeOK' /\ PlaceInv' /\ LockInv'
    <3>1. TypeOK'
      <4>1. CASE AuthorizedBlank(g)
        BY <4>1 DEF AuthorizedBlank
      <4>2. CASE AuthFails(g)
        BY <4>2 DEF AuthFails
      <4> QED
        BY <1>2, <4>1, <4>2
    <3>2. PlaceInv'
      BY <1>2 DEF AuthorizedBlank, AuthFails, PlaceInv
    <3>3. LockInv'
      BY <1>2 DEF AuthorizedBlank, AuthFails, LockInv
    <3> QED
      BY <3>1, <3>2, <3>3
  <2>2. RetryInv' /\ UntroubledSucceeds'
    BY <1>2 DEF AuthorizedBlank, AuthFails, RetryInv, UntroubledSucceeds
  <2> QED
    BY <2>1, <2>2
<1>3. ASSUME NEW g \in Requests, StoreBegins(g) \/ StoreEnds(g) PROVE IInv'
  <2>1. trouble \subseteq trouble'
    BY <1>3 DEF StoreBegins, StoreEnds, StoreTroubles
  <2>2. TypeOK' /\ PlaceInv' /\ LockInv' /\ UntroubledSucceeds'
    BY <1>3, <2>1 DEF StoreBegins, StoreEnds, StoreTroubles, PlaceInv,
                      LockInv, UntroubledSucceeds
  <2>3. RetryInv'
    BY <1>3 DEF StoreBegins, StoreEnds, StoreTroubles, RetryInv, Retrying
  <2> QED
    BY <2>2, <2>3
<1>4. CASE Expire
  <2>1. TypeOK' /\ PlaceInv' /\ LockInv' /\ UntroubledSucceeds'
    BY <1>4 DEF Expire, PlaceInv, LockInv, UntroubledSucceeds
  <2>2. RetryInv'
    BY <1>4 DEF Expire, RetryInv, Retrying
  <2> QED
    BY <2>1, <2>2
<1> QED
  BY <1>1, <1>2, <1>3, <1>4

\* Every step preserves the inductive invariant.
LEMMA NextIInv == IInv /\ [Next]_vars => IInv'
<1> SUFFICES ASSUME IInv, [Next]_vars PROVE IInv'
  OBVIOUS
<1>1. CASE UNCHANGED vars
  BY <1>1 DEF vars, requestVars, webui, IInv, TypeOK, PlaceInv, LockInv,
              RetryInv, UntroubledSucceeds
<1> QED
  BY <1>1, OwnStepIInv, AnswerIInv, AuthIInv DEF Next, Step,
     LocalStep, WebUIStep, Terminated

\* The inductive invariant holds in every reachable state.
THEOREM Inductive == Spec => []IInv
  BY InitIInv, NextIInv, PTL DEF Spec

\* A request nothing went wrong for succeeds, although others authenticate
\* at the same time, and a Login that completes has configured NapCat.
THEOREM UntroubledCorrect == Spec => []UntroubledSucceeds
<1>1. IInv => UntroubledSucceeds
  BY DEF IInv
<1> QED
  BY <1>1, Inductive, PTL
=============================================================================
