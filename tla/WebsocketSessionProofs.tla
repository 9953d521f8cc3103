----------------------- MODULE WebsocketSessionProofs -----------------------
(***************************************************************************)
(* Proofs about WebsocketSession, for any sessions and writers.            *)
(***************************************************************************)
EXTENDS WebsocketSession, TLAPS

\* The initial states satisfy the inductive invariant.
LEMMA InitIInv == Init => IInv
  BY NoneAssumption DEF Init, IInv, TypeOK, NoSocketLeak, InstalledIsServed

\* Every step preserves the inductive invariant.
LEMMA NextIInv == IInv /\ [Next]_vars => IInv'
<1> SUFFICES ASSUME IInv, [Next]_vars PROVE IInv'
  OBVIOUS
<1> USE NoneAssumption
    DEF IInv, TypeOK, NoSocketLeak, InstalledIsServed, sessionVars,
        writerVars
<1>1. ASSUME NEW s \in Sessions, Upgrade(s) \/ Drop(s) PROVE IInv'
  BY <1>1 DEF Upgrade, Drop
<1>2. ASSUME NEW s \in Sessions, Install(s) PROVE IInv'
  BY <1>2 DEF Install, updateConn
<1>3. ASSUME NEW s \in Sessions, LoadConn(s) PROVE IInv'
  BY <1>3 DEF LoadConn
<1>4. ASSUME NEW s \in Sessions, ReadFrame(s) \/ ReadError(s) PROVE IInv'
  BY <1>4 DEF ReadFrame, ReadError
<1>5. ASSUME NEW s \in Sessions, Leave(s) PROVE IInv'
  BY <1>5 DEF Leave, updateConn
<1>6. ASSUME NEW w \in Writers, _request(w) PROVE IInv'
  BY <1>6 DEF _request, LockWrite, NotConnected, StartWrite, EndWrite
<1>7. CASE UNCHANGED vars
  BY <1>7 DEF vars
<1> QED
  BY <1>1, <1>2, <1>3, <1>4, <1>5, <1>6, <1>7
     DEF Next, ServeHTTP, Terminated

\* The inductive invariant holds in every reachable state.
THEOREM Inductive == Spec => []IInv
  BY InitIInv, NextIInv, PTL DEF Spec

\* Only the installed connection, and those about to be, are open.
THEOREM NoSocketLeakCorrect == Spec => []NoSocketLeak
<1>1. IInv => NoSocketLeak
  BY DEF IInv
<1> QED
  BY <1>1, Inductive, PTL

\* Writers write on a connection that is installed and open.
THEOREM WritesOnOpenCorrect == Spec => []WritesOnOpen
<1>1. IInv => WritesOnOpen
  BY DEF IInv, WritesOnOpen
<1> QED
  BY <1>1, Inductive, PTL

\* The installed connection has a session that will clear it.
THEOREM InstalledIsServedCorrect == Spec => []InstalledIsServed
<1>1. IInv => InstalledIsServed
  BY DEF IInv
<1> QED
  BY <1>1, Inductive, PTL
=============================================================================
