---------------------------- MODULE ClientProofs ----------------------------
(***************************************************************************)
(* Proofs about Client, for any events, calls, sessions and hash: what is   *)
(* proved of each part holds inside the whole; the parts keep together, and *)
(* a handler panics only with the answer to a call whose deadline passed;   *)
(* and a call that nothing disturbed is answered, or sees its deadline pass. *)
(***************************************************************************)
EXTENDS Client, TLAPS

\* The parts again, with the theorems about them.
DispatchThms == INSTANCE EventDispatchProofs WITH
    Keys <- Chats \cup {None}, NoKey <- None, Free <- None,
    event <- [e \in Events |->
                 IF pc[e] = "unread"
                 THEN [type |-> "none", chat |-> None, target |-> None]
                 ELSE [type |-> "group_message", chat |-> chatOf[e],
                       target |-> None]]

RPCThms == INSTANCE NapCatRPCProofs WITH
    Calls <- Callers, Handlers <- Callers, NoCall <- None, pc <- cpc

SocketThms == INSTANCE WebsocketSessionProofs WITH
    Writers <- Callers, pc <- spc
-----------------------------------------------------------------------------
(* What is proved of the parts: their inductive invariants.                *)

\* WebsocketSession keeps its invariant.
LEMMA SocketKeeps == Socket!IInv /\ [Socket!Next]_(Socket!vars) => Socket!IInv'
<1>1. SocketThms!NoneAssumption
  BY ClientAssumption DEF SocketThms!NoneAssumption, Callers
<1>2. SocketThms!IInv /\ [SocketThms!Next]_(SocketThms!vars)
          => SocketThms!IInv'
  BY <1>1, SocketThms!NextIInv
<1>3. /\ SocketThms!IInv <=> Socket!IInv
      /\ SocketThms!IInv' <=> Socket!IInv'
  BY Zenon DEF SocketThms!IInv, SocketThms!TypeOK, SocketThms!NoSocketLeak,
     SocketThms!InstalledIsServed, Socket!IInv, Socket!TypeOK,
     Socket!NoSocketLeak, Socket!InstalledIsServed
<1>4. SocketThms!Terminated <=> Socket!Terminated
  BY Zenon DEF SocketThms!Terminated, SocketThms!vars, SocketThms!sessionVars,
     SocketThms!writerVars, Socket!Terminated, Socket!vars,
     Socket!sessionVars, Socket!writerVars
<1>5. [SocketThms!Next]_(SocketThms!vars) <=> [Socket!Next]_(Socket!vars)
  BY <1>4 DEF SocketThms!Next, SocketThms!Upgrade, SocketThms!Drop,
     SocketThms!ServeHTTP, SocketThms!Install, SocketThms!LoadConn,
     SocketThms!ReadFrame, SocketThms!ReadError, SocketThms!Leave,
     SocketThms!updateConn, SocketThms!_request, SocketThms!LockWrite,
     SocketThms!NotConnected, SocketThms!StartWrite, SocketThms!EndWrite,
     SocketThms!vars, SocketThms!sessionVars, SocketThms!writerVars,
     Socket!Next, Socket!Upgrade, Socket!Drop, Socket!ServeHTTP,
     Socket!Install, Socket!LoadConn, Socket!ReadFrame, Socket!ReadError,
     Socket!Leave, Socket!updateConn, Socket!_request, Socket!LockWrite,
     Socket!NotConnected, Socket!StartWrite, Socket!EndWrite, Socket!vars,
     Socket!sessionVars, Socket!writerVars
<1>. QED  BY <1>2, <1>3, <1>5

\* NapCatRPC keeps its invariant.
LEMMA RPCKeeps == RPC!IInv /\ [RPC!Next]_(RPC!vars) => RPC!IInv'
<1>1. RPCThms!NoCallAssumption
  BY ClientAssumption DEF RPCThms!NoCallAssumption, Callers
<1>2. RPCThms!IInv /\ [RPCThms!Next]_(RPCThms!vars) => RPCThms!IInv'
  BY <1>1, RPCThms!NextIInv
<1>3. /\ RPCThms!IInv <=> RPC!IInv
      /\ RPCThms!IInv' <=> RPC!IInv'
  BY Zenon DEF RPCThms!IInv, RPCThms!TypeOK, RPCThms!EchoesDistinct,
     RPCThms!TableInv, RPCThms!ResponsesInv, RPCThms!ResultsInv,
     RPCThms!Registered, RPCThms!Response, RPCThms!NoResponse,
     RPCThms!Verdict, RPC!IInv, RPC!TypeOK, RPC!EchoesDistinct, RPC!TableInv,
     RPC!ResponsesInv, RPC!ResultsInv, RPC!Registered, RPC!Response,
     RPC!NoResponse, RPC!Verdict
<1>4. RPCThms!vars = RPC!vars /\ (UNCHANGED RPCThms!vars <=> UNCHANGED RPC!vars)
  BY Zenon DEF RPCThms!vars, RPCThms!callVars, RPCThms!handlerVars, RPC!vars,
     RPC!callVars, RPC!handlerVars
<1>5. RPCThms!Terminated <=> RPC!Terminated
  BY <1>4, Zenon DEF RPCThms!Terminated, RPCThms!Panicked,
     RPCThms!AllReturned, RPC!Terminated, RPC!Panicked, RPC!AllReturned
<1>6. ASSUME NEW r \in Callers
      PROVE  RPCThms!CallStep(r) <=> RPC!CallStep(r)
  BY Zenon DEF RPCThms!CallStep, RPCThms!TakeEcho,
     RPCThms!addWebsocketResponseWaiter, RPCThms!Written,
     RPCThms!WriteFails, RPCThms!ReceiveResponse, RPCThms!Timeout,
     RPCThms!RemoveWaiter, RPCThms!CloseWaiter, RPCThms!Leave,
     RPCThms!NoResponse, RPCThms!callVars, RPCThms!handlerVars,
     RPC!CallStep, RPC!TakeEcho, RPC!addWebsocketResponseWaiter,
     RPC!Written, RPC!WriteFails, RPC!ReceiveResponse, RPC!Timeout,
     RPC!RemoveWaiter, RPC!CloseWaiter, RPC!Leave, RPC!NoResponse,
     RPC!callVars, RPC!handlerVars
<1>7. ASSUME NEW h \in Callers
      PROVE  /\ RPCThms!ServeResponse(h) <=> RPC!ServeResponse(h)
             /\ RPCThms!HandlerStep(h) <=> RPC!HandlerStep(h)
  BY Zenon DEF RPCThms!ServeResponse, RPCThms!HandlerStep,
     RPCThms!LookupWaiter, RPCThms!SendResponse, RPCThms!Verdict,
     RPCThms!NoResponse, RPCThms!callVars, RPC!ServeResponse,
     RPC!HandlerStep, RPC!LookupWaiter, RPC!SendResponse, RPC!Verdict,
     RPC!NoResponse, RPC!callVars
<1>8. RPCThms!Panicked <=> RPC!Panicked
  BY Zenon DEF RPCThms!Panicked, RPC!Panicked
<1>9. [RPCThms!Next]_(RPCThms!vars) <=> [RPC!Next]_(RPC!vars)
  BY <1>4, <1>5, <1>6, <1>7, <1>8, Zenon DEF RPCThms!Next, RPC!Next
<1>. QED  BY <1>2, <1>3, <1>9

DispatchInv == Dispatch!TypeOK /\ Dispatch!BucketInv

\* EventDispatch keeps its invariant.
LEMMA DispatchKeeps ==
  DispatchInv /\ [Dispatch!Next]_(Dispatch!vars) => DispatchInv'
<1>1. DispatchThms!DispatchAssumption /\ DispatchThms!HashAssumption
  BY ClientAssumption
     DEF DispatchThms!DispatchAssumption, DispatchThms!HashAssumption
<1>2. DispatchThms!Inv /\ [DispatchThms!Next]_(DispatchThms!vars)
          => DispatchThms!Inv'
  BY <1>1, DispatchThms!NextInv
<1>3. /\ DispatchThms!Inv <=> DispatchInv
      /\ DispatchThms!Inv' <=> DispatchInv'
  BY Zenon
     DEF DispatchThms!Inv, DispatchInv, DispatchThms!TypeOK,
         DispatchThms!BucketInv, DispatchThms!Types, DispatchThms!Messages,
         DispatchThms!Recalls, DispatchThms!Meta, DispatchThms!Holding,
         DispatchThms!getEventKey, Dispatch!TypeOK, Dispatch!BucketInv,
         Dispatch!Types, Dispatch!Messages, Dispatch!Recalls, Dispatch!Meta,
         Dispatch!Holding, Dispatch!getEventKey
<1>4. UNCHANGED DispatchThms!vars <=> UNCHANGED Dispatch!vars
  BY Zenon DEF DispatchThms!vars, Dispatch!vars
<1>5. DispatchThms!Terminated <=> Dispatch!Terminated
  BY <1>4, Zenon DEF DispatchThms!Terminated, Dispatch!Terminated
<1>6. ASSUME DispatchInv, NEW e \in Events, Dispatch!ReadEvent(e)
      PROVE  DispatchThms!ReadEvent(e)
  <2>. DEFINE v == [type |-> "group_message", chat |-> chatOf[e],
                    target |-> None]
              eventOf == [f \in Events |->
                  IF pc[f] = "unread"
                  THEN [type |-> "none", chat |-> None, target |-> None]
                  ELSE [type |-> "group_message", chat |-> chatOf[f],
                        target |-> None]]
  <2>1. /\ pc[e] = "unread" /\ pc' = [pc EXCEPT ![e] = "lock"]
        /\ UNCHANGED <<sent, lost, mutexes>>
    BY <1>6 DEF Dispatch!ReadEvent, Dispatch!Goto
  <2>2. v \in DispatchThms!Possible
    <3>1. chatOf[e] \in Chats
      BY ClientAssumption
    <3>2. "group_message" \in DispatchThms!Messages
      BY DEF DispatchThms!Messages
    <3>3. v \in {[type |-> t, chat |-> c, target |-> None] :
                     t \in DispatchThms!Messages, c \in Chats}
      BY <3>1, <3>2
    <3>. HIDE DEF v
    <3>. QED  BY <3>3 DEF DispatchThms!Possible
  <2>3. eventOf' = [eventOf EXCEPT ![e] = v]
    BY <1>6, <2>1 DEF DispatchInv, Dispatch!TypeOK
  <2>. QED
    BY <2>1, <2>2, <2>3 DEF DispatchThms!ReadEvent, DispatchThms!Goto
<1>7. ASSUME NEW e \in Events
      PROVE  DispatchThms!handleEvent(e) <=> Dispatch!handleEvent(e)
  BY Zenon
     DEF DispatchThms!handleEvent, DispatchThms!Goto, DispatchThms!Lock,
         DispatchThms!Handle, DispatchThms!Transmit,
         DispatchThms!TransmitFails, DispatchThms!Unlock,
         DispatchThms!LockKey, DispatchThms!UnlockKey,
         DispatchThms!getEventKey, Dispatch!handleEvent, Dispatch!Goto,
         Dispatch!Lock, Dispatch!Handle, Dispatch!Transmit,
         Dispatch!TransmitFails, Dispatch!Unlock, Dispatch!LockKey,
         Dispatch!UnlockKey, Dispatch!getEventKey
<1>8. DispatchInv /\ [Dispatch!Next]_(Dispatch!vars)
          => [DispatchThms!Next]_(DispatchThms!vars)
  BY <1>4, <1>5, <1>6, <1>7, Zenon DEF DispatchThms!Next, Dispatch!Next
<1>. QED  BY <1>2, <1>3, <1>8
-----------------------------------------------------------------------------
(* Each step of the whole is a step of each part, or none of it.           *)

\* Every step is one of WebsocketSession or leaves its variables alone.
LEMMA SocketSteps == [Next]_vars => [Socket!Next]_(Socket!vars)
<1>. SUFFICES ASSUME [Next]_vars PROVE [Socket!Next]_(Socket!vars)
  OBVIOUS
<1>1. ASSUME UNCHANGED sessionVars PROVE UNCHANGED Socket!vars
  BY <1>1 DEF sessionVars, Socket!vars, Socket!sessionVars, Socket!writerVars
<1>2. ASSUME NEW s \in Sessions,
             \/ Upgrade(s) \/ Drop(s) \/ Replace(s) \/ LoadConn(s) \/ ReadError(s)
             \/ \E e \in Events : ServeEvent(s, e)
             \/ \E c \in Callers : ServeAnswer(s, c)
      PROVE  Socket!Next
  BY <1>2 DEF Upgrade, Drop, Replace, LoadConn, ReadError, ServeEvent,
     ServeAnswer, Socket!Next, Socket!ServeHTTP
<1>3. ASSUME NEW c \in Callers,
             LockWrite(c) \/ NotConnected(c) \/ WriteDone(c) \/ WriteError(c)
      PROVE  Socket!Next
  BY <1>3 DEF LockWrite, NotConnected, WriteDone, WriteError, Socket!Next,
     Socket!_request
<1>4. ASSUME NEW c \in Callers,
             \/ HandlerStep(c) \/ Begin(c) \/ Expire(c) \/ Timeout(c)
             \/ CallStep(c)
      PROVE  UNCHANGED sessionVars
  BY <1>4 DEF HandlerStep, Begin, Expire, Timeout, CallStep
<1>5. ASSUME NEW e \in Events, handleEvent(e)
      PROVE  UNCHANGED sessionVars
  BY <1>5 DEF handleEvent
<1>6. CASE UNCHANGED vars
  BY <1>1, <1>6 DEF vars
<1>. QED
  BY <1>1, <1>2, <1>3, <1>4, <1>5, <1>6 DEF Next, request, Proceed, Terminated

\* Every step is one of EventDispatch or leaves its variables alone.
LEMMA DispatchSteps == [Next]_vars => [Dispatch!Next]_(Dispatch!vars)
<1>. SUFFICES ASSUME [Next]_vars PROVE [Dispatch!Next]_(Dispatch!vars)
  OBVIOUS
<1>1. ASSUME UNCHANGED eventVars PROVE UNCHANGED Dispatch!vars
  BY <1>1 DEF eventVars, Dispatch!vars
<1>2. ASSUME NEW s \in Sessions,
             \/ Upgrade(s) \/ Drop(s) \/ Replace(s) \/ LoadConn(s) \/ ReadError(s)
             \/ \E c \in Callers : ServeAnswer(s, c)
      PROVE  UNCHANGED eventVars
  BY <1>2 DEF Upgrade, Drop, Replace, LoadConn, ReadError, ServeAnswer
<1>3. ASSUME NEW s \in Sessions, NEW e \in Events, ServeEvent(s, e)
      PROVE  Dispatch!Next
  BY <1>3 DEF ServeEvent, Dispatch!Next
<1>4. ASSUME NEW c \in Callers, HandlerStep(c) \/ request(c)
      PROVE  UNCHANGED eventVars
  BY <1>4 DEF HandlerStep, request, Proceed, Begin, Expire, LockWrite,
     NotConnected, WriteDone, WriteError, Timeout, CallStep
<1>5. ASSUME NEW e \in Events, handleEvent(e)
      PROVE  Dispatch!Next
  BY <1>5 DEF handleEvent, Dispatch!Next, Dispatch!handleEvent
<1>6. CASE UNCHANGED vars
  BY <1>1, <1>6 DEF vars
<1>. QED
  BY <1>1, <1>2, <1>3, <1>4, <1>5, <1>6 DEF Next, Terminated

\* Every step is one of NapCatRPC or leaves its variables alone.
LEMMA RPCSteps == [Next]_vars => [RPC!Next]_(RPC!vars)
<1>. SUFFICES ASSUME [Next]_vars PROVE [RPC!Next]_(RPC!vars)
  OBVIOUS
<1>1. ASSUME UNCHANGED callVars PROVE UNCHANGED RPC!vars
  BY <1>1 DEF callVars, RPC!vars, RPC!callVars, RPC!handlerVars
<1>3. ASSUME NEW s \in Sessions,
             \/ Upgrade(s) \/ Drop(s) \/ Replace(s) \/ LoadConn(s) \/ ReadError(s)
             \/ \E e \in Events : ServeEvent(s, e)
      PROVE  UNCHANGED callVars
  BY <1>3 DEF Upgrade, Drop, Replace, LoadConn, ReadError, ServeEvent
<1>4. ASSUME ~RPC!Panicked, NEW s \in Sessions, NEW c \in Callers,
             ServeAnswer(s, c)
      PROVE  RPC!Next
  BY <1>4 DEF ServeAnswer, RPC!Next
<1>5. ASSUME ~RPC!Panicked, NEW c \in Callers, HandlerStep(c)
      PROVE  RPC!Next
  BY <1>5 DEF HandlerStep, RPC!Next
<1>6. ASSUME ~RPC!Panicked, NEW c \in Callers,
             \/ Begin(c) \/ NotConnected(c) \/ WriteDone(c) \/ WriteError(c)
             \/ Timeout(c) \/ CallStep(c)
      PROVE  RPC!Next
  BY <1>6 DEF Begin, NotConnected, WriteDone, WriteError, Timeout,
     CallStep, RPC!Next, RPC!CallStep
<1>7. ASSUME NEW c \in Callers, LockWrite(c) \/ Expire(c)
      PROVE  UNCHANGED callVars
  BY <1>7 DEF LockWrite, Expire
<1>8. ASSUME NEW e \in Events, handleEvent(e)
      PROVE  UNCHANGED callVars
  BY <1>8 DEF handleEvent
<1>9. CASE UNCHANGED vars
  BY <1>1, <1>9 DEF vars
<1>. QED
  BY <1>1, <1>3, <1>4, <1>5, <1>6, <1>7, <1>8, <1>9
     DEF Next, request, Proceed, Terminated

\* The parts keep their invariants in the whole.
LEMMA PartsKept == IInv /\ [Next]_vars => PartsInv'
  BY SocketSteps, SocketKeeps, DispatchSteps, DispatchKeeps, RPCSteps, RPCKeeps
     DEF IInv, PartsInv, DispatchInv
-----------------------------------------------------------------------------
(* What is new in the whole: calls, answers, and who is disturbed.          *)

\* Calls and events are the names of the parts' goroutines.
LEMMA Names ==
  /\ None \notin Callers /\ None \notin Sessions
  /\ Media \subseteq Callers
  /\ \A c \in Callers : c \in Events => c \in Media
  BY ClientAssumption DEF Callers

\* Every step keeps a call and its event together.
LEMMA CallKept == IInv /\ [Next]_vars => CallInv'
<1>. SUFFICES ASSUME IInv, [Next]_vars PROVE CallInv'
  OBVIOUS
<1>. USE Names DEF IInv, CallInv, InFlight
<1>a. /\ pc \in [Events -> {"unread", "lock", "handle", "transmit", "unlock",
                            "done"}]
      /\ cpc \in [Callers -> {"new", "register", "write", "wait", "remove",
                              "close", "returned"}]
      /\ wpc \in [Callers -> {"lock", "check", "write", "done"}]
  BY DEF PartsInv, Dispatch!TypeOK, RPC!IInv, RPC!TypeOK, Socket!IInv,
     Socket!TypeOK
<1>b. Media \subseteq Events
  BY ClientAssumption
<1>1. ASSUME NEW s \in Sessions,
             \/ Upgrade(s) \/ Drop(s) \/ Replace(s) \/ LoadConn(s) \/ ReadError(s)
             \/ \E c \in Callers : ServeAnswer(s, c)
      PROVE  CallInv'
  <2>1. UNCHANGED <<pc, cpc, wpc>>
    BY <1>1 DEF Upgrade, Drop, Replace, LoadConn, ReadError, ServeAnswer,
       eventVars, callVars, Socket!Upgrade, Socket!Drop, Socket!Install,
       Socket!Leave, Socket!LoadConn, Socket!ReadError, Socket!ReadFrame,
       Socket!sessionVars, Socket!writerVars, RPC!ServeResponse,
       RPC!callVars
  <2>. QED  BY <2>1
<1>2. ASSUME NEW s \in Sessions, NEW e \in Events, ServeEvent(s, e)
      PROVE  CallInv'
  BY <1>2, <1>a, <1>b DEF ServeEvent, callVars, Socket!ReadFrame,
     Socket!writerVars, Dispatch!ReadEvent, Dispatch!Goto
<1>3. ASSUME NEW c \in Callers, HandlerStep(c) \/ LockWrite(c)
      PROVE  CallInv'
  BY <1>3, <1>a DEF HandlerStep, LockWrite, eventVars, callVars, sessionVars,
     RPC!HandlerStep, RPC!LookupWaiter, RPC!SendResponse, RPC!callVars,
     Socket!LockWrite, Socket!StartWrite
<1>4. ASSUME NEW c \in Callers, Begin(c)
      PROVE  CallInv'
  BY <1>4, <1>a, <1>b DEF Begin, eventVars, sessionVars, RPC!TakeEcho
<1>5. ASSUME NEW c \in Callers, NotConnected(c) \/ WriteDone(c) \/ WriteError(c)
      PROVE  CallInv'
  BY <1>5, <1>a DEF NotConnected, WriteDone, WriteError, eventVars,
     Socket!NotConnected, Socket!EndWrite, RPC!WriteFails, RPC!Written,
     RPC!Leave
<1>6. ASSUME NEW c \in Callers, Expire(c) \/ Timeout(c) \/ CallStep(c)
      PROVE  CallInv'
  BY <1>6, <1>a DEF Expire, Timeout, CallStep, eventVars, callVars,
     sessionVars, RPC!Timeout, RPC!addWebsocketResponseWaiter,
     RPC!ReceiveResponse, RPC!RemoveWaiter, RPC!CloseWaiter, RPC!Leave
<1>7. ASSUME NEW e \in Events, handleEvent(e)
      PROVE  CallInv'
  BY <1>7, <1>a, <1>b DEF handleEvent, callVars, sessionVars, Dispatch!Lock,
     Dispatch!Handle, Dispatch!Transmit, Dispatch!Unlock, Dispatch!Goto
<1>8. CASE UNCHANGED vars
  BY <1>8 DEF vars, eventVars, callVars, sessionVars
<1>. QED
  BY <1>1, <1>2, <1>3, <1>4, <1>5, <1>6, <1>7, <1>8 DEF Next, request,
     Proceed, Terminated

\* What the invariants of the parts say of one call.
LEMMA CallFacts ==
  ASSUME PartsInv, AnswerInv, NEW c \in Callers
  PROVE  /\ c \in received =>
                cpc[c] \in {"wait", "remove", "close", "returned"}
         /\ hpc[c] = "idle" <=> resp[c] = RPC!NoResponse
         /\ hpc[c] # "idle" => c \in received /\ resp[c].echo = echo[c]
         /\ hpc[c] = "send" => respChan[c] = c
         /\ cpc[c] \in {"write", "wait"} =>
                echo[c] \in DOMAIN websocketRequests /\ c \notin closed
         /\ c \in closed => cpc[c] = "returned"
         /\ result[c].outcome = "none"
                <=> cpc[c] \in {"new", "register", "write", "wait"}
         /\ result[c].outcome \in RPC!Verdict
                \cup {"none", "write_error", "timeout"}
  BY DEF PartsInv, AnswerInv, RPC!IInv, RPC!ResponsesInv, RPC!ResultsInv,
     RPC!TableInv, RPC!TypeOK, RPC!Verdict, RPC!Registered

\* Every step keeps calls, answers and connections together.
LEMMA AnswerKept == IInv /\ [Next]_vars => AnswerInv'
<1>. SUFFICES ASSUME IInv, [Next]_vars PROVE AnswerInv'
  OBVIOUS
<1>. USE Names
<1>a. PartsInv /\ AnswerInv
  BY DEF IInv
<1>b. /\ cpc \in [Callers -> {"new", "register", "write", "wait", "remove",
                              "close", "returned"}]
      /\ hpc \in [Callers -> {"idle", "lookup", "send", "done", "panicked"}]
      /\ resp = [c \in Callers |-> resp[c]]
      /\ buffer = [c \in Callers |-> buffer[c]]
      /\ result = [c \in Callers |-> result[c]]
  BY <1>a DEF PartsInv, RPC!IInv, RPC!TypeOK
<1>c. spc = [s \in Sessions |-> spc[s]]
  BY <1>a DEF PartsInv, Socket!IInv, Socket!TypeOK
<1>d. RPC!Verdict = {"ok", "failed"}
  BY DEF RPC!Verdict
<1>. HIDE DEF IInv
\* Steps of the sessions that read no answer.
<1>1. ASSUME NEW s \in Sessions,
             \/ Upgrade(s) \/ Drop(s) \/ Replace(s) \/ LoadConn(s) \/ ReadError(s)
             \/ \E e \in Events : ServeEvent(s, e)
      PROVE  AnswerInv'
  <2>1. UNCHANGED <<writtenOn, received, hpc, resp, buffer, cpc, result, expired>>
    BY <1>1 DEF Upgrade, Drop, Replace, LoadConn, ReadError, ServeEvent,
       ownVars, callVars
  <2>2. \A t \in Sessions : spc[t] # "new" => spc'[t] # "new"
    BY <1>1, <1>c DEF Upgrade, Drop, Replace, LoadConn, ReadError, ServeEvent,
       Socket!Upgrade, Socket!Drop, Socket!Install, Socket!Leave,
       Socket!LoadConn, Socket!ReadError, Socket!ReadFrame, Socket!sessionVars
  <2>. QED  BY <1>a, <2>1, <2>2 DEF AnswerInv
<1>2. ASSUME NEW s \in Sessions, NEW c \in Callers, ServeAnswer(s, c)
      PROVE  AnswerInv'
  <2>1. /\ UNCHANGED <<writtenOn, received, buffer, cpc, result, expired>>
        /\ hpc[c] = "idle" /\ hpc' = [hpc EXCEPT ![c] = "lookup"]
        /\ resp'[c].req = c
        /\ \A d \in Callers \ {c} : resp'[d] = resp[d]
    BY <1>2, <1>b DEF ServeAnswer, ownVars, RPC!ServeResponse, RPC!callVars
  <2>2. \A t \in Sessions : spc[t] # "new" => spc'[t] # "new"
    BY <1>2, <1>c DEF ServeAnswer, Socket!ReadFrame
  <2>. QED  BY <1>a, <1>b, <2>1, <2>2 DEF AnswerInv
<1>3. ASSUME NEW c \in Callers, HandlerStep(c), RPC!LookupWaiter(c)
      PROVE  AnswerInv'
  <2>1. /\ UNCHANGED <<writtenOn, received, resp, buffer, cpc, result, expired,
                       spc>>
        /\ hpc[c] = "lookup"
        /\ \/ hpc' = [hpc EXCEPT ![c] = "send"]
           \/ /\ resp[c].echo \notin DOMAIN websocketRequests
              /\ hpc' = [hpc EXCEPT ![c] = "done"]
    BY <1>3 DEF HandlerStep, sessionVars, ownVars, RPC!LookupWaiter,
       RPC!callVars
  \* A call that waits is in the table.
  <2>2. cpc[c] = "wait" => resp[c].echo \in DOMAIN websocketRequests
    BY <1>a, <2>1, CallFacts
  <2>. QED  BY <1>a, <1>b, <2>1, <2>2 DEF AnswerInv
<1>4. ASSUME NEW c \in Callers, HandlerStep(c), RPC!SendResponse(c)
      PROVE  AnswerInv'
  <2>1. /\ hpc[c] = "send" /\ respChan[c] = c
        /\ c \in received /\ resp[c] # RPC!NoResponse
    BY <1>4, <1>a, CallFacts DEF RPC!SendResponse
  <2>2. buffer[c] = RPC!NoResponse
    BY <1>a, <2>1 DEF AnswerInv
  <2>3. UNCHANGED <<writtenOn, received, resp, cpc, result, expired, spc>>
    BY <1>4 DEF HandlerStep, sessionVars, ownVars, RPC!SendResponse,
       RPC!callVars
  <2>4. CASE c \in closed
    <3>1. UNCHANGED buffer /\ hpc' = [hpc EXCEPT ![c] = "panicked"]
      BY <1>4, <2>1, <2>4 DEF RPC!SendResponse
    \* It has returned, had no answer, and did not fail to write.
    <3>2. result[c].outcome = "timeout"
      BY <1>a, <2>1, <2>4, CallFacts DEF AnswerInv
    <3>. QED  BY <1>a, <1>b, <1>d, <2>1, <2>3, <2>4, <3>1, <3>2, CallFacts
              DEF AnswerInv
  <2>5. CASE c \notin closed
    <3>1. /\ hpc' = [hpc EXCEPT ![c] = "done"]
          /\ buffer' = [buffer EXCEPT ![c] = resp[c]]
      BY <1>4, <1>b, <2>1, <2>2, <2>5 DEF RPC!SendResponse
    <3>. QED  BY <1>a, <1>b, <2>1, <2>2, <2>3, <3>1 DEF AnswerInv
  <2>. QED  BY <2>4, <2>5
\* Steps of a call that neither ends its write nor leaves.
<1>5. ASSUME NEW c \in Callers,
             \/ Begin(c) \/ LockWrite(c) \/ Expire(c)
             \/ CallStep(c) /\ RPC!addWebsocketResponseWaiter(c)
      PROVE  AnswerInv'
  <2>1. /\ UNCHANGED <<writtenOn, received, hpc, resp, buffer, result, spc>>
        /\ expired \subseteq expired'
        /\ cpc' = cpc \/ \E p \in {"register", "write"} :
                             cpc' = [cpc EXCEPT ![c] = p]
    BY <1>5 DEF Begin, LockWrite, Expire, CallStep, callVars, sessionVars,
       ownVars, RPC!TakeEcho, RPC!addWebsocketResponseWaiter,
       RPC!handlerVars, Socket!LockWrite, Socket!StartWrite,
       Socket!sessionVars
  <2>. QED  BY <1>a, <1>b, <2>1 DEF AnswerInv
<1>6. ASSUME NEW c \in Callers, NotConnected(c) \/ WriteError(c)
      PROVE  AnswerInv'
  <2>1. /\ UNCHANGED <<writtenOn, received, hpc, resp, buffer, expired, spc>>
        /\ cpc[c] = "write" /\ cpc' = [cpc EXCEPT ![c] = "remove"]
        /\ result'[c].outcome = "write_error"
        /\ \A d \in Callers \ {c} : result'[d] = result[d]
    BY <1>6, <1>b DEF NotConnected, WriteError, ownVars, RPC!WriteFails,
       RPC!Leave, RPC!handlerVars, Socket!NotConnected, Socket!EndWrite,
       Socket!sessionVars
  <2>2. c \notin received /\ hpc[c] = "idle"
    BY <1>a, <2>1, CallFacts DEF AnswerInv
  <2>. QED  BY <1>a, <1>b, <1>d, <2>1, <2>2 DEF AnswerInv
<1>7. ASSUME NEW c \in Callers, WriteDone(c)
      PROVE  AnswerInv'
  <2>1. /\ UNCHANGED <<hpc, resp, buffer, result, expired, spc>>
        /\ cpc[c] = "write" /\ cpc' = [cpc EXCEPT ![c] = "wait"]
        /\ received' = received \cup {c}
        /\ writtenOn' = [writtenOn EXCEPT ![c] = conn]
        /\ wpc[c] = "write"
    BY <1>7 DEF WriteDone, RPC!Written, RPC!handlerVars, Socket!EndWrite,
       Socket!sessionVars
  <2>2. hpc[c] = "idle" /\ result[c].outcome = "none"
    BY <1>a, <2>1, CallFacts DEF AnswerInv
  <2>3. conn \in Sessions /\ spc[conn] # "new"
    BY <1>a, <2>1 DEF PartsInv, Socket!IInv, Socket!TypeOK,
       Socket!InstalledIsServed
  <2>4. \A d \in Callers : writtenOn'[d] = IF d = c THEN conn ELSE writtenOn[d]
    BY <1>a, <2>1 DEF AnswerInv
  <2>5. writtenOn' \in [Callers -> Sessions \cup {None}]
    BY <1>a, <2>1, <2>3 DEF AnswerInv
  <2>. QED  BY <1>a, <1>b, <2>1, <2>2, <2>3, <2>4, <2>5 DEF AnswerInv
<1>8. ASSUME NEW c \in Callers, Timeout(c)
      PROVE  AnswerInv'
  <2>1. /\ UNCHANGED <<writtenOn, received, hpc, resp, buffer, expired, spc>>
        /\ cpc[c] = "wait" /\ cpc' = [cpc EXCEPT ![c] = "remove"]
        /\ c \in expired /\ result'[c].outcome = "timeout"
        /\ \A d \in Callers \ {c} : result'[d] = result[d]
    BY <1>8, <1>b DEF Timeout, sessionVars, ownVars, RPC!Timeout, RPC!Leave,
       RPC!handlerVars
  <2>. QED  BY <1>a, <1>b, <1>d, <2>1 DEF AnswerInv
<1>9. ASSUME NEW c \in Callers, CallStep(c), RPC!ReceiveResponse(c)
      PROVE  AnswerInv'
  <2>1. /\ UNCHANGED <<writtenOn, received, hpc, resp, expired, spc>>
        /\ cpc[c] = "wait" /\ cpc' = [cpc EXCEPT ![c] = "remove"]
        /\ buffer' = [buffer EXCEPT ![c] = RPC!NoResponse]
        /\ buffer[c] # RPC!NoResponse
        /\ result'[c].outcome = buffer[c].status
        /\ \A d \in Callers \ {c} : result'[d] = result[d]
    BY <1>9, <1>b DEF CallStep, sessionVars, ownVars, RPC!ReceiveResponse,
       RPC!Leave, RPC!handlerVars
  <2>2. hpc[c] = "done"
    BY <1>a, <2>1 DEF AnswerInv
  <2>3. buffer[c].status \in RPC!Verdict
    BY <1>a, <2>1 DEF PartsInv, RPC!IInv, RPC!TypeOK, RPC!Response
  <2>. QED  BY <1>a, <1>b, <1>d, <2>1, <2>2, <2>3 DEF AnswerInv
<1>10. ASSUME NEW c \in Callers, CallStep(c),
              RPC!RemoveWaiter(c) \/ RPC!CloseWaiter(c)
       PROVE  AnswerInv'
  <2>1. /\ UNCHANGED <<writtenOn, received, hpc, resp, buffer, result, expired,
                       spc>>
        /\ \E p \in {"close", "returned"} : cpc' = [cpc EXCEPT ![c] = p]
    BY <1>10 DEF CallStep, sessionVars, ownVars, RPC!RemoveWaiter,
       RPC!CloseWaiter, RPC!handlerVars
  <2>. QED  BY <1>a, <1>b, <2>1 DEF AnswerInv
<1>11. ASSUME NEW e \in Events, handleEvent(e)
       PROVE  AnswerInv'
  BY <1>11, <1>a DEF handleEvent, callVars, sessionVars, ownVars, AnswerInv
<1>12. CASE UNCHANGED vars
  BY <1>12, <1>a DEF vars, callVars, sessionVars, ownVars, AnswerInv
<1>13. ASSUME NEW c \in Callers, HandlerStep(c) \/ CallStep(c)
       PROVE  AnswerInv'
  BY <1>3, <1>4, <1>5, <1>9, <1>10, <1>13
     DEF HandlerStep, CallStep, RPC!HandlerStep
<1>. QED
  BY <1>1, <1>2, <1>5, <1>6, <1>7, <1>8, <1>11, <1>12, <1>13
     DEF Next, request, Proceed, Terminated

\* Every step keeps what holds of the calls nothing disturbed.
LEMMA UndisturbedKept == IInv /\ [Next]_vars => UndisturbedInv'
<1>. SUFFICES ASSUME IInv, [Next]_vars PROVE UndisturbedInv'
  OBVIOUS
<1>. USE Names
<1>a. PartsInv /\ CallInv /\ AnswerInv /\ UndisturbedInv
  BY DEF IInv
<1>b. /\ cpc \in [Callers -> {"new", "register", "write", "wait", "remove",
                              "close", "returned"}]
      /\ result = [c \in Callers |-> result[c]]
      /\ buffer \in [Callers -> RPC!Response \cup {RPC!NoResponse}]
  BY <1>a DEF PartsInv, RPC!IInv, RPC!TypeOK
<1>c. alive \subseteq Sessions /\ open \subseteq Sessions
  BY <1>a DEF PartsInv, Socket!IInv, Socket!TypeOK
\* What disturbs every call under way leaves nothing to be shown.
<1>d. ASSUME Disturb \/ (~Healthy /\ UNCHANGED disturbed), UNCHANGED cpc,
             UNCHANGED result
      PROVE  UndisturbedInv'
  <2>1. ASSUME NEW c \in Callers \ disturbed'
        PROVE  c \notin InFlight /\ c \notin disturbed
    BY <1>a, <1>d, <2>1 DEF Disturb, UndisturbedInv
  <2>. QED  BY <1>a, <1>b, <1>d, <2>1 DEF UndisturbedInv, InFlight, Left
<1>1. ASSUME NEW s \in Sessions, Upgrade(s)
      PROVE  UndisturbedInv'
  <2>1. /\ UNCHANGED <<cpc, result, disturbed, writtenOn, conn, broken>>
        /\ Healthy => Healthy'
    BY <1>1 DEF Upgrade, callVars, ownVars, Socket!Upgrade,
       Socket!writerVars, Healthy
  <2>. QED  BY <1>a, <2>1 DEF UndisturbedInv, InFlight, Left
<1>2. ASSUME NEW s \in Sessions, Drop(s) \/ Replace(s)
      PROVE  UndisturbedInv'
  <2>1. conn = None => ~Healthy
    BY <1>c DEF Healthy
  <2>. QED  BY <1>2, <1>d, <2>1 DEF Drop, Replace, callVars
<1>3. ASSUME NEW s \in Sessions,
             \/ LoadConn(s) \/ ReadError(s)
             \/ \E e \in Events : ServeEvent(s, e)
             \/ \E c \in Callers : ServeAnswer(s, c)
      PROVE  UndisturbedInv'
  <2>1. UNCHANGED <<cpc, result, disturbed, writtenOn, conn, alive, open, broken>>
    BY <1>3 DEF LoadConn, ReadError, ServeEvent, ServeAnswer, callVars,
       ownVars, Socket!LoadConn, Socket!ReadError, Socket!ReadFrame,
       RPC!ServeResponse, RPC!callVars
  <2>. QED  BY <1>a, <2>1 DEF UndisturbedInv, InFlight, Left, Healthy
<1>4. ASSUME NEW c \in Callers, HandlerStep(c) \/ LockWrite(c) \/ Expire(c)
      PROVE  UndisturbedInv'
  <2>1. UNCHANGED <<cpc, result, disturbed, writtenOn, conn, alive, open, broken>>
    BY <1>4 DEF HandlerStep, LockWrite, Expire, callVars, sessionVars, ownVars,
       Socket!LockWrite, Socket!StartWrite, RPC!HandlerStep,
       RPC!LookupWaiter, RPC!SendResponse, RPC!callVars
  <2>. QED  BY <1>a, <2>1 DEF UndisturbedInv, InFlight, Left, Healthy
<1>5. ASSUME NEW c \in Callers, Begin(c)
      PROVE  UndisturbedInv'
  <2>1. /\ UNCHANGED <<result, writtenOn, conn, alive, open, broken>>
        /\ cpc' = [cpc EXCEPT ![c] = "register"]
        /\ disturbed' = IF Healthy THEN disturbed ELSE disturbed \cup {c}
    BY <1>5 DEF Begin, sessionVars, RPC!TakeEcho
  <2>. QED  BY <1>a, <1>b, <2>1 DEF UndisturbedInv, InFlight, Left, Healthy
<1>6. ASSUME NEW c \in Callers, NotConnected(c) \/ WriteError(c)
      PROVE  UndisturbedInv'
  <2>1. /\ cpc[c] = "write" /\ cpc' = [cpc EXCEPT ![c] = "remove"]
        /\ \A d \in Callers \ {c} : result'[d] = result[d]
        /\ Disturb \/ (~Healthy /\ UNCHANGED disturbed)
    BY <1>6, <1>b, <1>c DEF NotConnected, WriteError, ownVars, Healthy,
       RPC!WriteFails, RPC!Leave, Socket!NotConnected
  <2>2. ASSUME NEW d \in Callers \ disturbed'
        PROVE  d \notin InFlight /\ d \notin disturbed
    BY <1>a, <2>1, <2>2 DEF Disturb, UndisturbedInv
  <2>. QED  BY <1>a, <1>b, <2>1, <2>2 DEF UndisturbedInv, InFlight, Left
<1>7. ASSUME NEW c \in Callers, WriteDone(c)
      PROVE  UndisturbedInv'
  <2>1. /\ cpc[c] = "write" /\ cpc' = [cpc EXCEPT ![c] = "wait"]
        /\ writtenOn' = [writtenOn EXCEPT ![c] = conn]
        /\ UNCHANGED <<result, conn, alive, open, broken, disturbed>>
    BY <1>7 DEF WriteDone, RPC!Written, Socket!EndWrite
  <2>. QED  BY <1>a, <1>b, <2>1 DEF UndisturbedInv, InFlight, Left, Healthy,
            AnswerInv
<1>8. ASSUME NEW c \in Callers, Timeout(c)
      PROVE  UndisturbedInv'
  <2>1. /\ cpc[c] = "wait" /\ cpc' = [cpc EXCEPT ![c] = "remove"]
        /\ result'[c].outcome = "timeout"
        /\ \A d \in Callers \ {c} : result'[d] = result[d]
        /\ UNCHANGED <<writtenOn, conn, alive, open, broken, disturbed>>
    BY <1>8, <1>b DEF Timeout, sessionVars, ownVars, RPC!Timeout, RPC!Leave
  <2>. QED  BY <1>a, <1>b, <2>1 DEF UndisturbedInv, InFlight, Left, Healthy
<1>9. ASSUME NEW c \in Callers, CallStep(c)
      PROVE  UndisturbedInv'
  <2>0. UNCHANGED <<writtenOn, conn, alive, open, broken, disturbed>>
    BY <1>9 DEF CallStep, sessionVars, ownVars
  <2>1. CASE RPC!ReceiveResponse(c)
    <3>1. /\ cpc[c] = "wait" /\ cpc' = [cpc EXCEPT ![c] = "remove"]
          /\ result'[c].outcome = buffer[c].status
          /\ buffer[c] \in RPC!Response
          /\ \A d \in Callers \ {c} : result'[d] = result[d]
      BY <1>b, <2>1 DEF RPC!ReceiveResponse, RPC!Leave
    <3>2. buffer[c].status \in RPC!Verdict
      BY <3>1 DEF RPC!Response
    <3>. QED  BY <1>a, <1>b, <2>0, <3>1, <3>2 DEF UndisturbedInv, InFlight,
              Left, Healthy
  <2>2. CASE RPC!addWebsocketResponseWaiter(c) \/ RPC!RemoveWaiter(c)
             \/ RPC!CloseWaiter(c)
    <3>1. /\ UNCHANGED result
          /\ \/ cpc[c] = "register" /\ cpc' = [cpc EXCEPT ![c] = "write"]
             \/ cpc[c] = "remove" /\ cpc' = [cpc EXCEPT ![c] = "close"]
             \/ cpc[c] = "close" /\ cpc' = [cpc EXCEPT ![c] = "returned"]
      BY <2>2 DEF RPC!addWebsocketResponseWaiter, RPC!RemoveWaiter,
         RPC!CloseWaiter
    <3>. QED  BY <1>a, <1>b, <2>0, <3>1 DEF UndisturbedInv, InFlight, Left,
              Healthy
  <2>. QED  BY <1>9, <2>1, <2>2 DEF CallStep
<1>10. ASSUME NEW e \in Events, handleEvent(e)
       PROVE  UndisturbedInv'
  BY <1>10, <1>a DEF handleEvent, callVars, sessionVars, ownVars,
     UndisturbedInv, InFlight, Left, Healthy
<1>11. CASE UNCHANGED vars
  BY <1>11, <1>a DEF vars, callVars, sessionVars, ownVars, UndisturbedInv,
     InFlight, Left, Healthy
<1>. QED
  BY <1>1, <1>2, <1>3, <1>4, <1>5, <1>6, <1>7, <1>8, <1>9, <1>10, <1>11
     DEF Next, request, Proceed, Terminated

\* The initial states are initial states of the parts.
LEMMA InitParts == Init => PartsInv
<1>. SUFFICES ASSUME Init PROVE PartsInv
  OBVIOUS
<1>1. Socket!IInv
  BY ClientAssumption, Names
     DEF Init, Socket!Init, Socket!IInv, Socket!TypeOK, Socket!NoSocketLeak,
         Socket!InstalledIsServed
<1>2. Dispatch!TypeOK /\ Dispatch!BucketInv
  BY ClientAssumption
     DEF Init, Dispatch!Init, Dispatch!TypeOK, Dispatch!BucketInv,
         Dispatch!NoEvent, Dispatch!InitMutexes, Dispatch!Holding,
         Dispatch!Types, Dispatch!Messages, Dispatch!Recalls, Dispatch!Meta
<1>3. RPC!IInv
  <2>1. RPCThms!NoCallAssumption
    BY Names DEF RPCThms!NoCallAssumption
  <2>2. RPCThms!Init <=> RPC!Init
    BY Zenon DEF RPCThms!Init, RPCThms!NoResponse, RPCThms!NoResult,
       RPC!Init, RPC!NoResponse, RPC!NoResult
  <2>3. RPCThms!IInv
    BY <2>1, <2>2, RPCThms!InitIInv DEF Init
  <2>4. RPCThms!IInv <=> RPC!IInv
    BY Zenon DEF RPCThms!IInv, RPCThms!TypeOK, RPCThms!EchoesDistinct,
       RPCThms!TableInv, RPCThms!ResponsesInv, RPCThms!ResultsInv,
       RPCThms!Registered, RPCThms!Response, RPCThms!NoResponse,
       RPCThms!Verdict, RPC!IInv, RPC!TypeOK, RPC!EchoesDistinct,
       RPC!TableInv, RPC!ResponsesInv, RPC!ResultsInv, RPC!Registered,
       RPC!Response, RPC!NoResponse, RPC!Verdict
  <2>. QED  BY <2>3, <2>4
<1>. QED  BY <1>1, <1>2, <1>3 DEF PartsInv

\* They satisfy the inductive invariant.
LEMMA InitIInv == Init => IInv
<1>. SUFFICES ASSUME Init PROVE IInv
  OBVIOUS
<1>1. /\ \A c \in Callers : /\ cpc[c] = "new" /\ wpc[c] = "lock"
                            /\ hpc[c] = "idle" /\ writtenOn[c] = None
                            /\ buffer[c] = RPC!NoResponse
                            /\ result[c].outcome = "none"
      /\ received = {} /\ alive = {}
      /\ writtenOn \in [Callers -> Sessions \cup {None}]
  BY DEF Init, RPC!Init, RPC!NoResult, Socket!Init
<1>2. CallInv
  BY <1>1, Names DEF CallInv, InFlight
<1>3. AnswerInv
  BY <1>1 DEF AnswerInv, RPC!Verdict
<1>4. UndisturbedInv
  BY <1>1 DEF UndisturbedInv, InFlight, Left
<1>. QED  BY <1>2, <1>3, <1>4, InitParts DEF IInv
-----------------------------------------------------------------------------
\* The inductive invariant holds in every reachable state.
THEOREM Inductive == Spec => []IInv
<1>1. IInv /\ [Next]_vars => IInv'
  BY PartsKept, CallKept, AnswerKept, UndisturbedKept DEF IInv
<1>. QED  BY <1>1, InitIInv, PTL DEF Spec

\* writeLock and the mutexes are held by calls and events that are where the
\* code holds them; NapCat has every request that was written; a handler
\* ends the process only with the answer to a call whose deadline passed.
THEOREM JoinedCorrect == Spec => []Joined
<1>1. IInv => Joined
  <2>. SUFFICES ASSUME IInv PROVE Joined
    OBVIOUS
  <2>1. writeLock # None => cpc[writeLock] = "write"
    <3>. SUFFICES ASSUME writeLock # None PROVE cpc[writeLock] = "write"
      OBVIOUS
    <3>1. writeLock \in Callers /\ wpc[writeLock] \in {"check", "write"}
      BY DEF IInv, PartsInv, Socket!IInv, Socket!TypeOK
    <3>. QED  BY <3>1 DEF IInv, CallInv
  <2>2. ASSUME NEW e \in Media, e \in InFlight
        PROVE  pc[e] = "handle" /\ mutexes[hash[chatOf[e]]] = e
    <3>1. e \in Events /\ pc[e] = "handle"
      BY <2>2, ClientAssumption DEF IInv, CallInv
    <3>2. mutexes[hash[Dispatch!getEventKey(e)]] = e
      BY <3>1 DEF IInv, PartsInv, Dispatch!BucketInv, Dispatch!Holding
    <3>. QED  BY <3>1, <3>2 DEF Dispatch!getEventKey
  <2>3. \A c \in Callers :
            /\ c \in received <=> writtenOn[c] # None
            /\ hpc[c] = "panicked" =>
                   c \in expired /\ result[c].outcome = "timeout"
    BY DEF IInv, AnswerInv
  <2>. QED  BY <2>1, <2>2, <2>3 DEF Joined
<1>. QED  BY <1>1, Inductive, PTL

\* A call nothing disturbed ends with NapCat's answer, or after its deadline.
THEOREM UndisturbedCorrect == Spec => []UndisturbedCallAnswered
<1>1. IInv => UndisturbedCallAnswered
  BY DEF IInv, AnswerInv, UndisturbedInv, Left, UndisturbedCallAnswered
<1>. QED  BY <1>1, Inductive, PTL

\* Inside the client, too, a call returns an answer to its own request, no
\* waiter leaks, nothing is written on a connection that is closed, and no
\* connection is left open that no session will close.
THEOREM PartsCorrect ==
  Spec => [](/\ RPC!OwnResponse /\ RPC!WaiterTableExact
             /\ Socket!WritesOnOpen /\ Socket!NoSocketLeak)
<1>1. RPC!IInv => RPC!OwnResponse
  BY DEF RPC!IInv, RPC!ResultsInv, RPC!OwnResponse
<1>2. RPC!IInv => RPC!WaiterTableExact
  BY DEF RPC!IInv, RPC!TableInv, RPC!EchoesDistinct, RPC!WaiterTableExact,
     RPC!Registered
<1>3. Socket!IInv => Socket!WritesOnOpen /\ Socket!NoSocketLeak
  BY DEF Socket!IInv, Socket!WritesOnOpen
<1>4. IInv => /\ RPC!OwnResponse /\ RPC!WaiterTableExact
              /\ Socket!WritesOnOpen /\ Socket!NoSocketLeak
  BY <1>1, <1>2, <1>3 DEF IInv, PartsInv
<1>. QED  BY <1>4, Inductive, PTL
=============================================================================
