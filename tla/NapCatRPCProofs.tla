-------------------------- MODULE NapCatRPCProofs ---------------------------
(***************************************************************************)
(* Proofs about NapCatRPC for every set of calls and of handlers: the      *)
(* inductive invariant IInv, the safety properties it implies, and the     *)
(* refinement of RequestReply.                                             *)
(***************************************************************************)
EXTENDS NapCatRPC, TLAPS

\* The initial state satisfies the inductive invariant.
LEMMA InitIInv == Init => IInv
<1> SUFFICES ASSUME Init PROVE IInv
  OBVIOUS
<1> USE DEF Init
<1>1. TypeOK
  BY DEF TypeOK, NoResult
<1>2. EchoesDistinct
  BY DEF EchoesDistinct
<1>3. TableInv
  BY DEF TableInv, Registered
<1>4. ResponsesInv
  BY DEF ResponsesInv
<1>5. ResultsInv
  BY DEF ResultsInv, NoResult
<1> QED
  BY <1>1, <1>2, <1>3, <1>4, <1>5 DEF IInv

\* A call's step preserves the types.
LEMMA CallType ==
  ASSUME TypeOK, NEW r \in Calls, CallStep(r)
  PROVE  TypeOK'
<1> USE DEF TypeOK, Leave, callVars, handlerVars
<1>1. CASE TakeEcho(r)
  BY <1>1 DEF TakeEcho
<1>2. CASE addWebsocketResponseWaiter(r)
  BY <1>2 DEF addWebsocketResponseWaiter
<1>3. CASE Written(r)
  BY <1>3 DEF Written
<1>4. CASE WriteFails(r)
  BY <1>4 DEF WriteFails
<1>5. CASE ReceiveResponse(r)
  BY <1>5 DEF ReceiveResponse, Response, Verdict
<1>6. CASE Timeout(r)
  BY <1>6 DEF Timeout
<1>7. CASE RemoveWaiter(r)
  BY <1>7 DEF RemoveWaiter
<1>8. CASE CloseWaiter(r)
  BY <1>8 DEF CloseWaiter
<1> QED
  BY <1>1, <1>2, <1>3, <1>4, <1>5, <1>6, <1>7, <1>8 DEF CallStep

\* A handler's step preserves the types.
LEMMA HandlerType ==
  ASSUME TypeOK, NEW h \in Handlers, ServeResponse(h) \/ HandlerStep(h)
  PROVE  TypeOK'
<1> USE DEF TypeOK, callVars, handlerVars
<1>1. CASE ServeResponse(h)
  BY <1>1 DEF ServeResponse, Response
<1>2. CASE LookupWaiter(h)
  BY <1>2 DEF LookupWaiter
<1>3. CASE SendResponse(h)
  BY <1>3 DEF SendResponse
<1> QED
  BY <1>1, <1>2, <1>3 DEF HandlerStep

-----------------------------------------------------------------------------
(* One lemma per conjunct of IInv; each looks at every action once.        *)

\* TakeEcho gives a number nobody has; no other step touches an echo.
LEMMA StepEchoes ==
  ASSUME IInv, [Next]_vars
  PROVE  EchoesDistinct'
<1> USE DEF IInv, TypeOK, EchoesDistinct, Leave, callVars, handlerVars
<1>1. ASSUME NEW r \in Calls, TakeEcho(r)
      PROVE  EchoesDistinct'
  BY <1>1 DEF TakeEcho
<1>2. ASSUME NEW r \in Calls, CallStep(r), ~TakeEcho(r)
      PROVE  EchoesDistinct'
  <2>1. echo' = echo /\ \A s \in Calls : pc'[s] = "new" <=> pc[s] = "new"
    BY <1>2 DEF CallStep, addWebsocketResponseWaiter, Written, WriteFails,
                ReceiveResponse, Timeout, RemoveWaiter, CloseWaiter
  <2> QED
    BY <2>1
<1>3. ASSUME NEW h \in Handlers, ServeResponse(h) \/ HandlerStep(h)
      PROVE  EchoesDistinct'
  <2>1. echo' = echo /\ pc' = pc
    BY <1>3 DEF ServeResponse, HandlerStep, LookupWaiter, SendResponse
  <2> QED
    BY <2>1
<1>4. CASE UNCHANGED vars
  BY <1>4 DEF vars
<1> QED
  BY <1>1, <1>2, <1>3, <1>4 DEF Next, Terminated

\* Registration adds the entry of the call, removal takes exactly it away,
\* the close comes after the removal.
LEMMA StepTable ==
  ASSUME IInv, [Next]_vars
  PROVE  TableInv'
<1> USE DEF IInv, TypeOK, EchoesDistinct, TableInv, Registered, Leave,
            callVars, handlerVars
<1>1. ASSUME NEW r \in Calls, TakeEcho(r)
      PROVE  TableInv'
  BY <1>1 DEF TakeEcho
<1>2. ASSUME NEW r \in Calls, addWebsocketResponseWaiter(r)
      PROVE  TableInv'
  BY <1>2 DEF addWebsocketResponseWaiter
<1>3. ASSUME NEW r \in Calls, RemoveWaiter(r)
      PROVE  TableInv'
  BY <1>3 DEF RemoveWaiter
<1>4. ASSUME NEW r \in Calls, CloseWaiter(r)
      PROVE  TableInv'
  BY <1>4 DEF CloseWaiter
<1>5. ASSUME NEW r \in Calls,
             \/ Written(r) \/ WriteFails(r)
             \/ ReceiveResponse(r) \/ Timeout(r)
      PROVE  TableInv'
  <2>1. /\ echo' = echo /\ websocketRequests' = websocketRequests
        /\ Registered' = Registered /\ closed' = closed
        /\ \A s \in Calls : pc'[s] = "returned" <=> pc[s] = "returned"
    BY <1>5 DEF Written, WriteFails, ReceiveResponse, Timeout
  <2> QED
    BY <2>1
<1>6. ASSUME NEW h \in Handlers, ServeResponse(h) \/ HandlerStep(h)
      PROVE  TableInv'
  <2>1. /\ echo' = echo /\ pc' = pc /\ closed' = closed
        /\ websocketRequests' = websocketRequests
    BY <1>6 DEF ServeResponse, HandlerStep, LookupWaiter, SendResponse
  <2> QED
    BY <2>1
<1>7. CASE UNCHANGED vars
  BY <1>7 DEF vars
<1> QED
  BY <1>1, <1>2, <1>3, <1>4, <1>5, <1>6, <1>7 DEF Next, CallStep, Terminated

\* An answer carries the echo of the request it answers, and the table leads
\* from that echo to the very call: what reaches a channel is meant for it.
LEMMA StepResponses ==
  ASSUME IInv, [Next]_vars
  PROVE  ResponsesInv'
<1> USE DEF IInv, TypeOK, ResponsesInv, Leave, callVars, handlerVars
<1>1. ASSUME NEW r \in Calls, ReceiveResponse(r)
      PROVE  ResponsesInv'
  BY <1>1 DEF ReceiveResponse
<1>2. ASSUME NEW r \in Calls, CallStep(r), ~ReceiveResponse(r)
      PROVE  ResponsesInv'
  <2>1. /\ buffer' = buffer
        /\ hpc' = hpc /\ resp' = resp /\ respChan' = respChan
    BY <1>2 DEF CallStep, TakeEcho, addWebsocketResponseWaiter, Written,
                WriteFails, Timeout, RemoveWaiter, CloseWaiter
  <2>2. /\ received \subseteq received'
        /\ \A s \in received' :
               pc'[s] \in {"wait", "remove", "close", "returned"}
    BY <1>2 DEF CallStep, TakeEcho, addWebsocketResponseWaiter, Written,
                WriteFails, Timeout, RemoveWaiter, CloseWaiter
  <2>3. \A s \in received : echo'[s] = echo[s]
    BY <1>2 DEF CallStep, TakeEcho, addWebsocketResponseWaiter, Written,
                WriteFails, Timeout, RemoveWaiter, CloseWaiter
  <2> QED
    BY <2>1, <2>2, <2>3
<1>3. ASSUME NEW h \in Handlers, ServeResponse(h)
      PROVE  ResponsesInv'
  <2>1. PICK r \in received, v \in Verdict :
            resp' = [resp EXCEPT
                        ![h] = [req |-> r, echo |-> echo[r], status |-> v]]
    BY <1>3 DEF ServeResponse
  <2>2. resp[h] = NoResponse /\ resp'[h] # NoResponse
    BY <1>3, <2>1, NoCallAssumption DEF ServeResponse, NoResponse
  <2> QED
    BY <1>3, <2>1, <2>2 DEF ServeResponse
<1>4. ASSUME NEW h \in Handlers, LookupWaiter(h)
      PROVE  ResponsesInv'
  <2>1. resp[h].echo \in DOMAIN websocketRequests =>
            websocketRequests[resp[h].echo] = resp[h].req
    BY <1>4 DEF LookupWaiter, TableInv, Registered, EchoesDistinct
  <2> QED
    BY <1>4, <2>1 DEF LookupWaiter
<1>5. ASSUME NEW h \in Handlers, SendResponse(h)
      PROVE  ResponsesInv'
  BY <1>5 DEF SendResponse
<1>6. CASE UNCHANGED vars
  BY <1>6 DEF vars
<1> QED
  BY <1>1, <1>2, <1>3, <1>4, <1>5, <1>6 DEF Next, HandlerStep, Terminated

\* A call gets its result on its way to "remove", from its own channel.
LEMMA StepResults ==
  ASSUME IInv, [Next]_vars
  PROVE  ResultsInv'
<1> USE DEF IInv, TypeOK, ResultsInv, Leave, callVars, handlerVars
<1>1. ASSUME NEW r \in Calls, ReceiveResponse(r)
      PROVE  ResultsInv'
  BY <1>1 DEF ReceiveResponse, ResponsesInv, Response, Verdict
<1>2. ASSUME NEW r \in Calls, WriteFails(r) \/ Timeout(r)
      PROVE  ResultsInv'
  BY <1>2 DEF WriteFails, Timeout
<1>3. ASSUME NEW r \in Calls,
             \/ TakeEcho(r) \/ addWebsocketResponseWaiter(r)
             \/ Written(r) \/ RemoveWaiter(r) \/ CloseWaiter(r)
      PROVE  ResultsInv'
  BY <1>3 DEF TakeEcho, addWebsocketResponseWaiter, Written, RemoveWaiter,
              CloseWaiter
<1>4. ASSUME NEW h \in Handlers, ServeResponse(h) \/ HandlerStep(h)
      PROVE  ResultsInv'
  BY <1>4 DEF ServeResponse, HandlerStep, LookupWaiter, SendResponse
<1>5. CASE UNCHANGED vars
  BY <1>5 DEF vars
<1> QED
  BY <1>1, <1>2, <1>3, <1>4, <1>5 DEF Next, CallStep, Terminated

\* Every step keeps every variable in its type.
LEMMA StepType ==
  ASSUME TypeOK, [Next]_vars
  PROVE  TypeOK'
<1>1. CASE UNCHANGED vars
  BY <1>1 DEF vars, TypeOK, callVars, handlerVars
<1> QED
  BY <1>1, CallType, HandlerType DEF Next, Terminated

\* Every step preserves the inductive invariant.
LEMMA NextIInv == IInv /\ [Next]_vars => IInv'
  BY StepType, StepEchoes, StepTable, StepResponses, StepResults DEF IInv

\* The inductive invariant holds in every reachable state.
THEOREM Inductive == Spec => []IInv
  BY InitIInv, NextIInv, PTL DEF Spec

\* Every variable keeps its type.
THEOREM TypeCorrect == Spec => []TypeOK
<1>1. IInv => TypeOK
  BY DEF IInv
<1> QED
  BY <1>1, Inductive, PTL

\* A call never returns the response to another call's request.
THEOREM OwnResponseCorrect == Spec => []OwnResponse
<1>1. IInv => OwnResponse
  BY DEF IInv, ResultsInv, OwnResponse
<1> QED
  BY <1>1, Inductive, PTL

\* The waiter table holds the calls in flight, and no closed channel.
THEOREM WaiterTableCorrect == Spec => []WaiterTableExact
<1>1. IInv => WaiterTableExact
  BY DEF IInv, TableInv, WaiterTableExact, Registered
<1> QED
  BY <1>1, Inductive, PTL

\* A response looked up after its call left the table is dropped.
THEOREM LateLookupCorrect == Spec => LateLookupIsDropped
<1> DEFINE Drop == \A h \in Handlers :
           /\ hpc[h] = "lookup" /\ hpc'[h] # "lookup"
           /\ pc[resp[h].req] \in {"close", "returned"}
           => hpc'[h] = "done"
<1>1. IInv /\ [Next]_vars => [Drop]_vars
  <2> SUFFICES ASSUME IInv, Next, NEW h \in Handlers,
                      hpc[h] = "lookup", hpc'[h] # "lookup",
                      pc[resp[h].req] \in {"close", "returned"}
               PROVE  hpc'[h] = "done"
    OBVIOUS
  <2> USE DEF IInv, TypeOK, callVars, handlerVars
  <2>1. LookupWaiter(h)
    BY DEF Next, Terminated, vars, CallStep, TakeEcho,
           addWebsocketResponseWaiter, Written, WriteFails, ReceiveResponse,
           Timeout, RemoveWaiter, CloseWaiter, Leave, ServeResponse,
           HandlerStep, LookupWaiter, SendResponse
  <2>2. resp[h].echo \notin DOMAIN websocketRequests
    BY DEF ResponsesInv, TableInv, Registered, EchoesDistinct
  <2> QED
    BY <2>1, <2>2 DEF LookupWaiter
<1> QED
  BY <1>1, Inductive, PTL DEF Spec, LateLookupIsDropped

-----------------------------------------------------------------------------
(* The refinement of RequestReply, action by action.                       *)

\* A step that changes neither a result, nor the start of a call, nor what
\* NapCat received and answered, is invisible to the callers.
LEMMA InvisibleStep ==
  ASSUME IInv, result' = result, received' = received, resp' = resp,
         \A s \in Calls : pc'[s] = "new" <=> pc[s] = "new"
  PROVE  UNCHANGED RR!vars
<1>1. \A s \in Calls : Status(s)' = Status(s)
  BY DEF Status
<1>2. Answered' = Answered
  BY DEF Answered
<1> QED
  BY <1>1, <1>2 DEF RR!vars

\* A call that leaves resolves its abstract call, or gives it up.
LEMMA LeaveStep ==
  ASSUME IInv, NEW r \in Calls, pc[r] \in {"write", "wait"},
         NEW o, NEW m, Leave(r, o, m), o # "none"
  PROVE  /\ Status(r) = "pending"
         /\ [s \in Calls |-> Status(s)]'
                = [[s \in Calls |-> Status(s)] EXCEPT
                      ![r] = IF o \in Verdict THEN o ELSE "error"]
         /\ received' = received /\ Answered' = Answered
<1> USE DEF IInv, TypeOK, ResultsInv, Leave, handlerVars
<1>1. Status(r) = "pending"
  BY DEF Status
<1>2. Status(r)' = IF o \in Verdict THEN o ELSE "error"
  BY DEF Status
<1>3. \A s \in Calls \ {r} : Status(s)' = Status(s)
  BY DEF Status
<1>4. Answered' = Answered
  BY DEF Answered
<1>5. [s \in Calls |-> Status(s)]'
          = [[s \in Calls |-> Status(s)] EXCEPT
                ![r] = IF o \in Verdict THEN o ELSE "error"]
  <2> HIDE DEF IInv, TypeOK, ResultsInv, Leave, handlerVars
  <2> QED
    BY <1>2, <1>3
<1> QED
  BY <1>1, <1>4, <1>5

\* Every step of a call is a step of RequestReply or invisible in it.
LEMMA CallRefines ==
  ASSUME IInv, NEW r \in Calls, CallStep(r)
  PROVE  [RR!Next]_RR!vars
<1> USE DEF callVars, handlerVars
<1>1. CASE TakeEcho(r)
  <2> USE <1>1 DEF TakeEcho, IInv, TypeOK
  <2>1. Status(r) = "idle" /\ Status(r)' = "pending"
    BY DEF Status, ResultsInv
  <2>2. \A s \in Calls \ {r} : Status(s)' = Status(s)
    BY DEF Status
  <2>3. Answered' = Answered
    BY DEF Answered
  <2>4. RR!Submit(r)
    BY <2>1, <2>2, <2>3 DEF RR!Submit
  <2> QED
    BY <2>4 DEF RR!Next
<1>2. CASE Written(r)
  <2> USE <1>2 DEF Written, IInv, TypeOK
  <2>1. Status(r) = "pending"
    BY DEF Status, ResultsInv
  <2>2. \A s \in Calls : Status(s)' = Status(s)
    BY DEF Status
  <2>3. Answered' = Answered
    BY DEF Answered
  <2>4. RR!Receive(r)
    BY <2>1, <2>2, <2>3 DEF RR!Receive
  <2> QED
    BY <2>4 DEF RR!Next
<1>3. CASE WriteFails(r) \/ Timeout(r)
  <2>1. PICK o \in {"write_error", "timeout"} :
            pc[r] \in {"write", "wait"} /\ Leave(r, o, NoResponse)
    BY <1>3 DEF WriteFails, Timeout
  <2>2. RR!GiveUp(r)
    BY <2>1, LeaveStep DEF RR!GiveUp, Verdict
  <2> QED
    BY <2>2 DEF RR!Next
<1>4. CASE ReceiveResponse(r)
  <2> DEFINE v == buffer[r].status
  <2>1. Leave(r, v, buffer[r]) /\ pc[r] = "wait"
    BY <1>4 DEF ReceiveResponse
  <2>2. v \in Verdict /\ <<r, v>> \in Answered
    BY <1>4 DEF ReceiveResponse, IInv, TypeOK, ResponsesInv, Response,
                Answered
  <2>3. RR!Resolve(r, v)
    BY <2>1, <2>2, LeaveStep DEF RR!Resolve, Verdict
  <2> QED
    BY <2>2, <2>3 DEF RR!Next, RR!Verdict, Verdict
<1>5. CASE addWebsocketResponseWaiter(r) \/ RemoveWaiter(r) \/ CloseWaiter(r)
  <2>1. result' = result /\ received' = received /\ resp' = resp
    BY <1>5 DEF addWebsocketResponseWaiter, RemoveWaiter, CloseWaiter
  <2>2. \A s \in Calls : pc'[s] = "new" <=> pc[s] = "new"
    BY <1>5 DEF IInv, TypeOK, addWebsocketResponseWaiter, RemoveWaiter,
                CloseWaiter
  <2>3. UNCHANGED RR!vars
    BY <2>1, <2>2, InvisibleStep
  <2> QED
    BY <2>3
<1> QED
  BY <1>1, <1>2, <1>3, <1>4, <1>5 DEF CallStep

\* A response read by Serve is an abstract answer; the rest is invisible.
LEMMA HandlerRefines ==
  ASSUME IInv, NEW h \in Handlers, ServeResponse(h) \/ HandlerStep(h)
  PROVE  [RR!Next]_RR!vars
<1> USE DEF callVars, handlerVars, IInv, TypeOK
<1>1. CASE ServeResponse(h)
  <2>1. PICK r \in received, v \in Verdict :
            resp' = [resp EXCEPT
                        ![h] = [req |-> r, echo |-> echo[r], status |-> v]]
    BY <1>1 DEF ServeResponse
  <2>2. resp[h] = NoResponse /\ resp'[h] # NoResponse
    BY <1>1, <2>1, NoCallAssumption DEF ServeResponse, NoResponse,
                                        ResponsesInv
  <2>3. Answered' = Answered \cup {<<r, v>>}
    BY <2>1, <2>2 DEF Answered
  <2>4. \A s \in Calls : Status(s)' = Status(s)
    BY <1>1 DEF ServeResponse, Status
  <2>5. RR!Answer(r, v)
    BY <1>1, <2>3, <2>4 DEF ServeResponse, RR!Answer
  <2> QED
    BY <2>5 DEF RR!Next, RR!Verdict, Verdict
<1>2. CASE HandlerStep(h)
  <2>1. /\ result' = result /\ received' = received /\ resp' = resp
        /\ pc' = pc
    BY <1>2 DEF HandlerStep, LookupWaiter, SendResponse
  <2>2. UNCHANGED RR!vars
    <3> HIDE DEF callVars, handlerVars, IInv, TypeOK
    <3> QED
      BY <2>1, InvisibleStep
  <2> QED
    BY <2>2
<1> QED
  BY <1>1, <1>2

\* The waiter table, the channels and the goroutines implement the abstract
\* calls: each resolves once, with an answer NapCat gave to it, or gives up.
THEOREM Refinement == Spec => Implements
<1>1. Init => RR!Init
  BY DEF Init, RR!Init, Status, NoResult, Answered
<1>2. IInv /\ [Next]_vars => [RR!Next]_RR!vars
  <2>1. ASSUME IInv, UNCHANGED vars
        PROVE  UNCHANGED RR!vars
    <3>1. /\ result' = result /\ received' = received /\ resp' = resp
          /\ pc' = pc
      BY <2>1 DEF vars, callVars, handlerVars
    <3> QED
      BY <2>1, <3>1, InvisibleStep
  <2> QED
    BY <2>1, CallRefines, HandlerRefines DEF Next, Terminated
<1> QED
  BY <1>1, <1>2, Inductive, PTL DEF Spec, Implements, RR!Spec
=============================================================================
