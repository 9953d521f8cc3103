----------------------------- MODULE NapCatRPC ------------------------------
(***************************************************************************)
(* Request/response correlation of one napcat.Client over its websocket:   *)
(* Client.request and the waiter table websocketRequests (client.go), and  *)
(* Client.handleResponse (handle_napcat.go), which Serve starts in a       *)
(* goroutine of its own for every response it reads.                       *)
(*                                                                         *)
(* A call runs request() once, in steps cut where other goroutines can     *)
(* interleave: the atomic increment, each critical section of              *)
(* websocketRequestsLock, the write, the select, the close of the channel. *)
(* The channel respChan made by a call is named by that call, so the       *)
(* table maps an echo to the call that waits for it.  Which connection a   *)
(* request is written on is not part of this module: a write either fails  *)
(* or hands the request to NapCat.  Time is abstract: the context deadline *)
(* may pass at any moment of the wait.                                     *)
(***************************************************************************)
EXTENDS Naturals

CONSTANTS Calls,     \* goroutines inside Client.request
          Handlers,  \* goroutines inside Client.handleResponse
          NoCall     \* no waiter

ASSUME NoCallAssumption == NoCall \notin Calls

VARIABLES pc,                  \* where each call is
          echo,                \* req.Echo of each call, 0 before it is set
          websocketRequestID,  \* the last echo given out
          websocketRequests,   \* echo -> the call waiting for it
          buffer,              \* content of each call's one-slot channel
          closed,              \* calls whose channel is closed
          result,              \* what each call returns
          received,            \* calls whose request NapCat received
          hpc,                 \* where each handler is
          resp,                \* the response each handler was started with
          respChan             \* the channel each handler looked up

callVars    == <<pc, echo, websocketRequestID, closed, result>>
handlerVars == <<hpc, resp, respChan>>
vars == <<callVars, websocketRequests, buffer, received, handlerVars>>

Verdict    == {"ok", "failed"}

\* req, the call whose request NapCat answers, is not in the response the
\* code sees: it can only go by the echo.
Response   == [req : Calls, echo : Nat, status : Verdict]
NoResponse == [req |-> NoCall, echo |-> 0, status |-> "none"]

NoResult == [outcome |-> "none", resp |-> NoResponse]

\* The calls between addWebsocketResponseWaiter and its deferred removal.
Registered == {r \in Calls : pc[r] \in {"write", "wait", "remove"}}

Init ==
    /\ pc = [r \in Calls |-> "new"]
    /\ echo = [r \in Calls |-> 0]
    /\ websocketRequestID = 0
    /\ websocketRequests = [e \in {} |-> NoCall]
    /\ buffer = [r \in Calls |-> NoResponse]
    /\ closed = {}
    /\ result = [r \in Calls |-> NoResult]
    /\ received = {}
    /\ hpc = [h \in Handlers |-> "idle"]
    /\ resp = [h \in Handlers |-> NoResponse]
    /\ respChan = [h \in Handlers |-> NoCall]
-----------------------------------------------------------------------------
(* The steps of Client.request. *)

\* Mutant: the increment is made on a copy of the counter.
TakeEchoUnshared(r) ==
    /\ pc[r] = "new"
    /\ echo' = [echo EXCEPT ![r] = websocketRequestID + 1]
    /\ pc' = [pc EXCEPT ![r] = "register"]
    /\ UNCHANGED <<websocketRequestID, closed, result, websocketRequests,
                   buffer, received, handlerVars>>

\* req.Echo = fmt.Sprint(atomic.AddInt64(&c.websocketRequestID, 1))
TakeEcho(r) ==
    /\ pc[r] = "new"
    /\ websocketRequestID' = websocketRequestID + 1
    /\ echo' = [echo EXCEPT ![r] = websocketRequestID']
    /\ pc' = [pc EXCEPT ![r] = "register"]
    /\ UNCHANGED <<closed, result, websocketRequests, buffer, received,
                   handlerVars>>

addWebsocketResponseWaiter(r) ==
    /\ pc[r] = "register"
    /\ websocketRequests' =
           [e \in DOMAIN websocketRequests \cup {echo[r]} |->
               IF e = echo[r] THEN r ELSE websocketRequests[e]]
    /\ pc' = [pc EXCEPT ![r] = "write"]
    /\ UNCHANGED <<echo, websocketRequestID, closed, result, buffer,
                   received, handlerVars>>

\* c._request succeeds: the request is on its way and NapCat may answer it.
Written(r) ==
    /\ pc[r] = "write"
    /\ received' = received \cup {r}
    /\ pc' = [pc EXCEPT ![r] = "wait"]
    /\ UNCHANGED <<echo, websocketRequestID, closed, result,
                   websocketRequests, buffer, handlerVars>>

\* The call leaves with outcome o (and response m); the deferred removal
\* of the waiter comes next.
Leave(r, o, m) ==
    /\ result' = [result EXCEPT ![r] = [outcome |-> o, resp |-> m]]
    /\ pc' = [pc EXCEPT ![r] = "remove"]
    /\ UNCHANGED <<echo, websocketRequestID, closed, websocketRequests,
                   received, handlerVars>>

\* Mutant: the removal is deferred only after the write succeeded.
WriteFailsNoRemoval(r) ==
    /\ pc[r] = "write"
    /\ result' = [result EXCEPT ![r] = [outcome |-> "write_error",
                                        resp |-> NoResponse]]
    /\ pc' = [pc EXCEPT ![r] = "returned"]
    /\ UNCHANGED <<echo, websocketRequestID, closed, websocketRequests,
                   received, handlerVars, buffer>>

\* c._request fails: no connection, or the write timed out or failed.
WriteFails(r) ==
    /\ pc[r] = "write"
    /\ Leave(r, "write_error", NoResponse)
    /\ UNCHANGED buffer

\* Mutant: resp.Status is not looked at.
ReceiveResponseUnread(r) ==
    /\ pc[r] = "wait"
    /\ buffer[r] # NoResponse
    /\ Leave(r, "ok", buffer[r])
    /\ buffer' = [buffer EXCEPT ![r] = NoResponse]

\* case resp := <-respChan
ReceiveResponse(r) ==
    /\ pc[r] = "wait"
    /\ buffer[r] # NoResponse
    /\ Leave(r, buffer[r].status, buffer[r])
    /\ buffer' = [buffer EXCEPT ![r] = NoResponse]

\* Mutant: the context has no deadline.
TimeoutNever(r) ==
    /\ FALSE
    /\ Leave(r, "timeout", NoResponse)
    /\ UNCHANGED buffer

\* case <-ctx.Done()
Timeout(r) ==
    /\ pc[r] = "wait"
    /\ Leave(r, "timeout", NoResponse)
    /\ UNCHANGED buffer

\* Mutant: the waiter of a call that timed out stays in the table.
RemoveWaiterAnswered(r) ==
    /\ pc[r] = "remove"
    /\ websocketRequests' =
           [e \in {e \in DOMAIN websocketRequests :
                      e # echo[r] \/ result[r].outcome = "timeout"} |->
               websocketRequests[e]]
    /\ pc' = [pc EXCEPT ![r] = "close"]
    /\ UNCHANGED <<echo, websocketRequestID, closed, result, buffer,
                   received, handlerVars>>

\* removeWebsocketResponseWaiter up to the unlock.
RemoveWaiter(r) ==
    /\ pc[r] = "remove"
    /\ websocketRequests' =
           [e \in {e \in DOMAIN websocketRequests :
                      e # echo[r] \/ websocketRequests[e] # r} |->
               websocketRequests[e]]
    /\ pc' = [pc EXCEPT ![r] = "close"]
    /\ UNCHANGED <<echo, websocketRequestID, closed, result, buffer,
                   received, handlerVars>>

\* close(waiter), after the unlock; then request returns.
CloseWaiter(r) ==
    /\ pc[r] = "close"
    /\ closed' = closed \cup {r}
    /\ pc' = [pc EXCEPT ![r] = "returned"]
    /\ UNCHANGED <<echo, websocketRequestID, result, websocketRequests,
                   buffer, received, handlerVars>>

CallStep(r) ==
    \/ TakeEcho(r)
    \/ addWebsocketResponseWaiter(r)
    \/ Written(r)
    \/ WriteFails(r)
    \/ ReceiveResponse(r)
    \/ Timeout(r)
    \/ RemoveWaiter(r)
    \/ CloseWaiter(r)
-----------------------------------------------------------------------------
(* Serve and handleResponse. *)

\* NapCat answers a request it received, late or more than once perhaps, and
\* Serve starts a handler for the answer.
ServeResponse(h) ==
    /\ hpc[h] = "idle"
    /\ \E r \in received, v \in Verdict :
           resp' = [resp EXCEPT
                       ![h] = [req |-> r, echo |-> echo[r], status |-> v]]
    /\ hpc' = [hpc EXCEPT ![h] = "lookup"]
    /\ UNCHANGED <<callVars, websocketRequests, buffer, received, respChan>>

\* Mutant: a response to an unknown request is looked up again, not dropped.
LookupWaiterAgain(h) ==
    /\ hpc[h] = "lookup"
    /\ resp[h].echo \in DOMAIN websocketRequests
    /\ respChan' = [respChan EXCEPT ![h] = websocketRequests[resp[h].echo]]
    /\ hpc' = [hpc EXCEPT ![h] = "send"]
    /\ UNCHANGED <<callVars, websocketRequests, buffer, received, resp>>

\* respChan, ok := c.websocketRequests[resp.Echo] under the read lock.
LookupWaiter(h) ==
    /\ hpc[h] = "lookup"
    /\ IF resp[h].echo \in DOMAIN websocketRequests
       THEN /\ respChan' = [respChan EXCEPT
                               ![h] = websocketRequests[resp[h].echo]]
            /\ hpc' = [hpc EXCEPT ![h] = "send"]
       ELSE /\ hpc' = [hpc EXCEPT ![h] = "done"]
            /\ UNCHANGED respChan
    /\ UNCHANGED <<callVars, websocketRequests, buffer, received, resp>>

\* select { case respChan <- resp: default: }.  Nothing is locked here: the
\* waiter may have been removed and closed since the lookup.
SendResponse(h) ==
    /\ hpc[h] = "send"
    /\ IF respChan[h] \in closed
       THEN /\ hpc' = [hpc EXCEPT ![h] = "panicked"]
            /\ UNCHANGED buffer
       ELSE /\ hpc' = [hpc EXCEPT ![h] = "done"]
            /\ buffer' = [buffer EXCEPT
                   ![respChan[h]] = IF @ = NoResponse THEN resp[h] ELSE @]
    /\ UNCHANGED <<callVars, websocketRequests, received, resp, respChan>>

HandlerStep(h) == LookupWaiter(h) \/ SendResponse(h)
-----------------------------------------------------------------------------
\* A send on a closed channel panics, and nothing recovers it: the process,
\* with every goroutine in it, is gone.
Panicked == \E h \in Handlers : hpc[h] = "panicked"

AllReturned == \A r \in Calls : pc[r] = "returned"

\* Every call has returned and no handler is running, or the process died.
Terminated ==
    /\ \/ Panicked
       \/ AllReturned /\ \A h \in Handlers : hpc[h] \in {"idle", "done"}
    /\ UNCHANGED vars

Next ==
    \/ /\ ~Panicked
       /\ \/ \E r \in Calls : CallStep(r)
          \/ \E h \in Handlers : ServeResponse(h) \/ HandlerStep(h)
    \/ Terminated

\* The scheduler runs every goroutine that can move, the write deadline ends
\* every write and the context deadline every wait.  NapCat need not answer.
Fairness ==
    /\ \A r \in Calls : WF_vars(~Panicked /\ CallStep(r))
    /\ \A h \in Handlers : WF_vars(~Panicked /\ HandlerStep(h))

Spec == Init /\ [][Next]_vars /\ Fairness
-----------------------------------------------------------------------------
(* Properties. *)

\* Every variable has its type; an echo is one that was given out.
TypeOK ==
    /\ pc \in [Calls -> {"new", "register", "write", "wait", "remove",
                         "close", "returned"}]
    /\ websocketRequestID \in Nat
    /\ echo \in [Calls -> Nat]
    /\ \A r \in Calls : echo[r] \in 0..websocketRequestID
    /\ DOMAIN websocketRequests \subseteq 0..websocketRequestID
    /\ websocketRequests \in [DOMAIN websocketRequests -> Calls]
    /\ buffer \in [Calls -> Response \cup {NoResponse}]
    /\ closed \subseteq Calls
    /\ result \in [Calls ->
           [outcome : {"none", "ok", "failed", "write_error", "timeout"},
            resp    : Response \cup {NoResponse}]]
    /\ received \subseteq Calls
    /\ hpc \in [Handlers -> {"idle", "lookup", "send", "done", "panicked"}]
    /\ resp \in [Handlers -> Response \cup {NoResponse}]
    /\ respChan \in [Handlers -> Calls \cup {NoCall}]

\* A call returns a response to its own request only, however the calls, the
\* responses and the timeouts interleave (client.go request, handleResponse).
OwnResponse ==
    \A r \in Calls :
        result[r].resp # NoResponse => result[r].resp.req = r

\* The table holds exactly the calls that are between registration and
\* removal, each under its own echo: no waiter leaks after its call gave up,
\* none is lost while its call waits, and no closed channel can be looked up.
WaiterTableExact ==
    /\ {websocketRequests[e] : e \in DOMAIN websocketRequests} = Registered
    /\ \A e \in DOMAIN websocketRequests :
           /\ echo[websocketRequests[e]] = e
           /\ websocketRequests[e] \notin closed

\* The process dies in a handler only if it looked the waiter up before the
\* call that owns it returned; a response read later is always dropped.
\* Stated on steps: a handler that looks up after the return never sends.
LateLookupIsDropped ==
    [][\A h \in Handlers :
           /\ hpc[h] = "lookup" /\ hpc'[h] # "lookup"
           /\ pc[resp[h].req] \in {"close", "returned"}
           => hpc'[h] = "done"]_vars

\* handleResponse delivers a response, or drops it with a warning; it does
\* not end the process ("Dropping response to ...: unknown request ID").
NeverPanics == ~Panicked

\* Every call returns, whatever NapCat answers, unless the process died.
CallsReturn ==
    \A r \in Calls : pc[r] # "new" ~> (pc[r] = "returned" \/ Panicked)

\* No handler goroutine stays behind: not on a full channel nobody reads,
\* not for a call that has gone.
HandlersFinish ==
    \A h \in Handlers : hpc[h] = "lookup" ~> (hpc[h] = "done" \/ Panicked)

(* The inductive invariant: how program counters, echoes, table, channels  *)
(* and responses in flight hang together.                                  *)

\* Each call has an echo of its own as soon as it has one.
EchoesDistinct ==
    /\ \A r \in Calls : pc[r] = "new" <=> echo[r] = 0
    /\ \A r, s \in Calls : echo[r] = echo[s] /\ echo[r] # 0 => r = s

\* The table, call by call and entry by entry; channels close after removal.
TableInv ==
    /\ \A r \in Registered : /\ echo[r] \in DOMAIN websocketRequests
                             /\ websocketRequests[echo[r]] = r
    /\ \A e \in DOMAIN websocketRequests :
           /\ websocketRequests[e] \in Registered
           /\ echo[websocketRequests[e]] = e
    /\ closed = {r \in Calls : pc[r] = "returned"}

\* What is on its way to a call is an answer to that call.
ResponsesInv ==
    /\ \A r \in received : pc[r] \in {"wait", "remove", "close", "returned"}
    /\ \A h \in Handlers :
           /\ hpc[h] = "idle" <=> resp[h] = NoResponse
           /\ hpc[h] # "idle" => /\ resp[h].req \in received
                                /\ resp[h].echo = echo[resp[h].req]
           /\ hpc[h] = "send" => respChan[h] = resp[h].req
    /\ \A r \in Calls :
           buffer[r] # NoResponse =>
               /\ buffer[r].req = r
               /\ \E h \in Handlers : resp[h] = buffer[r]

\* A call has a result once it is leaving, and it is its own.
ResultsInv ==
    \A r \in Calls :
        /\ result[r].outcome = "none"
               <=> pc[r] \in {"new", "register", "write", "wait"}
        /\ result[r].resp # NoResponse => result[r].resp.req = r

IInv == TypeOK /\ EchoesDistinct /\ TableInv /\ ResponsesInv /\ ResultsInv
-----------------------------------------------------------------------------
\* The abstract calls this module implements.
Status(r) ==
    IF pc[r] = "new" THEN "idle"
    ELSE IF result[r].outcome = "none" THEN "pending"
    ELSE IF result[r].outcome \in Verdict THEN result[r].outcome
    ELSE "error"

Answered == {<<resp[h].req, resp[h].status>> :
                 h \in {h \in Handlers : resp[h] # NoResponse}}

RR == INSTANCE RequestReply
        WITH status  <- [r \in Calls |-> Status(r)],
             answers <- Answered

\* The goroutines, channels and table implement RequestReply.
Implements == RR!Spec
=============================================================================
