------------------------------- MODULE Client --------------------------------
(***************************************************************************)
(* One napcat.Client as a whole: its websocket sessions (WebsocketSession), *)
(* the requests it sends and the answers it gets over them (NapCatRPC), and *)
(* the events that arrive between the answers (EventDispatch).  An event    *)
(* with media calls Client.request itself (getMedia), while it holds the    *)
(* mutex of its chat.                                                       *)
(*                                                                          *)
(* Each action joins the steps the three parts take together: a frame that  *)
(* is read starts the goroutine of an event or of an answer; a call writes   *)
(* under writeLock on whatever connection is installed; an answer comes     *)
(* over the connection its request was written on.  New here is what none   *)
(* of the parts can say: that gorilla/websocket refuses every write on a    *)
(* connection once a write on it has failed, and which calls had reason to  *)
(* fail.                                                                    *)
(*                                                                          *)
(* NapCat answers a request at most once here, early or late; NapCatRPC      *)
(* shows what repeated answers do.  The deadline of a call may pass at any   *)
(* time after request() began: while it waits for writeLock, too.           *)
(***************************************************************************)
EXTENDS Naturals, Sequences

CONSTANTS Events,            \* the events NapCat sends
          Media,             \* those that need a file from NapCat
          Requests,          \* requests of the bridge that call NapCat
          Sessions,          \* calls of ServeHTTP
          Chats, chatOf,     \* chats, and the chat of each event
          Buckets, hash,     \* the key mutex
          None

Callers == Media \cup Requests

ASSUME ClientAssumption ==
    /\ Media \subseteq Events
    /\ Events \cap Requests = {}
    /\ chatOf \in [Events -> Chats]
    /\ hash \in [Chats \cup {None} -> Buckets]
    /\ None \notin Events \cup Requests \cup Sessions \cup Chats

VARIABLES
    pc, sent, lost, mutexes,                               \* EventDispatch
    cpc, echo, websocketRequestID, websocketRequests,      \* NapCatRPC
    buffer, closed, result, received, hpc, resp, respChan,
    spc, reading, conn, open, alive, wpc, writeLock,       \* WebsocketSession
    writtenOn,               \* the connection each request was written on
    broken,                  \* connections a write has failed on
    disturbed,               \* calls with reason to fail (history)
    expired                  \* calls whose context is done

eventVars   == <<pc, sent, lost, mutexes>>
callVars    == <<cpc, echo, websocketRequestID, websocketRequests, buffer,
                 closed, result, received, hpc, resp, respChan>>
sessionVars == <<spc, reading, conn, open, alive, wpc, writeLock>>
ownVars     == <<writtenOn, broken, disturbed, expired>>
vars        == <<eventVars, callVars, sessionVars, ownVars>>

Dispatch == INSTANCE EventDispatch WITH
    Keys <- Chats \cup {None}, NoKey <- None, Free <- None,
    event <- [e \in Events |->
                 IF pc[e] = "unread"
                 THEN [type |-> "none", chat |-> None, target |-> None]
                 ELSE [type |-> "group_message", chat |-> chatOf[e],
                       target |-> None]]

\* The handler of an answer is named by the call it answers.
RPC == INSTANCE NapCatRPC WITH
    Calls <- Callers, Handlers <- Callers, NoCall <- None, pc <- cpc

Socket == INSTANCE WebsocketSession WITH Writers <- Callers, pc <- spc

Init ==
    /\ Dispatch!Init
    /\ RPC!Init
    /\ Socket!Init
    /\ writtenOn = [c \in Callers |-> None]
    /\ broken = {}
    /\ disturbed = {}
    /\ expired = {}

InFlight == {c \in Callers : cpc[c] \notin {"new", "returned"}}

\* The installed connection is good: NapCat has it too, and writes succeed.
Healthy == conn \in (alive \cap open) \ broken

\* What happens disturbs every call that is under way.
Disturb == disturbed' = disturbed \cup InFlight
-----------------------------------------------------------------------------
(* Sessions.                                                               *)

\* NapCat connects; or it stops, or the network loses a connection.
Upgrade(s) == Socket!Upgrade(s) /\ UNCHANGED <<eventVars, callVars, ownVars>>

Drop(s) ==
    /\ Socket!Drop(s)
    /\ Disturb
    /\ UNCHANGED <<eventVars, callVars, writtenOn, broken, expired>>

\* updateConn(conn) and the deferred updateConn(nil) replace whatever
\* connection is installed, and close it.
Replace(s) ==
    /\ Socket!Install(s) \/ Socket!Leave(s)
    /\ IF conn = None THEN UNCHANGED disturbed ELSE Disturb
    /\ UNCHANGED <<eventVars, callVars, writtenOn, broken, expired>>

\* Mutant: handleEvent is called without the keyword go.
LoadConnInline(s) ==
    /\ \A e \in Events : pc[e] \in {"unread", "done"}
    /\ Socket!LoadConn(s)
    /\ UNCHANGED <<eventVars, callVars, ownVars>>

\* Serve's loop: the connection it is to read from.
LoadConn(s) == Socket!LoadConn(s) /\ UNCHANGED <<eventVars, callVars, ownVars>>

ReadError(s) ==
    Socket!ReadError(s) /\ UNCHANGED <<eventVars, callVars, ownVars>>

\* case PayloadEvent: go c.handleEvent(...)
ServeEvent(s, e) ==
    /\ Socket!ReadFrame(s)
    /\ Dispatch!ReadEvent(e)
    /\ UNCHANGED <<callVars, ownVars>>

\* case PayloadResponse: go c.handleResponse(...)
ServeAnswer(s, c) ==
    /\ Socket!ReadFrame(s)
    /\ writtenOn[c] = reading[s]
    /\ RPC!ServeResponse(c)
    /\ resp'[c].req = c
    /\ UNCHANGED <<eventVars, ownVars>>

HandlerStep(c) ==
    RPC!HandlerStep(c) /\ UNCHANGED <<eventVars, sessionVars, ownVars>>
-----------------------------------------------------------------------------
(* Client.request, called by the bridge's requests and by getMedia.        *)

Begin(c) ==
    /\ c \in Events => pc[c] = "handle"
    /\ RPC!TakeEcho(c)
    /\ disturbed' = IF Healthy THEN disturbed ELSE disturbed \cup {c}
    /\ UNCHANGED <<eventVars, sessionVars, writtenOn, broken, expired>>

LockWrite(c) ==
    /\ cpc[c] = "write"
    /\ Socket!LockWrite(c) \/ Socket!StartWrite(c)
    /\ UNCHANGED <<eventVars, callVars, ownVars>>

NotConnected(c) ==
    /\ Socket!NotConnected(c)
    /\ RPC!WriteFails(c)
    /\ UNCHANGED <<eventVars, ownVars>>

\* WriteJSON returns nil: the frame is in the kernel's buffer at least.
WriteDone(c) ==
    /\ Socket!EndWrite(c)
    /\ conn \notin broken
    /\ RPC!Written(c)
    /\ writtenOn' = [writtenOn EXCEPT ![c] = conn]
    /\ UNCHANGED <<eventVars, broken, disturbed, expired>>

\* WriteJSON fails: the deadline passed or the connection is lost; from then
\* on it fails at once on this connection, and nothing closes it.
WriteError(c) ==
    /\ Socket!EndWrite(c)
    /\ RPC!WriteFails(c)
    /\ broken' = broken \cup {conn}
    /\ IF conn \in broken THEN UNCHANGED disturbed ELSE Disturb
    /\ UNCHANGED <<eventVars, writtenOn, expired>>

\* context.WithTimeout, made when request() begins, runs out.
Expire(c) ==
    /\ cpc[c] \in {"register", "write", "wait"}
    /\ expired' = expired \cup {c}
    /\ UNCHANGED <<eventVars, callVars, sessionVars, writtenOn, broken,
                   disturbed>>

\* Mutant: the calls of a client share one context.
TimeoutShared(c) ==
    /\ expired # {}
    /\ RPC!Timeout(c)
    /\ UNCHANGED <<eventVars, sessionVars, ownVars>>

\* case <-ctx.Done()
Timeout(c) ==
    /\ c \in expired
    /\ RPC!Timeout(c)
    /\ UNCHANGED <<eventVars, sessionVars, ownVars>>

\* The steps of request in which only the table and the channel matter.
CallStep(c) ==
    /\ \/ RPC!addWebsocketResponseWaiter(c)
       \/ RPC!ReceiveResponse(c)
       \/ RPC!RemoveWaiter(c)
       \/ RPC!CloseWaiter(c)
    /\ UNCHANGED <<eventVars, sessionVars, ownVars>>

\* The steps a call that has begun takes by itself.
Proceed(c) ==
    \/ LockWrite(c)
    \/ NotConnected(c)
    \/ WriteDone(c)
    \/ WriteError(c)
    \/ Timeout(c)
    \/ CallStep(c)

request(c) == Begin(c) \/ Expire(c) \/ Proceed(c)
-----------------------------------------------------------------------------
\* Mutant: media are fetched in a goroutine of their own.
handleEventUnawaited(e) ==
    /\ Dispatch!Lock(e) \/ Dispatch!Handle(e) \/ Dispatch!Transmit(e)
       \/ Dispatch!Unlock(e)
    /\ UNCHANGED <<callVars, sessionVars, ownVars>>

\* handleEvent.  getMedia downloads before its call, after it, or without
\* making it; a call it has begun it waits for.
handleEvent(e) ==
    /\ \/ Dispatch!Lock(e)
       \/ /\ e \in Media => e \notin InFlight
          /\ Dispatch!Handle(e)
       \/ Dispatch!Transmit(e)
       \/ Dispatch!Unlock(e)
    /\ UNCHANGED <<callVars, sessionVars, ownVars>>

\* The client is at rest: nothing runs but sessions waiting for a frame.
\* Or a handler has ended the process.
Terminated ==
    /\ \/ RPC!Panicked
       \/ /\ \A c \in Callers : cpc[c] \in {"new", "returned"}
          /\ \A e \in Events : pc[e] \in {"unread", "done"}
          /\ \A s \in Sessions : spc[s] \in {"new", "read", "done"}
    /\ UNCHANGED vars

Next ==
    \/ /\ ~RPC!Panicked
       /\ \/ \E s \in Sessions :
                 \/ Upgrade(s) \/ Drop(s) \/ Replace(s) \/ LoadConn(s)
                 \/ ReadError(s)
                 \/ \E e \in Events : ServeEvent(s, e)
                 \/ \E c \in Callers : ServeAnswer(s, c)
          \/ \E c \in Callers : HandlerStep(c) \/ request(c)
          \/ \E e \in Events : handleEvent(e)
    \/ Terminated

\* getMedia downloads; httpClient has no timeout.
Downloads(e) == e \in Media /\ pc[e] = "handle" /\ e \notin InFlight

\* The answer to the call is lost with the connection.
Unanswerable(c) == hpc[c] = "idle" /\ writtenOn[c] \notin alive \cap open

\* Goroutines that can move do, except that nothing makes a download end; a
\* lost connection is noticed, and NapCat answers what it got over a
\* connection it still has.  Of deadlines only that of a call that waits for
\* an answer that cannot come is said to pass.
Fairness ==
    /\ \A s \in Sessions :
           WF_vars(~RPC!Panicked /\ (Replace(s) \/ LoadConn(s) \/ ReadError(s)))
    /\ \A c \in Callers :
           /\ WF_vars(/\ c \in InFlight /\ ~RPC!Panicked
                      /\ \/ Proceed(c)
                         \/ cpc[c] = "wait" /\ Unanswerable(c) /\ Expire(c))
           /\ WF_vars(/\ c \in received /\ hpc[c] # "done" /\ ~RPC!Panicked
                      /\ HandlerStep(c) \/ \E s \in Sessions : ServeAnswer(s, c))
    /\ \A e \in Events :
           WF_vars(/\ pc[e] \notin {"unread", "done"} /\ ~RPC!Panicked
                   /\ ~Downloads(e) /\ handleEvent(e))

Spec == Init /\ [][Next]_vars /\ Fairness
-----------------------------------------------------------------------------
(* Properties.                                                             *)

\* The three parts keep together: whoever holds writeLock is a call about to
\* write; a call of an event runs while the event holds its chat's mutex; a
\* request NapCat can answer was written on a connection that is known; and
\* an answer finds its channel closed, which ends the process, only if the
\* call it is for gave up because its deadline had passed.
Joined ==
    /\ writeLock # None => cpc[writeLock] = "write"
    /\ \A e \in Media : e \in InFlight =>
           pc[e] = "handle" /\ mutexes[hash[chatOf[e]]] = e
    /\ \A c \in Callers : c \in received <=> writtenOn[c] # None
    /\ \A c \in Callers :
           hpc[c] = "panicked" => c \in expired /\ result[c].outcome = "timeout"

\* A call that returns with anything but NapCat's answer has seen its own
\* deadline pass, or was disturbed: while it was under way a connection was
\* lost or replaced or a first write failed on one, or it began without a
\* good connection.  No interplay of sessions, calls and events makes it
\* fail otherwise (client.go request).
UndisturbedCallAnswered ==
    \A c \in Callers \ (disturbed \cup expired) :
        cpc[c] = "returned" => result[c].outcome \in RPC!Verdict

\* An event is held up by a download under the mutex it needs.
HeldUp(e) ==
    \E f \in Media : Downloads(f) /\ hash[chatOf[f]] = hash[chatOf[e]]

\* Every event that was read is handled, although handlers of one chat wait
\* for each other and the first of them waits for NapCat: Serve never waits
\* for a handler, so that the answer a handler waits for can always be read.
\* Only a download that never ends, or the end of the process, prevents it.
EventsHandled ==
    \A e \in Events :
        pc[e] = "lock" ~> (pc[e] = "done" \/ RPC!Panicked \/ []HeldUp(e))

(* The inductive invariant: those of the parts, and how the parts hang      *)
(* together.                                                                *)

PartsInv ==
    /\ Dispatch!TypeOK /\ Dispatch!BucketInv
    /\ RPC!IInv
    /\ Socket!IInv

\* A call writes once, and an event waits for its own call.
CallInv ==
    /\ \A c \in Callers :
           /\ cpc[c] \in {"new", "register"} => wpc[c] = "lock"
           /\ cpc[c] \notin {"new", "register", "write"} => wpc[c] = "done"
    /\ \A e \in Media : e \in InFlight => pc[e] = "handle"

Left(c) == cpc[c] \in {"remove", "close", "returned"}

\* The answer to a call: over the connection the call was written on, handled
\* once, and late only for a call whose deadline has passed.
AnswerInv ==
    /\ writtenOn \in [Callers -> Sessions \cup {None}]
    /\ \A c \in Callers :
           /\ c \in received <=> writtenOn[c] # None
           /\ writtenOn[c] # None => spc[writtenOn[c]] # "new"
           /\ hpc[c] # "idle" => resp[c].req = c
           /\ buffer[c] # RPC!NoResponse => hpc[c] = "done"
           /\ cpc[c] = "wait" /\ hpc[c] = "done" => buffer[c] # RPC!NoResponse
           /\ hpc[c] = "panicked" => result[c].outcome = "timeout"
           /\ result[c].outcome = "timeout" => c \in expired
           /\ result[c].outcome = "write_error" => c \notin received
           /\ result[c].outcome \in RPC!Verdict => hpc[c] = "done"

\* What nothing disturbed has a good connection for as long as it needs one.
UndisturbedInv ==
    \A c \in Callers \ disturbed :
        /\ c \in InFlight => Healthy
        /\ cpc[c] = "wait" => writtenOn[c] = conn
        /\ Left(c) => result[c].outcome \in RPC!Verdict \cup {"timeout"}

IInv == PartsInv /\ CallInv /\ AnswerInv /\ UndisturbedInv
=============================================================================
