-------------------------- MODULE WebsocketSession --------------------------
(***************************************************************************)
(* The websocket between one napcat.Client and its NapCat instance:        *)
(* Manager.ServeHTTP installs each connection NapCat makes (updateConn)    *)
(* and serves it (Serve); Client._request writes on whatever connection is *)
(* installed (client.go, manager.go).                                      *)
(*                                                                         *)
(* A session is one call of ServeHTTP, and names the connection it         *)
(* upgraded.  Client.conn and Close are guarded by writeLock, but Serve    *)
(* reads Client.conn without it before every frame.                        *)
(***************************************************************************)
CONSTANTS Sessions,          \* calls of ServeHTTP for this client
          Writers,           \* calls of Client._request
          None               \* nil, and a lock nobody holds

ASSUME NoneAssumption == None \notin Sessions \cup Writers

VARIABLES pc,                \* where each session is
          reading,           \* the connection each session reads from
          conn,              \* Client.conn
          open,              \* connections this process has not closed
          alive,             \* connections NapCat has not lost
          wpc,               \* where each writer is
          writeLock

sessionVars == <<pc, reading>>
writerVars  == <<wpc, writeLock>>
vars == <<sessionVars, conn, open, alive, writerVars>>

Init ==
    /\ pc = [s \in Sessions |-> "new"]
    /\ reading = [s \in Sessions |-> None]
    /\ conn = None
    /\ open = {}
    /\ alive = {}
    /\ wpc = [w \in Writers |-> "lock"]
    /\ writeLock = None
-----------------------------------------------------------------------------
(* NapCat and the network.                                                 *)

\* upgrader.Upgrade.  NapCat connects when it has no connection: it may have
\* lost one that this process still takes for a good one.
Upgrade(s) ==
    /\ pc[s] = "new"
    /\ alive \cap open = {}
    /\ pc' = [pc EXCEPT ![s] = "install"]
    /\ open' = open \cup {s}
    /\ alive' = alive \cup {s}
    /\ UNCHANGED <<reading, conn, writerVars>>

\* NapCat stops, or the network loses the connection.
Drop(s) ==
    /\ s \in alive
    /\ alive' = alive \ {s}
    /\ UNCHANGED <<sessionVars, conn, open, writerVars>>
-----------------------------------------------------------------------------
(* A session.                                                              *)

\* Mutant: the connection that is replaced is not closed.
updateConnOpen(c) ==
    /\ writeLock = None
    /\ conn' = c
    /\ UNCHANGED open

\* Mutant: writeLock is not taken.
updateConnUnlocked(c) ==
    /\ open' = open \ {conn}
    /\ conn' = c

\* The whole critical section of updateConn.
updateConn(c) ==
    /\ writeLock = None
    /\ open' = open \ {conn}
    /\ conn' = c

Install(s) ==
    /\ pc[s] = "install"
    /\ updateConn(s)
    /\ pc' = [pc EXCEPT ![s] = "serve"]
    /\ UNCHANGED <<reading, alive, writerVars>>

\* c.conn, read without writeLock; ReadJSON on nil panics, which runs the
\* deferred updateConn(nil) and is recovered by net/http.
LoadConn(s) ==
    /\ pc[s] = "serve"
    /\ reading' = [reading EXCEPT ![s] = conn]
    /\ pc' = [pc EXCEPT ![s] = IF conn = None THEN "leave" ELSE "read"]
    /\ UNCHANGED <<conn, open, alive, writerVars>>

\* ReadJSON returns a frame; what Serve starts for it is not modelled here.
ReadFrame(s) ==
    /\ pc[s] = "read"
    /\ reading[s] \in open \cap alive
    /\ pc' = [pc EXCEPT ![s] = "serve"]
    /\ UNCHANGED <<reading, conn, open, alive, writerVars>>

\* ReadJSON fails: the connection is closed or lost, or another session reads
\* from it too, which gorilla/websocket does not support.
ReadError(s) ==
    /\ pc[s] = "read"
    /\ \/ reading[s] \notin open \cap alive
       \/ \E t \in Sessions \ {s} :
              pc[t] = "read" /\ reading[t] = reading[s]
    /\ pc' = [pc EXCEPT ![s] = "leave"]
    /\ UNCHANGED <<reading, conn, open, alive, writerVars>>

\* Mutant: the deferred updateConn(nil) is missing.
LeaveInstalled(s) ==
    /\ pc[s] = "leave"
    /\ pc' = [pc EXCEPT ![s] = "done"]
    /\ UNCHANGED <<reading, conn, open, alive, writerVars>>

\* The deferred updateConn(nil): it closes whatever connection is installed.
Leave(s) ==
    /\ pc[s] = "leave"
    /\ updateConn(None)
    /\ pc' = [pc EXCEPT ![s] = "done"]
    /\ UNCHANGED <<reading, alive, writerVars>>

ServeHTTP(s) ==
    \/ Install(s)
    \/ LoadConn(s)
    \/ ReadFrame(s)
    \/ ReadError(s)
    \/ Leave(s)
-----------------------------------------------------------------------------
(* Client._request.                                                        *)

LockWrite(w) ==
    /\ wpc[w] = "lock"
    /\ writeLock = None
    /\ writeLock' = w
    /\ wpc' = [wpc EXCEPT ![w] = "check"]
    /\ UNCHANGED <<sessionVars, conn, open, alive>>

\* Mutant: the early return leaves writeLock locked.
NotConnectedLocked(w) ==
    /\ wpc[w] = "check"
    /\ conn = None
    /\ wpc' = [wpc EXCEPT ![w] = "done"]
    /\ UNCHANGED <<sessionVars, conn, open, alive, writeLock>>

\* "websocket not connected"
NotConnected(w) ==
    /\ wpc[w] = "check"
    /\ conn = None
    /\ writeLock' = None
    /\ wpc' = [wpc EXCEPT ![w] = "done"]
    /\ UNCHANGED <<sessionVars, conn, open, alive>>

StartWrite(w) ==
    /\ wpc[w] = "check"
    /\ conn # None
    /\ wpc' = [wpc EXCEPT ![w] = "write"]
    /\ UNCHANGED <<sessionVars, conn, open, alive, writeLock>>

\* WriteJSON returns, at the write deadline at the latest.
EndWrite(w) ==
    /\ wpc[w] = "write"
    /\ writeLock' = None
    /\ wpc' = [wpc EXCEPT ![w] = "done"]
    /\ UNCHANGED <<sessionVars, conn, open, alive>>

_request(w) ==
    \/ LockWrite(w)
    \/ NotConnected(w)
    \/ StartWrite(w)
    \/ EndWrite(w)

Terminated ==
    /\ \A s \in Sessions : pc[s] \in {"done", "read"}
    /\ \A w \in Writers : wpc[w] = "done"
    /\ UNCHANGED vars

Next ==
    \/ \E s \in Sessions : Upgrade(s) \/ Drop(s) \/ ServeHTTP(s)
    \/ \E w \in Writers : _request(w)
    \/ Terminated

\* Every goroutine that can move does; NapCat need not send anything, but a
\* connection that is gone is noticed.
Fairness ==
    /\ \A s \in Sessions :
           /\ WF_vars(Install(s) \/ LoadConn(s) \/ Leave(s))
           /\ WF_vars(ReadError(s))
    /\ \A w \in Writers : WF_vars(_request(w))

Spec == Init /\ [][Next]_vars /\ Fairness
-----------------------------------------------------------------------------
(* Properties.                                                             *)

\* Every variable has its type; a part of IInv.
TypeOK ==
    /\ pc \in [Sessions -> {"new", "install", "serve", "read", "leave",
                            "done"}]
    /\ reading \in [Sessions -> Sessions \cup {None}]
    /\ conn \in Sessions \cup {None}
    /\ open \subseteq Sessions
    /\ alive \subseteq Sessions
    /\ wpc \in [Writers -> {"lock", "check", "write", "done"}]
    /\ writeLock \in Writers \cup {None}

\* No connection is left open that no session will close, however sessions
\* overtake each other: only the installed one is open, and those about to
\* be installed.  (net/http does not close a hijacked connection.)
NoSocketLeak ==
    \A s \in open : s = conn \/ pc[s] = "install"

\* A writer never writes on a connection this process has closed, although
\* sessions come and go while it writes.
WritesOnOpen ==
    \A w \in Writers : wpc[w] = "write" => conn # None /\ conn \in open

\* The installed connection has a session that will clear it: requests never
\* go for ever to a connection nobody serves.
InstalledIsServed ==
    conn # None => pc[conn] \in {"serve", "read", "leave"}

\* When the last connection is lost and NapCat does not come back, Client.conn
\* is nil in the end, and every session returns.
LostIsCleared ==
    (\A s \in Sessions : pc[s] # "new" /\ s \notin alive)
        ~> (conn = None /\ open = {} /\ \A s \in Sessions : pc[s] = "done")

\* Every request gets its turn to write, or learns that there is no
\* connection.
WritersFinish == \A w \in Writers : wpc[w] = "lock" ~> wpc[w] = "done"

\* The inductive invariant: writeLock, the installed connection and the
\* sessions hang together.
IInv ==
    /\ TypeOK
    /\ NoSocketLeak
    /\ InstalledIsServed
    /\ conn # None => conn \in open
    /\ \A w \in Writers : writeLock = w <=> wpc[w] \in {"check", "write"}
    /\ \A w \in Writers : wpc[w] = "write" => conn # None
    /\ \A s \in Sessions : /\ pc[s] = "new" => s \notin open
                           /\ pc[s] = "install" => s \in open
                           /\ pc[s] = "read" => reading[s] # None
=============================================================================
