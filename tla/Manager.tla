------------------------------ MODULE Manager -------------------------------
(***************************************************************************)
(* The request side of the agent: Manager.ProcessRequest, one goroutine    *)
(* per request of the Octopus bridge (service.go consumeWebsocket), with   *)
(* getClient and handleRequest (manager.go), Client.Connect, Disconnect    *)
(* and Login (handle_octopus.go), Manager.Stop, and the NapCat processes.  *)
(*                                                                         *)
(* Steps are cut at the two locks: Manager.clientsLock and the             *)
(* instanceLock of each client.  A client object is named by the request   *)
(* whose getClient made it, an instance by the Connect request that        *)
(* started it; the file webui.json, shared by all clients, is abstracted   *)
(* to the port written in it.  The methods that neither lock nor change    *)
(* anything here (GetUserInfo, SendMessage, ...) are one kind, "other".    *)
(***************************************************************************)
EXTENDS Naturals, FiniteSets

CONSTANTS Requests,         \* goroutines inside Manager.ProcessRequest
          Mxids,            \* the Matrix users requests are made for
          None,             \* nil: no client, no instance, lock not held
          Main,             \* the goroutine that runs Manager.Stop
          ManagerPort,      \* config.NapCat.ManagerPort
          StartMayFail,     \* whether starting the NapCat command may fail
          MayStop           \* whether the agent may be told to shut down

ASSUME ManagerAssumption ==
    /\ None \notin Requests \cup Mxids \cup {Main}
    /\ Main \notin Requests
    /\ ManagerPort \in Nat \ {0}
    /\ StartMayFail \in BOOLEAN
    /\ MayStop \in BOOLEAN

VARIABLES pc,             \* where each request is
          method,         \* req.Type
          mxid,           \* the user of each request
          client,         \* the client object each request got
          clients,        \* Manager.clients: user -> client object
          port,           \* Client.port of each client object, 0 before
          clientIncPort,
          clientsLock,    \* who holds Manager.clientsLock
          instanceLock,   \* who holds each client's instanceLock
          instance,       \* Client.instance of each client object
          process,        \* the state of each instance's process
          stopped,        \* the instances on which Stop was called
          webui,          \* the port in webui.json, 0 when it has none
          loaded,         \* the port each instance read from webui.json
          stop,           \* how far the agent's shutdown is
          left,           \* the users Manager.Stop has not come to yet
          astray          \* history: the users of whom a connect or a
                          \* disconnect locked clientsLock with a client
                          \* that was no longer the registered one

what        == <<method, mxid, astray>>
requestVars == <<pc, what, client>>
registry    == <<clients, port, clientIncPort>>
world       == <<process, webui, loaded>>
stopVars    == <<stop, left>>
vars == <<requestVars, registry, clientsLock, instanceLock, instance,
          stopped, world, stopVars>>

Lifecycle == {"connect", "disconnect"}
Methods   == Lifecycle \cup {"login", "other"}

Init ==
    /\ pc = [r \in Requests |-> "new"]
    /\ method = [r \in Requests |-> "none"]
    /\ mxid = [r \in Requests |-> None]
    /\ client = [r \in Requests |-> None]
    /\ clients = [x \in Mxids |-> None]
    /\ port = [o \in Requests |-> 0]
    /\ clientIncPort = ManagerPort + 1
    /\ clientsLock = None
    /\ instanceLock = [o \in Requests |-> None]
    /\ instance = [o \in Requests |-> None]
    /\ process = [i \in Requests |-> "none"]
    /\ stopped = {}
    /\ webui = 0
    /\ loaded = [i \in Requests |-> 0]
    /\ stop = "serving"
    /\ left = {}
    /\ astray = {}

Goto(r, place) == pc' = [pc EXCEPT ![r] = place]
-----------------------------------------------------------------------------
(* A request arrives and gets its client.                                  *)

\* go s.manager.ProcessRequest(pkt.ID, pkt.MXID, request)
ProcessRequest(r) ==
    /\ pc[r] = "new"
    /\ \E m \in Methods, x \in Mxids :
           /\ method' = [method EXCEPT ![r] = m]
           /\ mxid' = [mxid EXCEPT ![r] = x]
    /\ Goto(r, "getClient")
    /\ UNCHANGED <<client, astray, registry, clientsLock, instanceLock,
                   instance, stopped, world, stopVars>>

\* Where handleRequest goes with the client it got.
FirstStep(m) == CASE m \in Lifecycle -> "lockClients"
                  [] m = "login"     -> "lockLogin"
                  [] OTHER           -> "call"

\* Mutant: the port is not stepped.
getClientSamePort(r) ==
    /\ pc[r] = "getClient"
    /\ clientsLock = None
    /\ LET known == clients[mxid[r]] IN
       IF known # None
       THEN /\ client' = [client EXCEPT ![r] = known]
            /\ UNCHANGED registry
       ELSE /\ client' = [client EXCEPT ![r] = r]
            /\ clients' = [clients EXCEPT ![mxid[r]] = r]
            /\ port' = [port EXCEPT ![r] = clientIncPort]
            /\ UNCHANGED clientIncPort
    /\ Goto(r, FirstStep(method[r]))
    /\ UNCHANGED <<what, clientsLock, instanceLock, instance,
                   stopped, world, stopVars>>

\* Mutant: a registered client is not found again.
getClientNew(r) ==
    /\ pc[r] = "getClient"
    /\ clientsLock = None
    /\ client' = [client EXCEPT ![r] = r]
    /\ clients' = [clients EXCEPT ![mxid[r]] = r]
    /\ port' = [port EXCEPT ![r] = clientIncPort]
    /\ clientIncPort' = clientIncPort + 1
    /\ Goto(r, FirstStep(method[r]))
    /\ UNCHANGED <<what, clientsLock, instanceLock, instance,
                   stopped, world, stopVars>>

\* The critical section of getClient: the registered client, or a new one
\* on the next port, registered for whatever method the request asks.
getClient(r) ==
    /\ pc[r] = "getClient"
    /\ clientsLock = None
    /\ LET known == clients[mxid[r]] IN
       IF known # None
       THEN /\ client' = [client EXCEPT ![r] = known]
            /\ UNCHANGED registry
       ELSE /\ client' = [client EXCEPT ![r] = r]
            /\ clients' = [clients EXCEPT ![mxid[r]] = r]
            /\ port' = [port EXCEPT ![r] = clientIncPort]
            /\ clientIncPort' = clientIncPort + 1
    /\ Goto(r, FirstStep(method[r]))
    /\ UNCHANGED <<what, clientsLock, instanceLock, instance,
                   stopped, world, stopVars>>

\* handleRequest takes clientsLock again for connect and disconnect, and does
\* not look whether its client is still the registered one ...
LockClients(r) ==
    /\ pc[r] = "lockClients"
    /\ clientsLock = None
    /\ clientsLock' = r
    /\ astray' = IF clients[mxid[r]] = client[r] THEN astray
                                                ELSE astray \cup {mxid[r]}
    /\ Goto(r, "lockInstance")
    /\ UNCHANGED <<method, mxid, client, registry, instanceLock, instance,
                   stopped, world, stopVars>>

\* ... and Connect, Disconnect and Login take instanceLock.
LockInstance(r) ==
    /\ pc[r] \in {"lockInstance", "lockLogin"}
    /\ instanceLock[client[r]] = None
    /\ instanceLock' = [instanceLock EXCEPT ![client[r]] = r]
    /\ Goto(r, IF method[r] = "disconnect" THEN "stopInstance"
                                           ELSE method[r])
    /\ UNCHANGED <<what, client, registry, clientsLock, instance,
                   stopped, world, stopVars>>

UnlockInstance(r) == instanceLock' = [instanceLock EXCEPT ![client[r]] = None]
-----------------------------------------------------------------------------
(* Client.Connect, under both locks; the deferred unlocks end it.          *)

LeaveConnect(r) ==
    /\ UnlockInstance(r)
    /\ clientsLock' = None
    /\ Goto(r, "reply")
    /\ UNCHANGED <<what, client, registry, stopVars>>

\* Mutant: the test of Complete is inverted.
InstanceComplete(o) ==
    instance[o] # None /\ process[instance[o]] = "exited"

\* c.instance != nil && !c.instance.Status().Complete.  Complete is true
\* only of a process that exited by itself.
InstanceExists(o) ==
    instance[o] # None /\ process[instance[o]] # "exited"

ConnectExisting(r) ==
    /\ pc[r] = "connect"
    /\ InstanceExists(client[r])
    /\ LeaveConnect(r)
    /\ UNCHANGED <<instance, stopped, world>>

overwriteWebUIConfig(r) ==
    /\ pc[r] = "connect"
    /\ ~InstanceExists(client[r])
    /\ webui' = port[client[r]]
    /\ Goto(r, "start")
    /\ UNCHANGED <<what, client, registry, clientsLock, instanceLock,
                   instance, stopped, process, loaded, stopVars>>

\* The file cannot be opened, or is truncated and then cannot be written.
OverwriteFails(r) ==
    /\ pc[r] = "connect"
    /\ ~InstanceExists(client[r])
    /\ webui' \in {webui, 0}
    /\ LeaveConnect(r)
    /\ UNCHANGED <<instance, stopped, process, loaded>>

\* instance.Start() returns at once.
StartInstance(r) ==
    /\ pc[r] = "start"
    /\ process' = [process EXCEPT ![r] = "starting"]
    /\ Goto(r, "waitPID")
    /\ UNCHANGED <<what, client, registry, clientsLock, instanceLock,
                   instance, stopped, webui, loaded, stopVars>>

\* The select ends after a second, or at once when init_timeout has passed:
\* the break under ctx.Done() leaves the select, and the loop polls on.
PollAgain(r) ==
    /\ pc[r] = "waitPID"
    /\ process[r] \in {"starting", "failed"}
    /\ UNCHANGED vars

\* instance.Status().PID # 0, the only way out of the loop.
SeePID(r) ==
    /\ pc[r] = "waitPID"
    /\ process[r] \in {"running", "exited", "signaled"}
    /\ instance' = [instance EXCEPT ![client[r]] = r]
    /\ LeaveConnect(r)
    /\ UNCHANGED <<stopped, world>>
-----------------------------------------------------------------------------
(* Client.Disconnect, Client.Login, the other methods, the answer.         *)

\* Mutant: c.instance is not tested for nil.
StopInstanceUntested(o) ==
    /\ stopped' = stopped \cup {instance[o]}
    /\ instance' = [instance EXCEPT ![o] = None]

\* Mutant: c.instance is forgotten but not stopped.
ForgetInstanceOf(o) ==
    /\ instance' = [instance EXCEPT ![o] = None]
    /\ UNCHANGED stopped

\* c.instance.Stop(); c.instance = nil
StopInstanceOf(o) ==
    /\ stopped' = stopped \cup ({instance[o]} \ {None})
    /\ instance' = [instance EXCEPT ![o] = None]

Disconnect(r) ==
    /\ pc[r] = "stopInstance"
    /\ StopInstanceOf(client[r])
    /\ UnlockInstance(r)
    /\ Goto(r, "delete")
    /\ UNCHANGED <<what, client, registry, clientsLock, world,
                   stopVars>>

\* delete(m.clients, mxid), whichever client is registered by now.
DeleteClient(r) ==
    /\ pc[r] = "delete"
    /\ clients' = [clients EXCEPT ![mxid[r]] = None]
    /\ clientsLock' = None
    /\ Goto(r, "reply")
    /\ UNCHANGED <<what, client, port, clientIncPort, instanceLock,
                   instance, stopped, world, stopVars>>

\* Mutant: Login returns without unlocking.
LoginDoneLocked(r) ==
    /\ pc[r] = "login"
    /\ Goto(r, "reply")
    /\ UNCHANGED <<what, client, registry, clientsLock, instanceLock,
                   instance, stopped, world, stopVars>>

\* The HTTP calls of Login are over, one way or the other.
LoginDone(r) ==
    /\ pc[r] = "login"
    /\ UnlockInstance(r)
    /\ Goto(r, "reply")
    /\ UNCHANGED <<what, client, registry, clientsLock, instance,
                   stopped, world, stopVars>>

\* A step that is null, or has no parameters: the deferred Unlock runs, and
\* ProcessRequest recovers the panic.
LoginPanics(r) ==
    /\ pc[r] = "login"
    /\ UnlockInstance(r)
    /\ Goto(r, "panicked")
    /\ UNCHANGED <<what, client, registry, clientsLock, instance,
                   stopped, world, stopVars>>

\* The method returned, with a result or an error ...
OtherDone(r) ==
    /\ pc[r] = "call"
    /\ Goto(r, "reply")
    /\ UNCHANGED <<what, client, registry, clientsLock, instanceLock,
                   instance, stopped, world, stopVars>>

\* ... or panicked, which ProcessRequest recovers and does not answer.
OtherPanics(r) ==
    /\ pc[r] = "call"
    /\ Goto(r, "panicked")
    /\ UNCHANGED <<what, client, registry, clientsLock, instanceLock,
                   instance, stopped, world, stopVars>>

\* m.transmitFunc(respPkt)
SendResponse(r) ==
    /\ pc[r] = "reply"
    /\ Goto(r, "answered")
    /\ UNCHANGED <<what, client, registry, clientsLock, instanceLock,
                   instance, stopped, world, stopVars>>

\* The steps that end when they are reached: all but the methods that wait
\* for the WebUI or for a download.
LocalStep(r) ==
    \/ getClient(r)
    \/ LockClients(r)
    \/ LockInstance(r)
    \/ ConnectExisting(r)
    \/ overwriteWebUIConfig(r)
    \/ OverwriteFails(r)
    \/ StartInstance(r)
    \/ PollAgain(r)
    \/ SeePID(r)
    \/ Disconnect(r)
    \/ DeleteClient(r)
    \/ SendResponse(r)

RequestStep(r) ==
    \/ LocalStep(r)
    \/ LoginDone(r)
    \/ LoginPanics(r)
    \/ OtherDone(r)
    \/ OtherPanics(r)
-----------------------------------------------------------------------------
(* The NapCat processes.                                                   *)

processVars == <<requestVars, registry, clientsLock, instanceLock, instance,
                 stopped, stopVars>>

Fork(i) ==
    /\ process[i] = "starting"
    /\ process' = [process EXCEPT ![i] = "running"]
    /\ UNCHANGED <<processVars, webui, loaded>>

ForkFails(i) ==
    /\ StartMayFail
    /\ process[i] = "starting"
    /\ process' = [process EXCEPT ![i] = "failed"]
    /\ UNCHANGED <<processVars, webui, loaded>>

\* NapCat reads its WebUI configuration while it starts up.
LoadWebUI(i) ==
    /\ process[i] = "running"
    /\ loaded[i] = 0
    /\ loaded' = [loaded EXCEPT ![i] = webui]
    /\ UNCHANGED <<processVars, process, webui>>

\* The process is gone: by itself, or by a signal (Stop sends one).
ProcessEnds(i) ==
    /\ process[i] = "running"
    /\ \E how \in {"exited", "signaled"} :
           /\ i \in stopped => how = "signaled"
           /\ process' = [process EXCEPT ![i] = how]
    /\ UNCHANGED <<processVars, webui, loaded>>

ProcessStep(i) == Fork(i) \/ ForkFails(i) \/ LoadWebUI(i) \/ ProcessEnds(i)
-----------------------------------------------------------------------------
(* main: a signal, Manager.Stop, the end of the agent.                     *)

stopUnchanged == <<requestVars, registry, world>>

Interrupt ==
    /\ MayStop
    /\ stop = "serving"
    /\ stop' = "interrupted"
    /\ UNCHANGED <<stopUnchanged, clientsLock, instanceLock, instance,
                   stopped, left>>

Stop ==
    /\ stop = "interrupted"
    /\ clientsLock = None
    /\ clientsLock' = Main
    /\ stop' = "stopping"
    /\ left' = {x \in Mxids : clients[x] # None}
    /\ UNCHANGED <<stopUnchanged, instanceLock, instance, stopped>>

\* Mutant: a client that is busy is passed over.
StopClientIfFree ==
    /\ stop = "stopping"
    /\ \E x \in left :
           /\ IF instanceLock[clients[x]] = None
              THEN StopInstanceOf(clients[x])
              ELSE UNCHANGED <<instance, stopped>>
           /\ left' = left \ {x}
    /\ UNCHANGED <<stopUnchanged, clientsLock, instanceLock, stop>>

\* client.Disconnect() for the next client of the range, the whole of it:
\* it holds instanceLock, and waits for it.
StopClient ==
    /\ stop = "stopping"
    /\ \E x \in left :
           /\ instanceLock[clients[x]] = None
           /\ StopInstanceOf(clients[x])
           /\ left' = left \ {x}
    /\ UNCHANGED <<stopUnchanged, clientsLock, instanceLock, stop>>

StopReturns ==
    /\ stop = "stopping"
    /\ left = {}
    /\ clientsLock' = None
    /\ stop' = "stopped"
    /\ UNCHANGED <<stopUnchanged, instanceLock, instance, stopped, left>>

\* service.Stop and main return; the goroutines of the agent are gone.
Exit ==
    /\ stop = "stopped"
    /\ stop' = "exited"
    /\ UNCHANGED <<stopUnchanged, clientsLock, instanceLock, instance,
                   stopped, left>>

StopStep == Stop \/ StopClient \/ StopReturns

Terminated ==
    /\ \/ stop = "exited"
       \/ \A r \in Requests : pc[r] \in {"answered", "panicked"}
    /\ UNCHANGED vars

\* The agent's goroutines end with it; what becomes of the processes it
\* leaves behind is not followed.
Next ==
    \/ /\ stop # "exited"
       /\ \E r \in Requests :
              ProcessRequest(r) \/ RequestStep(r) \/ ProcessStep(r)
    \/ Interrupt
    \/ StopStep
    \/ Exit
    \/ Terminated

\* The scheduler runs every goroutine that can move and hands every lock to
\* each waiter in turn; the operating system forks.  Nothing makes a download
\* or a call of the WebUI end: neither has a timeout.
Fairness ==
    /\ \A r \in Requests : WF_vars(stop # "exited" /\ LocalStep(r))
    /\ \A i \in Requests :
           WF_vars(stop # "exited" /\ (Fork(i) \/ ForkFails(i)))
    /\ WF_vars(StopStep)

Spec == Init /\ [][Next]_vars /\ Fairness
-----------------------------------------------------------------------------
(* Properties.                                                             *)

\* An instance nobody has asked to stop, and that has not ended.
Live(i) == process[i] \in {"starting", "running"} /\ i \notin stopped

\* Every variable has its type.
TypeOK ==
    /\ pc \in [Requests -> {"new", "getClient", "lockClients",
                            "lockInstance", "lockLogin", "connect", "start",
                            "waitPID", "stopInstance", "delete", "login",
                            "call", "reply", "answered", "panicked"}]
    /\ method \in [Requests -> Methods \cup {"none"}]
    /\ mxid \in [Requests -> Mxids \cup {None}]
    /\ client \in [Requests -> Requests \cup {None}]
    /\ clients \in [Mxids -> Requests \cup {None}]
    /\ port \in [Requests -> Nat]
    /\ clientIncPort \in Nat
    /\ clientsLock \in Requests \cup {None, Main}
    /\ instanceLock \in [Requests -> Requests \cup {None}]
    /\ instance \in [Requests -> Requests \cup {None}]
    /\ process \in [Requests -> {"none", "starting", "running", "failed",
                                 "exited", "signaled"}]
    /\ stopped \subseteq Requests
    /\ webui \in Nat
    /\ loaded \in [Requests -> Nat]
    /\ stop \in {"serving", "interrupted", "stopping", "stopped", "exited"}
    /\ left \subseteq Mxids
    /\ astray \subseteq Mxids

\* Two Connects on one client object never leave two instances running,
\* however they interleave with Disconnects and with instances that end
\* (Connect tests c.instance and sets it in different steps).
OneInstancePerClient ==
    \A i, j \in Requests :
        Live(i) /\ Live(j) /\ client[i] = client[j] => i = j

\* From the moment a Connect writes webui.json until it sees the process,
\* the file holds that client's own port, which no other client has.
WebUIWhileStarting ==
    \A r \in Requests :
        pc[r] \in {"start", "waitPID"} =>
            /\ webui = port[client[r]]
            /\ webui # ManagerPort
            /\ \A s \in Requests :
                   client[s] \notin {None, client[r]}
                       => port[client[s]] # webui
            /\ pc[r] = "waitPID" => loaded[r] \in {0, webui}

\* An instance that runs can be found again by the user's next Disconnect and
\* by Stop: its client is registered and holds it, or is just starting it,
\* whatever connects, disconnects and logins run beside each other.  The one
\* way to lose it is a request whose client another disconnect deleted after
\* getClient and before clientsLock was taken again.
NoOrphan ==
    \A i \in Requests :
        Live(i) /\ mxid[i] \notin astray =>
            /\ clients[mxid[i]] = client[i]
            /\ instance[client[i]] = i \/ pc[i] = "waitPID"

\* When a disconnect comes to delete the client the user has no instance
\* running, not even one an earlier or an overlapping connect started, but
\* for users who went astray in the same way.
DisconnectStops ==
    \A r \in Requests :
        pc[r] = "delete" /\ mxid[r] \notin astray =>
            \A i \in Requests : Live(i) => mxid[i] # mxid[r]

\* When Manager.Stop returns, no registered client has an instance running,
\* not even one that a request was connecting while Stop waited.
StopStopsAll ==
    [][stop = "stopping" /\ stop' = "stopped" =>
           \A x \in Mxids, i \in Requests :
               Live(i) => clients[x] # client[i]]_vars

\* A Connect polls for the PID of a process that could not be started.
Polls(r) == pc[r] = "waitPID" /\ process[r] = "failed"

\* The instanceLock of o is held by such a Connect, or by a Login.
InstanceHeld(o) ==
    \E h \in Requests : instanceLock[o] = h /\ (pc[h] = "login" \/ Polls(h))

Stuck(r) ==
    \/ Polls(r)
    \/ pc[r] \in {"lockInstance", "lockLogin"} /\ InstanceHeld(client[r])

\* Whoever holds clientsLock, a request or Stop, is held up in such a way.
RegistryHeld ==
    \/ \E h \in Requests : clientsLock = h /\ Stuck(h)
    \/ stop = "stopping" /\ \E x \in left : InstanceHeld(clients[x])

\* A request can be answered only after something outside the agent.
HeldUp(r) ==
    \/ pc[r] \in {"call", "login"}
    \/ Stuck(r)
    \/ pc[r] \in {"getClient", "lockClients"} /\ RegistryHeld

\* Every request is answered, or its panic logged, or it is for ever behind
\* something that never happens outside the agent: its own download or call
\* of the WebUI, a Login that hangs, a command that did not start.  The two
\* locks never make requests wait for each other.
RequestsAnswered ==
    \A r \in Requests :
        pc[r] = "getClient" ~> \/ pc[r] \in {"answered", "panicked"}
                              \/ stop = "exited"
                              \/ []HeldUp(r)

\* Stop ends once it is asked for, behind any Connect or Login in progress,
\* unless a Login hangs or a command did not start.
StopEnds == stop = "interrupted" ~> \/ stop \in {"stopped", "exited"}
                                    \/ []RegistryHeld

\* Connect gives up starting an instance after init_timeout
\* (handle_octopus.go "failed to start the client").
ConnectGivesUp ==
    \A r \in Requests :
        pc[r] = "waitPID" ~> (pc[r] # "waitPID" \/ stop = "exited")

(* The inductive invariant.                                                *)

\* What a request's place says of its method and of its client.
RequestInv ==
    \A r \in Requests :
        /\ pc[r] = "new" <=> mxid[r] = None
        /\ pc[r] = "new" => method[r] = "none"
        /\ pc[r] # "new" => method[r] \in Methods
        /\ client[r] = None <=> pc[r] \in {"new", "getClient"}
        /\ pc[r] \in {"lockClients", "lockInstance"} =>
               method[r] \in Lifecycle
        /\ pc[r] \in {"connect", "start", "waitPID"} => method[r] = "connect"
        /\ pc[r] \in {"stopInstance", "delete"} => method[r] = "disconnect"
        /\ pc[r] \in {"lockLogin", "login"} => method[r] = "login"
        /\ pc[r] = "call" => method[r] = "other"

\* Client objects belong to one user each and have ports of their own.
ClientInv ==
    /\ \A r \in Requests :
           client[r] # None => /\ mxid[client[r]] = mxid[r]
                               /\ client[client[r]] = client[r]
                               /\ port[client[r]] # 0
    /\ \A x \in Mxids :
           clients[x] # None => /\ mxid[clients[x]] = x
                                /\ client[clients[x]] = clients[x]
    /\ clientIncPort > ManagerPort
    /\ \A o \in Requests :
           port[o] # 0 => ManagerPort < port[o] /\ port[o] < clientIncPort
    /\ \A o, p \in Requests : port[o] = port[p] /\ port[o] # 0 => o = p

HoldsClients(r) ==
    pc[r] \in {"lockInstance", "connect", "start", "waitPID",
               "stopInstance", "delete"}
HoldsInstance(r) ==
    pc[r] \in {"connect", "start", "waitPID", "stopInstance", "login"}

\* Who holds which lock.
LockInv ==
    /\ \A r \in Requests : clientsLock = r <=> HoldsClients(r)
    /\ clientsLock = Main <=> stop = "stopping"
    /\ \A r \in Requests :
           HoldsInstance(r) => instanceLock[client[r]] = r
    /\ \A o \in Requests :
           instanceLock[o] # None => /\ HoldsInstance(instanceLock[o])
                                     /\ client[instanceLock[o]] = o

\* How a client's instance, the processes and their requests hang together.
InstanceInv ==
    /\ \A o \in Requests :
           instance[o] # None =>
               /\ client[instance[o]] = o
               /\ pc[instance[o]] \in {"reply", "answered"}
               /\ process[instance[o]] \notin {"none", "starting", "failed"}
               /\ instance[o] \notin stopped
    /\ \A i \in stopped : pc[i] \in {"reply", "answered"}
    /\ \A i \in Requests :
           /\ process[i] # "none" =>
                  /\ method[i] = "connect"
                  /\ pc[i] \in {"waitPID", "reply", "answered"}
           /\ pc[i] = "waitPID" => process[i] # "none"
           /\ Live(i) => pc[i] = "waitPID" \/ instance[client[i]] = i
           /\ pc[i] \in {"start", "waitPID"} =>
                  /\ ~InstanceExists(client[i])
                  /\ webui = port[client[i]]

\* What an instance has read of webui.json.
LoadInv ==
    \A i \in Requests :
        /\ process[i] \in {"none", "starting", "failed"} => loaded[i] = 0
        /\ pc[i] = "waitPID" => loaded[i] \in {0, webui}

\* What Stop has done while it holds clientsLock.
StopInv ==
    stop = "stopping" =>
        /\ \A x \in left : clients[x] # None
        /\ \A x \in Mxids \ left :
               clients[x] # None => instance[clients[x]] = None

\* A connect or disconnect that is not astray works on the registered client.
RegisteredInv ==
    \A r \in Requests :
        HoldsClients(r) /\ mxid[r] \notin astray
            => clients[mxid[r]] = client[r]

IInv == /\ TypeOK /\ RequestInv /\ ClientInv /\ LockInv /\ InstanceInv
        /\ LoadInv /\ StopInv /\ RegisteredInv /\ NoOrphan /\ DisconnectStops
=============================================================================
