--------------------------- MODULE ManagerProofs ----------------------------
(***************************************************************************)
(* Proofs about Manager, for any set of requests and users: the inductive  *)
(* invariant IInv, conjunct by conjunct, and what follows from it.         *)
(***************************************************************************)
EXTENDS Manager, TLAPS

\* The initial states satisfy the inductive invariant.
LEMMA InitIInv == Init => IInv
<1> SUFFICES ASSUME Init PROVE IInv
  OBVIOUS
<1> USE ManagerAssumption DEF Init
<1>1. TypeOK
  BY DEF TypeOK
<1>2. RequestInv /\ ClientInv
  BY DEF RequestInv, ClientInv
<1>3. LockInv
  BY DEF LockInv, HoldsClients, HoldsInstance
<1>4. InstanceInv
  BY DEF InstanceInv, Live, InstanceExists
<1>5. StopInv /\ LoadInv
  BY DEF StopInv, LoadInv
<1>6. RegisteredInv
  BY DEF RegisteredInv, HoldsClients
<1>7. NoOrphan /\ DisconnectStops
  BY DEF NoOrphan, DisconnectStops, Live
<1> QED
  BY <1>1, <1>2, <1>3, <1>4, <1>5, <1>6, <1>7 DEF IInv

-----------------------------------------------------------------------------
(* TypeOK is inductive with RequestInv, which says that a request that     *)
(* works on a client has one.                                              *)

\* A step of a request keeps every variable in its type.
LEMMA RequestStepType ==
  ASSUME TypeOK, RequestInv, NEW r \in Requests,
         ProcessRequest(r) \/ RequestStep(r)
  PROVE  TypeOK'
<1> USE ManagerAssumption
    DEF TypeOK, Goto, requestVars, what, registry, world, stopVars, Methods,
        Lifecycle
<1>1. CASE ProcessRequest(r)
  BY <1>1 DEF ProcessRequest
<1>2. CASE getClient(r)
  <2>1. mxid[r] \in Mxids
    BY <1>2 DEF getClient, RequestInv
  <2> QED
    BY <1>2, <2>1 DEF getClient, FirstStep
<1>3. CASE LockClients(r)
  BY <1>3 DEF LockClients, RequestInv
<1>4. CASE LockInstance(r)
  BY <1>4 DEF LockInstance, RequestInv
<1>5. CASE ConnectExisting(r) \/ OverwriteFails(r) \/ SeePID(r)
  BY <1>5 DEF ConnectExisting, OverwriteFails, SeePID, LeaveConnect,
              UnlockInstance
<1>6. CASE overwriteWebUIConfig(r)
  <2>1. client[r] \in Requests
    BY <1>6 DEF overwriteWebUIConfig, RequestInv
  <2> QED
    BY <1>6, <2>1 DEF overwriteWebUIConfig
<1>7. CASE StartInstance(r)
  BY <1>7 DEF StartInstance
<1>8. CASE PollAgain(r)
  BY <1>8 DEF PollAgain, vars
<1>9. CASE Disconnect(r)
  <2>1. client[r] \in Requests
    BY <1>9 DEF Disconnect, RequestInv
  <2> QED
    BY <1>9, <2>1 DEF Disconnect, StopInstanceOf, UnlockInstance
<1>10. CASE DeleteClient(r)
  BY <1>10 DEF DeleteClient
<1>11. CASE \/ LoginDone(r) \/ LoginPanics(r)
           \/ OtherDone(r) \/ OtherPanics(r) \/ SendResponse(r)
  BY <1>11 DEF LoginDone, LoginPanics, OtherDone, OtherPanics, SendResponse,
               UnlockInstance
<1> QED
  BY <1>1, <1>2, <1>3, <1>4, <1>5, <1>6, <1>7, <1>8, <1>9, <1>10, <1>11
     DEF RequestStep, LocalStep

\* So do the processes and the shutdown.
LEMMA OtherStepType ==
  ASSUME TypeOK, StopInv,
         \/ \E i \in Requests : ProcessStep(i)
         \/ Interrupt \/ StopStep \/ Exit
  PROVE  TypeOK'
<1> USE ManagerAssumption
    DEF TypeOK, requestVars, what, registry, world, stopVars, processVars,
        stopUnchanged
<1>1. ASSUME NEW i \in Requests, ProcessStep(i) PROVE TypeOK'
  BY <1>1 DEF ProcessStep, Fork, ForkFails, LoadWebUI, ProcessEnds
<1>2. CASE Interrupt \/ Stop \/ StopReturns \/ Exit
  BY <1>2 DEF Interrupt, Stop, StopReturns, Exit
<1>3. CASE StopClient
  <2>1. PICK x \in left : /\ StopInstanceOf(clients[x])
                          /\ left' = left \ {x}
    BY <1>3 DEF StopClient
  <2>2. clients[x] \in Requests
    BY <1>3, <2>1 DEF StopClient, StopInv
  <2> QED
    BY <1>3, <2>1, <2>2 DEF StopClient, StopInstanceOf
<1> QED
  BY <1>1, <1>2, <1>3 DEF StopStep
-----------------------------------------------------------------------------
(* The parts of IInv that only the steps of requests can disturb.          *)

\* A request's place fits its method and its client after each of its steps.
LEMMA RequestStepRequest ==
  ASSUME IInv, NEW r \in Requests, ProcessRequest(r) \/ RequestStep(r)
  PROVE  RequestInv'
<1> USE ManagerAssumption
    DEF IInv, TypeOK, RequestInv, Goto, Methods, Lifecycle, what
<1>1. CASE ProcessRequest(r)
  <2>1. PICK m \in Methods, x \in Mxids :
            /\ method' = [method EXCEPT ![r] = m]
            /\ mxid' = [mxid EXCEPT ![r] = x]
    <3> HIDE DEF IInv, TypeOK, RequestInv, Methods, Lifecycle
    <3> QED
      BY <1>1, Zenon DEF ProcessRequest
  <2>2. /\ pc[r] = "new" /\ client' = client
        /\ pc' = [pc EXCEPT ![r] = "getClient"]
    BY <1>1 DEF ProcessRequest
  <2> QED
    BY <2>1, <2>2
<1>2. CASE getClient(r)
  BY <1>2 DEF getClient, FirstStep
<1>3. CASE LockClients(r) \/ LockInstance(r)
  BY <1>3 DEF LockClients, LockInstance
<1>4. CASE ConnectExisting(r) \/ OverwriteFails(r) \/ SeePID(r)
  BY <1>4 DEF ConnectExisting, OverwriteFails, SeePID, LeaveConnect
<1>5. CASE overwriteWebUIConfig(r) \/ StartInstance(r)
  BY <1>5 DEF overwriteWebUIConfig, StartInstance
<1>6. CASE PollAgain(r)
  BY <1>6 DEF PollAgain, vars, requestVars
<1>7. CASE Disconnect(r) \/ DeleteClient(r)
  BY <1>7 DEF Disconnect, DeleteClient
<1>8. CASE \/ LoginDone(r) \/ LoginPanics(r)
           \/ OtherDone(r) \/ OtherPanics(r) \/ SendResponse(r)
  BY <1>8 DEF LoginDone, LoginPanics, OtherDone, OtherPanics, SendResponse
<1> QED
  BY <1>1, <1>2, <1>3, <1>4, <1>5, <1>6, <1>7, <1>8 DEF RequestStep, LocalStep

\* A step of a request other than getClient keeps every client's owner and
\* port, and can only forget a registered client.
LEMMA KeepsClients ==
  ASSUME NEW r \in Requests, ProcessRequest(r) \/ RequestStep(r),
         ~getClient(r), TypeOK
  PROVE  /\ UNCHANGED <<client, port, clientIncPort>>
         /\ UNCHANGED <<method, mxid>> \/ ProcessRequest(r)
         /\ \A x \in Mxids : clients'[x] \in {clients[x], None}
<1> USE DEF registry, what, TypeOK
<1>1. CASE ProcessRequest(r)
  BY <1>1 DEF ProcessRequest
<1>2. CASE LockClients(r) \/ LockInstance(r)
  BY <1>2 DEF LockClients, LockInstance
<1>3. CASE ConnectExisting(r) \/ OverwriteFails(r) \/ SeePID(r)
  BY <1>3 DEF ConnectExisting, OverwriteFails, SeePID, LeaveConnect
<1>4. CASE overwriteWebUIConfig(r) \/ StartInstance(r)
  BY <1>4 DEF overwriteWebUIConfig, StartInstance
<1>5. CASE PollAgain(r)
  BY <1>5 DEF PollAgain, vars, requestVars
<1>6. CASE Disconnect(r)
  BY <1>6 DEF Disconnect
<1>7. CASE DeleteClient(r)
  BY <1>7 DEF DeleteClient
<1>8. CASE \/ LoginDone(r) \/ LoginPanics(r)
           \/ OtherDone(r) \/ OtherPanics(r) \/ SendResponse(r)
  BY <1>8 DEF LoginDone, LoginPanics, OtherDone, OtherPanics, SendResponse
<1> QED
  BY <1>1, <1>2, <1>3, <1>4, <1>5, <1>6, <1>7, <1>8 DEF RequestStep, LocalStep

\* Clients keep their owners and their distinct ports.
LEMMA RequestStepClient ==
  ASSUME IInv, NEW r \in Requests, ProcessRequest(r) \/ RequestStep(r)
  PROVE  ClientInv'
<1> USE ManagerAssumption DEF IInv, TypeOK, RequestInv, ClientInv, what
<1>1. CASE getClient(r)
  <2> USE <1>1 DEF getClient
  <2>1. pc[r] = "getClient" /\ client[r] = None /\ mxid[r] \in Mxids
    OBVIOUS
  <2>2. CASE clients[mxid[r]] # None
    BY <2>1, <2>2 DEF registry
  <2>3. CASE clients[mxid[r]] = None
    <3>1. /\ client' = [client EXCEPT ![r] = r]
          /\ clients' = [clients EXCEPT ![mxid[r]] = r]
          /\ port' = [port EXCEPT ![r] = clientIncPort]
          /\ clientIncPort' = clientIncPort + 1
          /\ mxid' = mxid
      BY <2>3
    <3>2. \A s \in Requests : client[s] # r
      BY <2>1
    <3>3. \A x \in Mxids : clients[x] # r
      BY <2>1
    <3> HIDE <1>1 DEF getClient
    <3> QED
      BY <2>1, <3>1, <3>2, <3>3
  <2> QED
    BY <2>2, <2>3
<1>2. CASE ~getClient(r) /\ UNCHANGED <<method, mxid>>
  BY <1>2, KeepsClients
<1>3. CASE ProcessRequest(r)
  BY <1>3 DEF ProcessRequest, registry
<1> QED
  BY <1>1, <1>2, <1>3, KeepsClients
-----------------------------------------------------------------------------
\* Each lock is held by exactly the goroutine that is in its critical section.
LEMMA RequestStepLock ==
  ASSUME IInv, NEW r \in Requests, ProcessRequest(r) \/ RequestStep(r)
  PROVE  LockInv'
<1> USE ManagerAssumption
    DEF IInv, TypeOK, RequestInv, LockInv, HoldsClients, HoldsInstance,
        Goto, Lifecycle, what, stopVars
<1>1. CASE ProcessRequest(r)
  BY <1>1 DEF ProcessRequest
<1>2. CASE getClient(r)
  BY <1>2 DEF getClient, FirstStep
<1>3. CASE LockClients(r)
  BY <1>3 DEF LockClients
<1>4. CASE LockInstance(r)
  BY <1>4 DEF LockInstance
<1>5. CASE ConnectExisting(r) \/ OverwriteFails(r) \/ SeePID(r)
  <2>1. pc[r] \in {"connect", "waitPID"} /\ LeaveConnect(r)
    BY <1>5 DEF ConnectExisting, OverwriteFails, SeePID
  <2> QED
    BY <2>1 DEF LeaveConnect, UnlockInstance
<1>6. CASE overwriteWebUIConfig(r) \/ StartInstance(r)
  BY <1>6 DEF overwriteWebUIConfig, StartInstance
<1>7. CASE PollAgain(r)
  BY <1>7 DEF PollAgain, vars, requestVars
<1>8. CASE Disconnect(r)
  BY <1>8 DEF Disconnect, UnlockInstance
<1>9. CASE DeleteClient(r)
  BY <1>9 DEF DeleteClient
<1>10. CASE LoginDone(r) \/ LoginPanics(r)
  BY <1>10 DEF LoginDone, LoginPanics, UnlockInstance
<1>11. CASE OtherDone(r) \/ OtherPanics(r) \/ SendResponse(r)
  BY <1>11 DEF OtherDone, OtherPanics, SendResponse
<1> QED
  BY <1>1, <1>2, <1>3, <1>4, <1>5, <1>6, <1>7, <1>8, <1>9, <1>10, <1>11
     DEF RequestStep, LocalStep

-----------------------------------------------------------------------------
(* The instances.                                                          *)

\* A client's instance, the processes and webui.json stay consistent.
LEMMA RequestStepInstance ==
  ASSUME IInv, NEW r \in Requests, ProcessRequest(r) \/ RequestStep(r)
  PROVE  InstanceInv'
<1> USE ManagerAssumption
    DEF IInv, TypeOK, RequestInv, InstanceInv, InstanceExists, Live, Goto,
        Lifecycle, what, world
<1>1. CASE ProcessRequest(r)
  BY <1>1 DEF ProcessRequest, registry
<1>2. CASE getClient(r)
  <2>1. /\ client[r] = None /\ mxid[r] \in Mxids
        /\ UNCHANGED <<instance, stopped, process, webui>>
        /\ pc' = [pc EXCEPT ![r] = FirstStep(method[r])]
        /\ FirstStep(method[r]) \in {"lockClients", "lockLogin", "call"}
    BY <1>2 DEF getClient, FirstStep
  <2>2. \A s \in Requests \ {r} :
            client'[s] = client[s] /\ port'[s] = port[s]
    BY <1>2 DEF getClient, registry
  <2>3. \A s \in Requests : client[s] # r
    BY <2>1 DEF ClientInv
  <2> QED
    BY <2>1, <2>2, <2>3, <1>2 DEF getClient
<1>3. CASE LockClients(r)
  BY <1>3 DEF LockClients, registry
<1>4. CASE LockInstance(r)
  BY <1>4 DEF LockInstance, registry
<1>5. CASE ConnectExisting(r)
  BY <1>5 DEF ConnectExisting, LeaveConnect, registry
<1>6. CASE overwriteWebUIConfig(r)
  BY <1>6 DEF overwriteWebUIConfig, registry, LockInv, HoldsClients
<1>7. CASE OverwriteFails(r)
  BY <1>7 DEF OverwriteFails, LeaveConnect, registry, LockInv, HoldsClients
<1>8. CASE StartInstance(r)
  BY <1>8 DEF StartInstance, registry
<1>9. CASE PollAgain(r)
  BY <1>9 DEF PollAgain, vars, requestVars, registry
<1>10. CASE SeePID(r)
  <2>1. /\ pc[r] = "waitPID" /\ pc' = [pc EXCEPT ![r] = "reply"]
        /\ instance' = [instance EXCEPT ![client[r]] = r]
        /\ process[r] \in {"running", "exited", "signaled"}
        /\ UNCHANGED <<method, client, port, stopped, process, webui>>
    BY <1>10 DEF SeePID, LeaveConnect, registry
  <2>2. \A s \in Requests \ {r} : pc[s] \notin {"start", "waitPID"}
    BY <2>1 DEF LockInv, HoldsClients
  <2> QED
    BY <2>1, <2>2
<1>11. CASE Disconnect(r)
  BY <1>11 DEF Disconnect, StopInstanceOf, registry, LockInv, HoldsInstance
<1>12. CASE DeleteClient(r)
  BY <1>12 DEF DeleteClient
<1>13. CASE \/ LoginDone(r) \/ LoginPanics(r)
           \/ OtherDone(r) \/ OtherPanics(r) \/ SendResponse(r)
  BY <1>13 DEF LoginDone, LoginPanics, OtherDone, OtherPanics, SendResponse,
               registry
<1> QED
  BY <1>1, <1>2, <1>3, <1>4, <1>5, <1>6, <1>7, <1>8, <1>9, <1>10, <1>11,
     <1>12, <1>13 DEF RequestStep, LocalStep

\* A request comes to wait for a PID only by starting an instance.
LEMMA OnlyStartWaits ==
  ASSUME IInv, NEW r \in Requests, ProcessRequest(r) \/ RequestStep(r),
         ~StartInstance(r)
  PROVE  \A s \in Requests : pc'[s] = "waitPID" => pc[s] = "waitPID"
<1> USE ManagerAssumption
    DEF IInv, TypeOK, RequestInv, Goto, Methods, Lifecycle, what
<1>1. CASE ProcessRequest(r)
  BY <1>1 DEF ProcessRequest
<1>2. CASE getClient(r)
  BY <1>2 DEF getClient, FirstStep, registry
<1>3. CASE PollAgain(r)
  BY <1>3 DEF PollAgain, vars, requestVars
<1>4. CASE LockClients(r) \/ LockInstance(r)
  BY <1>4 DEF LockClients, LockInstance
<1>5. CASE overwriteWebUIConfig(r)
  BY <1>5 DEF overwriteWebUIConfig
<1>6. CASE ConnectExisting(r) \/ OverwriteFails(r) \/ SeePID(r)
  BY <1>6 DEF ConnectExisting, OverwriteFails, SeePID, LeaveConnect
<1>7. CASE Disconnect(r) \/ DeleteClient(r)
  BY <1>7 DEF Disconnect, DeleteClient
<1>8. CASE \/ LoginDone(r) \/ LoginPanics(r)
           \/ OtherDone(r) \/ OtherPanics(r) \/ SendResponse(r)
  BY <1>8 DEF LoginDone, LoginPanics, OtherDone, OtherPanics, SendResponse
<1> QED
  BY <1>1, <1>2, <1>3, <1>4, <1>5, <1>6, <1>7, <1>8 DEF RequestStep, LocalStep

\* Whoever writes webui.json holds clientsLock, so that no other Connect is
\* waiting for its instance; and a new instance has read nothing yet.
LEMMA RequestStepLoad ==
  ASSUME IInv, NEW r \in Requests, ProcessRequest(r) \/ RequestStep(r)
  PROVE  LoadInv'
<1>1. TypeOK /\ LoadInv
  BY DEF IInv
<1>2. CASE overwriteWebUIConfig(r) \/ OverwriteFails(r)
  <2>1. \A s \in Requests : pc[s] # "waitPID"
    BY <1>1, <1>2, ManagerAssumption
       DEF IInv, overwriteWebUIConfig, OverwriteFails, LockInv, HoldsClients
  <2>2. \A s \in Requests : pc'[s] # "waitPID"
    <3>1. pc[r] # "start"
      BY <1>2 DEF overwriteWebUIConfig, OverwriteFails
    <3> QED
      BY <2>1, <3>1, OnlyStartWaits DEF StartInstance
  <2>3. UNCHANGED <<process, loaded>>
    BY <1>2 DEF overwriteWebUIConfig, OverwriteFails
  <2> QED
    BY <1>1, <2>2, <2>3 DEF LoadInv
<1>3. CASE StartInstance(r)
  <2>1. process[r] = "none"
    BY <1>1, <1>3 DEF StartInstance, IInv, InstanceInv, TypeOK
  <2> QED
    BY <1>1, <1>3, <2>1 DEF StartInstance, Goto, LoadInv, TypeOK
<1>4. CASE ~(\/ overwriteWebUIConfig(r) \/ OverwriteFails(r)
             \/ StartInstance(r))
  <2>1. UNCHANGED <<process, loaded, webui>>
    BY <1>4
     DEF RequestStep, LocalStep, ProcessRequest, getClient, LockClients,
                LockInstance, ConnectExisting, SeePID, PollAgain, Disconnect,
                DeleteClient, LoginDone, LoginPanics, OtherDone,
                OtherPanics, SendResponse, world, vars
  <2>2. \A s \in Requests : pc'[s] = "waitPID" => pc[s] = "waitPID"
    BY <1>4, OnlyStartWaits
  <2> QED
    BY <1>1, <2>1, <2>2 DEF LoadInv
<1> QED
  BY <1>2, <1>3, <1>4

\* What Stop has done cannot be undone while it holds clientsLock.
LEMMA RequestStepStop ==
  ASSUME IInv, NEW r \in Requests, ProcessRequest(r) \/ RequestStep(r)
  PROVE  StopInv'
<1> SUFFICES ASSUME stop' = "stopping" PROVE StopInv'
  BY DEF StopInv
<1> USE DEF StopInv
<1>1. clientsLock = Main /\ stop = "stopping" /\ left' = left
  BY DEF IInv, LockInv, RequestStep, LocalStep, ProcessRequest, getClient,
         LockClients,
         LockInstance, ConnectExisting, OverwriteFails, SeePID, LeaveConnect,
         overwriteWebUIConfig, StartInstance, PollAgain, Disconnect,
         DeleteClient, LoginDone, LoginPanics, OtherDone,
                OtherPanics, SendResponse, stopVars, vars
<1>2. ~HoldsClients(r)
  BY <1>1, ManagerAssumption DEF IInv, LockInv
<1>3. instance' = instance /\ clients' = clients
  BY <1>1, <1>2, ManagerAssumption
     DEF HoldsClients, RequestStep, LocalStep, ProcessRequest, getClient,
         LockClients,
         LockInstance, ConnectExisting, OverwriteFails, SeePID,
         overwriteWebUIConfig, StartInstance, PollAgain, Disconnect,
         DeleteClient, LoginDone, LoginPanics, OtherDone,
                OtherPanics, SendResponse, registry, vars
<1> QED
  BY <1>1, <1>3 DEF IInv
-----------------------------------------------------------------------------
(* What holds of users none of whose requests went astray.                 *)

\* A connect or disconnect that took clientsLock with the registered client
\* finds it registered until it gives the lock back: no one else changes it.
LEMMA RequestStepRegistered ==
  ASSUME IInv, NEW r \in Requests, ProcessRequest(r) \/ RequestStep(r)
  PROVE  RegisteredInv'
<1> USE ManagerAssumption
    DEF IInv, TypeOK, RegisteredInv, HoldsClients, Goto, what
<1>1. CASE ProcessRequest(r)
  BY <1>1 DEF ProcessRequest, registry
<1>2. CASE getClient(r)
  BY <1>2 DEF getClient, FirstStep, registry, LockInv, RequestInv
<1>3. CASE LockClients(r)
  BY <1>3 DEF LockClients, registry, RequestInv
<1>4. CASE DeleteClient(r)
  BY <1>4 DEF DeleteClient, LockInv
<1>5. CASE LockInstance(r)
  BY <1>5 DEF LockInstance, registry, RequestInv
<1>6. CASE ~ProcessRequest(r) /\ ~getClient(r) /\ ~LockClients(r)
           /\ ~DeleteClient(r) /\ ~LockInstance(r)
  <2>1. UNCHANGED <<mxid, astray, client, clients>>
    BY <1>6 DEF RequestStep, LocalStep, ConnectExisting,
                OverwriteFails, SeePID, LeaveConnect, overwriteWebUIConfig,
                StartInstance, PollAgain, Disconnect, LoginDone, LoginPanics,
                OtherDone, OtherPanics, SendResponse, registry, vars,
                requestVars
  <2>2. \A s \in Requests : HoldsClients(s)' => HoldsClients(s)
    BY <1>6 DEF RequestStep, LocalStep, ConnectExisting,
                OverwriteFails, SeePID, LeaveConnect, overwriteWebUIConfig,
                StartInstance, PollAgain, Disconnect, LoginDone, LoginPanics,
                OtherDone, OtherPanics, SendResponse, registry, vars,
                requestVars
  <2> QED
    BY <2>1, <2>2
<1> QED
  BY <1>1, <1>2, <1>3, <1>4, <1>5, <1>6

\* Every running instance stays within reach, if no request went astray.
LEMMA RequestStepNoOrphan ==
  ASSUME IInv, NEW r \in Requests, ProcessRequest(r) \/ RequestStep(r)
  PROVE  NoOrphan'
<1> USE ManagerAssumption
    DEF IInv, TypeOK, NoOrphan, Live, Goto, what, world, registry
<1>1. CASE ProcessRequest(r)
  BY <1>1 DEF ProcessRequest, InstanceInv
<1>2. CASE getClient(r)
  BY <1>2 DEF getClient, RequestInv, InstanceInv
<1>3. CASE LockClients(r) \/ LockInstance(r) \/ ConnectExisting(r)
           \/ OverwriteFails(r) \/ overwriteWebUIConfig(r)
  BY <1>3 DEF LockClients, LockInstance, ConnectExisting, OverwriteFails,
              LeaveConnect, overwriteWebUIConfig
<1>4. CASE StartInstance(r)
  BY <1>4 DEF StartInstance, RegisteredInv, HoldsClients,
              RequestInv, Lifecycle
<1>5. CASE PollAgain(r)
  BY <1>5 DEF PollAgain, vars, requestVars
<1>6. CASE SeePID(r)
  <2>1. \A i \in Requests : Live(i) /\ client[i] = client[r] => i = r
    BY <1>6 DEF SeePID, InstanceInv, InstanceExists, LockInv, HoldsClients
  <2> QED
    BY <1>6, <2>1 DEF SeePID, LeaveConnect, RequestInv
<1>7. CASE Disconnect(r)
  BY <1>7 DEF Disconnect, StopInstanceOf, RequestInv
<1>8. CASE DeleteClient(r)
  BY <1>8 DEF DeleteClient, DisconnectStops, RequestInv
<1>9. CASE \/ LoginDone(r) \/ LoginPanics(r)
           \/ OtherDone(r) \/ OtherPanics(r) \/ SendResponse(r)
  BY <1>9 DEF LoginDone, LoginPanics, OtherDone, OtherPanics, SendResponse
<1> QED
  BY <1>1, <1>2, <1>3, <1>4, <1>5, <1>6, <1>7, <1>8, <1>9
     DEF RequestStep, LocalStep

\* A user who is being disconnected stays without an instance.
LEMMA RequestStepDisconnect ==
  ASSUME IInv, NEW r \in Requests, ProcessRequest(r) \/ RequestStep(r)
  PROVE  DisconnectStops'
<1> USE ManagerAssumption
    DEF IInv, TypeOK, DisconnectStops, Live, Goto, what, world
<1>1. CASE ProcessRequest(r)
  BY <1>1 DEF ProcessRequest, InstanceInv
<1>2. CASE getClient(r)
  BY <1>2 DEF getClient, FirstStep
<1>3. CASE LockClients(r) \/ LockInstance(r) \/ ConnectExisting(r)
           \/ OverwriteFails(r) \/ overwriteWebUIConfig(r)
  BY <1>3 DEF LockClients, LockInstance, ConnectExisting, OverwriteFails,
              LeaveConnect, overwriteWebUIConfig, RequestInv, Lifecycle
<1>4. CASE StartInstance(r)
  BY <1>4 DEF StartInstance, LockInv, HoldsClients
<1>5. CASE PollAgain(r)
  BY <1>5 DEF PollAgain, vars, requestVars
<1>6. CASE SeePID(r)
  BY <1>6 DEF SeePID, LeaveConnect, RequestInv
<1>7. CASE Disconnect(r)
  <2>1. \A i \in Requests :
            Live(i) /\ mxid[i] = mxid[r] /\ mxid[r] \notin astray
                => instance[client[r]] = i
    BY <1>7 DEF Disconnect, NoOrphan, RegisteredInv, RequestInv, Lifecycle,
                LockInv, HoldsClients
  <2> QED
    BY <1>7, <2>1 DEF Disconnect, StopInstanceOf
<1>8. CASE DeleteClient(r)
  BY <1>8 DEF DeleteClient
<1>9. CASE \/ LoginDone(r) \/ LoginPanics(r)
           \/ OtherDone(r) \/ OtherPanics(r) \/ SendResponse(r)
  BY <1>9 DEF LoginDone, LoginPanics, OtherDone, OtherPanics, SendResponse,
              RequestInv
<1> QED
  BY <1>1, <1>2, <1>3, <1>4, <1>5, <1>6, <1>7, <1>8, <1>9
     DEF RequestStep, LocalStep

-----------------------------------------------------------------------------
(* The steps of the processes and of the shutdown.                         *)

\* A process that forks, loads its configuration or ends.
LEMMA ProcessStepIInv ==
  ASSUME IInv, NEW i \in Requests, ProcessStep(i)
  PROVE  IInv'
<1> USE DEF IInv
<1>1. TypeOK'
  BY OtherStepType
<1>2. /\ UNCHANGED <<pc, method, mxid, astray, client, clients, port,
                     clientIncPort, clientsLock, instanceLock, instance,
                     stopped, webui, stop, left>>
      /\ \A j \in Requests \ {i} : process'[j] = process[j]
      /\ \/ process[i] = "starting" /\ process'[i] \in {"running", "failed"}
         \/ process[i] = "running"
            /\ process'[i] \in {"running", "exited", "signaled"}
  BY DEF TypeOK, ProcessStep, Fork, ForkFails, LoadWebUI, ProcessEnds,
         processVars, requestVars, what, registry, stopVars
<1>3. RequestInv' /\ ClientInv' /\ LockInv' /\ StopInv' /\ RegisteredInv'
  BY <1>2 DEF RequestInv, ClientInv, LockInv, HoldsClients, HoldsInstance,
              StopInv, RegisteredInv
<1>4. \A j \in Requests : Live(j)' => Live(j)
  BY <1>2 DEF Live
<1>5. InstanceInv'
  <2>1. \A j \in Requests : pc[j] \in {"start", "waitPID"}
                                => ~InstanceExists(client[j])'
    BY <1>2 DEF InstanceExists, InstanceInv, RequestInv, TypeOK
  <2>2. \A o \in Requests :
            instance[o] # None =>
                process'[instance[o]] \notin {"none", "starting", "failed"}
    BY <1>2 DEF InstanceInv, TypeOK
  <2>3. \A j \in Requests : process'[j] = "none" <=> process[j] = "none"
    BY <1>2
  <2> HIDE DEF IInv
  <2>4. InstanceInv
    BY DEF IInv
  <2> QED
    BY <1>2, <1>4, <2>1, <2>2, <2>3, <2>4 DEF InstanceInv
<1>6. NoOrphan' /\ DisconnectStops'
  BY <1>2, <1>4 DEF NoOrphan, DisconnectStops
<1>7. LoadInv'
  BY <1>2 DEF LoadInv, TypeOK, ProcessStep, Fork, ForkFails, LoadWebUI,
              ProcessEnds
<1> QED
  BY <1>1, <1>3, <1>5, <1>6, <1>7

\* A step of main: it takes clientsLock, stops the clients, and gives it back.
LEMMA StopStepIInv ==
  ASSUME IInv, Interrupt \/ StopStep \/ Exit
  PROVE  IInv'
<1> USE ManagerAssumption DEF IInv
<1>1. TypeOK'
  BY OtherStepType
<1>2. UNCHANGED <<pc, method, mxid, astray, client, clients, port,
                  clientIncPort, instanceLock, process, webui, loaded>>
  BY DEF StopStep, Interrupt, Stop, StopClient, StopReturns, Exit,
         stopUnchanged, requestVars, what, registry, world
<1>3. RequestInv' /\ ClientInv' /\ RegisteredInv' /\ LoadInv'
  BY <1>2 DEF RequestInv, ClientInv, RegisteredInv, HoldsClients, LoadInv
<1>4. LockInv'
  BY <1>2 DEF LockInv, HoldsClients, HoldsInstance, StopStep, Interrupt,
              Stop, StopClient, StopReturns, Exit, TypeOK
<1>5. CASE UNCHANGED <<instance, stopped>>
  <2>1. StopInv'
    BY <1>2, <1>5 DEF StopInv, StopStep, Interrupt, Stop, StopClient,
                      StopReturns, Exit, TypeOK, StopInstanceOf
  <2>2. InstanceInv' /\ NoOrphan' /\ DisconnectStops'
    BY <1>2, <1>5 DEF InstanceInv, InstanceExists, NoOrphan, DisconnectStops,
                      Live
  <2> QED
    BY <1>1, <1>3, <1>4, <2>1, <2>2
<1>6. CASE StopClient
  <2>1. PICK x \in left : /\ instanceLock[clients[x]] = None
                          /\ StopInstanceOf(clients[x])
                          /\ left' = left \ {x}
    BY <1>6 DEF StopClient
  <2> DEFINE o == clients[x]
  <2>2. o \in Requests
    BY <1>6, <2>1 DEF StopClient, StopInv, TypeOK
  <2>3. /\ instance' = [instance EXCEPT ![o] = None]
        /\ stopped' = stopped \cup ({instance[o]} \ {None})
    BY <2>1 DEF StopInstanceOf
  <2>4. StopInv'
    BY <1>2, <1>6, <2>1, <2>3 DEF StopClient, StopInv, TypeOK
  <2>5. \A i \in Requests : Live(i)' => Live(i) /\ instance[o] # i
    BY <1>2, <2>3 DEF Live, TypeOK
  <2>6. \A i \in Requests : pc[i] \in {"start", "waitPID"} => client[i] # o
    BY <2>1 DEF LockInv, HoldsInstance
  <2>7. InstanceInv'
    BY <1>2, <2>2, <2>3, <2>5, <2>6
       DEF InstanceInv, InstanceExists, TypeOK
  <2>8. NoOrphan' /\ DisconnectStops'
    BY <1>2, <2>3, <2>5 DEF NoOrphan, DisconnectStops, TypeOK
  <2> QED
    BY <1>1, <1>3, <1>4, <2>4, <2>7, <2>8
<1> QED
  BY <1>5, <1>6 DEF StopStep, Interrupt, Stop, StopReturns, Exit

-----------------------------------------------------------------------------
\* Every step preserves the inductive invariant.
LEMMA NextIInv == IInv /\ [Next]_vars => IInv'
<1> SUFFICES ASSUME IInv, [Next]_vars PROVE IInv'
  OBVIOUS
<1>1. ASSUME NEW r \in Requests, ProcessRequest(r) \/ RequestStep(r)
      PROVE  IInv'
  BY <1>1, RequestStepType, RequestStepRequest, RequestStepClient,
     RequestStepLock, RequestStepInstance, RequestStepLoad, RequestStepStop,
     RequestStepRegistered,
     RequestStepNoOrphan, RequestStepDisconnect DEF IInv
<1>2. ASSUME NEW i \in Requests, ProcessStep(i) PROVE IInv'
  BY <1>2, ProcessStepIInv
<1>3. CASE Interrupt \/ StopStep \/ Exit
  BY <1>3, StopStepIInv
<1>4. CASE UNCHANGED vars
  BY <1>4 DEF vars, requestVars, what, registry, world, stopVars, IInv,
              TypeOK,
     RequestInv, ClientInv, LockInv, HoldsClients, HoldsInstance,
     InstanceInv, InstanceExists, Live, LoadInv, StopInv, RegisteredInv,
     NoOrphan, DisconnectStops
<1> QED
  BY <1>1, <1>2, <1>3, <1>4 DEF Next, Terminated

\* The inductive invariant holds in every reachable state.
THEOREM Inductive == Spec => []IInv
  BY InitIInv, NextIInv, PTL DEF Spec

\* Every variable keeps its type.
THEOREM TypeCorrect == Spec => []TypeOK
<1>1. IInv => TypeOK
  BY DEF IInv
<1> QED
  BY <1>1, Inductive, PTL

\* No client object ever has two instances running.
THEOREM OneInstanceCorrect == Spec => []OneInstancePerClient
<1>1. IInv => OneInstancePerClient
  <2> SUFFICES ASSUME IInv, NEW i \in Requests, NEW j \in Requests,
                      Live(i), Live(j), client[i] = client[j]
               PROVE  i = j
    BY DEF OneInstancePerClient
  <2>1. ASSUME NEW k \in Requests, Live(k), pc[k] = "waitPID"
        PROVE  instance[client[k]] = None
                   \/ ~Live(instance[client[k]])
    BY <2>1 DEF IInv, InstanceInv, InstanceExists, Live
  <2>2. pc[i] = "waitPID" /\ pc[j] = "waitPID" => i = j
    BY DEF IInv, LockInv, HoldsClients
  <2> QED
    BY <2>1, <2>2, ManagerAssumption DEF IInv, InstanceInv
<1> QED
  BY <1>1, Inductive, PTL

\* webui.json is the starting client's own until its process is seen, and an
\* instance that has read it by then has read its own.
THEOREM WebUICorrect == Spec => []WebUIWhileStarting
<1>1. IInv => WebUIWhileStarting
  BY DEF IInv, TypeOK, InstanceInv, ClientInv, LoadInv, RequestInv,
         WebUIWhileStarting
<1> QED
  BY <1>1, Inductive, PTL

\* A running instance is out of reach only of a user one of whose connects or
\* disconnects worked on a client that was deleted before it took clientsLock.
THEOREM NoOrphanCorrect == Spec => []NoOrphan
<1>1. IInv => NoOrphan
  BY DEF IInv
<1> QED
  BY <1>1, Inductive, PTL

\* A disconnect leaves no instance of the user running, with the same proviso.
THEOREM DisconnectCorrect == Spec => []DisconnectStops
<1>1. IInv => DisconnectStops
  BY DEF IInv
<1> QED
  BY <1>1, Inductive, PTL

\* When Stop returns, no registered client has an instance running.
THEOREM StopCorrect == Spec => StopStopsAll
<1> DEFINE Done == stop = "stopping" /\ stop' = "stopped" =>
           \A x \in Mxids, i \in Requests :
               Live(i) => clients[x] # client[i]
<1>1. IInv /\ [Next]_vars => [Done]_vars
  <2> SUFFICES ASSUME IInv, [Next]_vars, stop = "stopping",
                      stop' = "stopped", NEW x \in Mxids,
                      NEW i \in Requests, Live(i), clients[x] = client[i]
               PROVE  FALSE
    OBVIOUS
  <2>1. left = {}
    BY ManagerAssumption
       DEF Next, ProcessRequest, RequestStep, LocalStep, getClient,
           LockClients,
           LockInstance, ConnectExisting, OverwriteFails, SeePID,
           LeaveConnect, overwriteWebUIConfig, StartInstance, PollAgain,
           Disconnect, DeleteClient, LoginDone, LoginPanics, OtherDone,
                OtherPanics, SendResponse,
           ProcessStep, Fork, ForkFails, LoadWebUI, ProcessEnds, processVars,
           Interrupt, StopStep, Stop, StopClient, StopReturns, Exit,
           Terminated, stopVars, vars
  <2>2. pc[i] # "waitPID"
    BY ManagerAssumption DEF IInv, LockInv, HoldsClients
  <2>3. instance[client[i]] = i
    BY <2>2 DEF IInv, InstanceInv
  <2>4. clients[x] # None
    BY <2>2 DEF IInv, InstanceInv, Live, RequestInv
  <2> QED
    BY <2>1, <2>3, <2>4, ManagerAssumption DEF IInv, StopInv
<1> QED
  BY <1>1, Inductive, PTL DEF Spec, StopStopsAll
=============================================================================
