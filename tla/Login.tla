------------------------------- MODULE Login --------------------------------
(***************************************************************************)
(* Client.Login and Client.GetLoginInfo (handle_octopus.go): their HTTP    *)
(* calls to NapCat's WebUI (client.go), and the credential they share.     *)
(*                                                                         *)
(* Login holds instanceLock, GetLoginInfo holds nothing, so goroutines     *)
(* read and write Client.credential at the same time.  A credential is the *)
(* number of its issue, 0 the empty string.  A string is two words, each   *)
(* written in a step of its own: a read between two writes, or after two   *)
(* requests wrote at once, finds parts of both, a Torn credential.  The    *)
(* WebUI is external; it may fail any call, never answer one, and expire   *)
(* its credentials.                                                        *)
(***************************************************************************)
EXTENDS Naturals

CONSTANTS Requests,   \* goroutines inside Login or GetLoginInfo
          None,       \* instanceLock is free
          Torn        \* a string mixed from two credentials

ASSUME LoginAssumption ==
    /\ None \notin Requests
    /\ Torn \notin Nat

VARIABLES pc,             \* where each request is
          method,         \* what was asked for
          api,            \* the WebUI call each request is at ...
          try,            \* ... for the first or the second time
          used,           \* the credential of the call under way
          fresh,          \* what auth() got and is about to store
          instanceLock,
          credential,     \* Client.credential: whose two words it is
          issued,         \* WebUI: how many credentials it gave out
          accepted,       \* WebUI: those it accepts
          answer,         \* what each request returns
          told,           \* the requests whose SetConfig NapCat carried out
          trouble         \* history: the requests with an excuse to fail

requestVars == <<pc, method, api, try, answer>>
webui       == <<issued, accepted>>
vars == <<requestVars, used, fresh, instanceLock, credential, webui, told,
          trouble>>

Logins  == {"display_and_wait", "wait"}
Methods == Logins \cup {"unsupported", "without_params", "get_login_info"}
Calls   == {"_checkLogin", "_updateOB11Config", "_getLoginInfo"}

Init ==
    /\ pc = [g \in Requests |-> "new"]
    /\ method = [g \in Requests |-> "none"]
    /\ api = [g \in Requests |-> "none"]
    /\ try = [g \in Requests |-> 1]
    /\ used = [g \in Requests |-> 0]
    /\ fresh = [g \in Requests |-> 0]
    /\ instanceLock = None
    /\ credential = [pointer |-> 0, length |-> 0]
    /\ issued = 0
    /\ accepted = {}
    /\ answer = [g \in Requests |-> "none"]
    /\ told = {}
    /\ trouble = {}

\* From the answer to auth() until the answer to the call made again, a
\* request depends on the credential it was given.
Retrying(g) ==
    pc[g] \in {"store", "storing"} \/ (try[g] = 2 /\ pc[g] \in {"call", "sent"})
-----------------------------------------------------------------------------
(* A request begins, makes its calls one after the other, and answers.     *)

Begin(g) ==
    /\ pc[g] = "new"
    /\ \E m \in Methods :
           /\ method' = [method EXCEPT ![g] = m]
           /\ IF m = "get_login_info"
              THEN /\ pc' = [pc EXCEPT ![g] = "call"]
                   /\ api' = [api EXCEPT ![g] = "_getLoginInfo"]
              ELSE /\ pc' = [pc EXCEPT ![g] = "lock"]
                   /\ UNCHANGED api
    /\ UNCHANGED <<try, answer, used, fresh, instanceLock, credential, webui,
                   told, trouble>>

\* c.instanceLock.Lock(); both supported steps begin with checkLogin.
LockInstance(g) ==
    /\ pc[g] = "lock"
    /\ instanceLock = None
    /\ instanceLock' = g
    /\ \/ /\ method[g] \in Logins
          /\ pc' = [pc EXCEPT ![g] = "call"]
          /\ api' = [api EXCEPT ![g] = "_checkLogin"]
          /\ UNCHANGED answer
       \/ /\ method[g] = "unsupported"
          /\ pc' = [pc EXCEPT ![g] = "reply"]
          /\ answer' = [answer EXCEPT ![g] = "error"]
          /\ UNCHANGED api
       \/ /\ method[g] = "without_params"
          /\ pc' = [pc EXCEPT ![g] = "panic"]
          /\ UNCHANGED <<api, answer>>
    /\ UNCHANGED <<method, try, used, fresh, credential, webui, told, trouble>>

Goto(g, place) == pc' = [pc EXCEPT ![g] = place]

NextCall(g, a) ==
    /\ Goto(g, "call")
    /\ api' = [api EXCEPT ![g] = a]
    /\ try' = [try EXCEPT ![g] = 1]
    /\ UNCHANGED answer

Answer(g, a) ==
    /\ Goto(g, "reply")
    /\ answer' = [answer EXCEPT ![g] = a]
    /\ UNCHANGED <<api, try>>

\* checkLogin: resp.Data.IsLogin decides what a Login does next.
CheckedLogin(g, isLogin) ==
    /\ api[g] = "_checkLogin"
    /\ IF isLogin THEN NextCall(g, "_updateOB11Config")
                  ELSE Answer(g, "not_yet")

\* updateOB11Config: its error is not looked at.
UpdatedConfig(g) ==
    /\ api[g] = "_updateOB11Config"
    /\ NextCall(g, "_getLoginInfo")

\* getLoginInfo, of genCompleteStep or of GetLoginInfo.
GotLoginInfo(g) ==
    /\ api[g] = "_getLoginInfo"
    /\ Answer(g, IF method[g] \in Logins THEN "complete" ELSE "user_info")

\* The call returns an error.
CallFails(g) ==
    \/ UpdatedConfig(g)
    \/ api[g] # "_updateOB11Config" /\ Answer(g, "error")

\* Mutant: an early return does not unlock.
ReplyLocked(g) ==
    /\ pc[g] = "reply"
    /\ Goto(g, "done")
    /\ instanceLock' = IF instanceLock = g /\ answer[g] # "error"
                       THEN None ELSE instanceLock
    /\ UNCHANGED <<method, api, try, answer, used, fresh, credential, webui,
                   told, trouble>>

\* return, and for Login the deferred unlock.
Reply(g) ==
    /\ pc[g] = "reply"
    /\ Goto(g, "done")
    /\ instanceLock' = IF instanceLock = g THEN None ELSE instanceLock
    /\ UNCHANGED <<method, api, try, answer, used, fresh, credential, webui,
                   told, trouble>>

\* step.DisplayAndWaitParams, or step itself, is nil: the deferred unlock runs,
\* ProcessRequest recovers the panic, and nothing is answered.
Panic(g) ==
    /\ pc[g] = "panic"
    /\ Goto(g, "done")
    /\ instanceLock' = None
    /\ UNCHANGED <<method, api, try, answer, used, fresh, credential, webui,
                   told, trouble>>
-----------------------------------------------------------------------------
(* One call to the WebUI, and what checkLogin, updateOB11Config and        *)
(* getLoginInfo do about its answer.                                       *)

\* What a read of c.credential gives.  Words of two credentials are neither,
\* unless the two have the same length.
Reads == {credential.pointer} \cup
             IF credential.pointer = credential.length THEN {} ELSE {Torn}

\* SetHeader("Authorization", ... c.credential), read without a lock.
Send(g) ==
    /\ pc[g] = "call"
    /\ \E c \in Reads :
           /\ used' = [used EXCEPT ![g] = c]
           /\ trouble' = IF c = Torn /\ Retrying(g) THEN trouble \cup {g}
                                                   ELSE trouble
    /\ Goto(g, "sent")
    /\ UNCHANGED <<method, api, try, answer, fresh, instanceLock, credential,
                   webui, told>>

callUnchanged == <<method, used, fresh, instanceLock, credential, webui>>

\* response.Code == 0
Accepted(g) ==
    /\ pc[g] = "sent"
    /\ used[g] \in accepted
    /\ \/ \E isLogin \in BOOLEAN : CheckedLogin(g, isLogin)
       \/ UpdatedConfig(g)
       \/ GotLoginInfo(g)
    /\ told' = IF api[g] = "_updateOB11Config" THEN told \cup {g} ELSE told
    /\ UNCHANGED <<callUnchanged, trouble>>

\* Mutant: the call is made again as long as it is unauthorized.
UnauthorizedAlways(g) ==
    /\ pc[g] = "sent"
    /\ used[g] \notin accepted
    /\ Goto(g, "auth")
    /\ UNCHANGED <<api, try, answer, callUnchanged, told, trouble>>

\* UnauthorizedError: auth() the first time, an error the second.
Unauthorized(g) ==
    /\ pc[g] = "sent"
    /\ used[g] \notin accepted
    /\ \/ try[g] = 1 /\ Goto(g, "auth") /\ UNCHANGED <<api, try, answer>>
       \/ try[g] = 2 /\ CallFails(g)
    /\ UNCHANGED <<callUnchanged, told, trouble>>

\* No response, or a response.Code of another error.
Fails(g) ==
    /\ pc[g] = "sent"
    /\ CallFails(g)
    /\ trouble' = trouble \cup {g}
    /\ UNCHANGED <<callUnchanged, told>>

\* An HTTP error status: resty decodes no result, Code and Data are zero.
Blank(g) ==
    /\ pc[g] = "sent"
    /\ CheckedLogin(g, FALSE) \/ UpdatedConfig(g) \/ GotLoginInfo(g)
    /\ trouble' = trouble \cup {g}
    /\ UNCHANGED <<callUnchanged, told>>
-----------------------------------------------------------------------------
(* auth(), whose error nobody looks at.                                    *)

Authorized(g) ==
    /\ pc[g] = "auth"
    /\ issued' = issued + 1
    /\ accepted' = accepted \cup {issued + 1}
    /\ fresh' = [fresh EXCEPT ![g] = issued + 1]
    /\ Goto(g, "store")
    /\ UNCHANGED <<method, api, try, answer, used, instanceLock, credential,
                   told, trouble>>

\* An HTTP error status again: an empty credential, and no error.
AuthorizedBlank(g) ==
    /\ pc[g] = "auth"
    /\ fresh' = [fresh EXCEPT ![g] = 0]
    /\ trouble' = trouble \cup {g}
    /\ Goto(g, "store")
    /\ UNCHANGED <<method, api, try, answer, used, instanceLock, credential,
                   webui, told>>

AuthFails(g) ==
    /\ pc[g] = "auth"
    /\ trouble' = trouble \cup {g}
    /\ Goto(g, "call")
    /\ try' = [try EXCEPT ![g] = 2]
    /\ UNCHANGED <<method, api, answer, used, fresh, instanceLock, credential,
                   webui, told>>

\* Writing words of a credential that is not accepted troubles whoever retries.
StoreTroubles(g) ==
    trouble' = IF fresh[g] \in accepted
               THEN trouble
               ELSE trouble \cup {h \in Requests : Retrying(h)}

\* Mutant: the credential stays in the response.
StoreNothing(g) ==
    /\ pc[g] = "store"
    /\ Goto(g, "call")
    /\ try' = [try EXCEPT ![g] = 2]
    /\ UNCHANGED <<method, api, answer, used, fresh, instanceLock, credential,
                   webui, told, trouble>>

\* c.credential = response.Data.Credential, over whatever is there: also over
\* a better credential another request has stored meanwhile.
StoreBegins(g) ==
    /\ pc[g] = "store"
    /\ credential' = [credential EXCEPT !.pointer = fresh[g]]
    /\ StoreTroubles(g)
    /\ Goto(g, "storing")
    /\ UNCHANGED <<method, api, try, answer, used, fresh, instanceLock, webui,
                   told>>

StoreEnds(g) ==
    /\ pc[g] = "storing"
    /\ credential' = [credential EXCEPT !.length = fresh[g]]
    /\ StoreTroubles(g)
    /\ Goto(g, "call")
    /\ try' = [try EXCEPT ![g] = 2]
    /\ UNCHANGED <<method, api, answer, used, fresh, instanceLock, webui,
                   told>>

\* The WebUI's credentials have had their time.
Expire ==
    /\ accepted # {}
    /\ accepted' = {}
    /\ trouble' = trouble \cup {g \in Requests : Retrying(g)}
    /\ UNCHANGED <<requestVars, used, fresh, instanceLock, credential, issued,
                   told>>
-----------------------------------------------------------------------------
\* What a request does by itself ...
LocalStep(g) ==
    \/ LockInstance(g)
    \/ Send(g)
    \/ StoreBegins(g)
    \/ StoreEnds(g)
    \/ Reply(g)
    \/ Panic(g)

\* ... and what comes of its calls.
WebUIStep(g) ==
    \/ Accepted(g)
    \/ Unauthorized(g)
    \/ Fails(g)
    \/ Blank(g)
    \/ Authorized(g)
    \/ AuthorizedBlank(g)
    \/ AuthFails(g)

Step(g) == LocalStep(g) \/ WebUIStep(g)

Terminated ==
    /\ \A g \in Requests : pc[g] = "done"
    /\ UNCHANGED vars

Next == \/ \E g \in Requests : Begin(g) \/ Step(g)
        \/ Expire
        \/ Terminated

\* Every goroutine that can move does.  The WebUI need not answer (resty has
\* no timeout here).
Fairness == \A g \in Requests : WF_vars(LocalStep(g))

Spec == Init /\ [][Next]_vars /\ Fairness
-----------------------------------------------------------------------------
(* Properties.                                                             *)

\* Every variable has its type.
TypeOK ==
    /\ pc \in [Requests -> {"new", "lock", "call", "sent", "auth", "store",
                            "storing", "reply", "panic", "done"}]
    /\ method \in [Requests -> Methods \cup {"none"}]
    /\ api \in [Requests -> Calls \cup {"none"}]
    /\ try \in [Requests -> {1, 2}]
    /\ used \in [Requests -> Nat \cup {Torn}]
    /\ fresh \in [Requests -> Nat]
    /\ instanceLock \in Requests \cup {None}
    /\ credential \in [pointer : Nat, length : Nat]
    /\ issued \in Nat
    /\ accepted \subseteq 1..issued
    /\ answer \in [Requests -> {"none", "error", "not_yet", "complete",
                                "user_info"}]
    /\ told \subseteq Requests
    /\ trouble \subseteq Requests

\* A request whose own calls the WebUI answers, and whose retry finds an
\* accepted credential to work with, succeeds: although it began with a
\* stale credential, whatever expires before and after its retry, and
\* whoever authenticates meanwhile.  A Login that completes has then told
\* NapCat where to connect to.
UntroubledSucceeds ==
    \A g \in Requests \ trouble :
        pc[g] \in {"reply", "done"} =>
            /\ answer[g] = "error" => method[g] = "unsupported"
            /\ answer[g] = "complete" => g \in told

\* A request waits for the WebUI, or for a Login that does.
AtWebUI(g) == pc[g] \in {"sent", "auth"}
HeldUp(g)  == \/ AtWebUI(g)
              \/ pc[g] = "lock" /\ \E h \in Requests : /\ instanceLock = h
                                                        /\ AtWebUI(h)

\* Every request ends and gives instanceLock back, whatever the WebUI answers
\* and however often it refuses a credential, unless it is for ever in a call
\* the WebUI never answers, or behind a Login that is.
RequestsAnswered ==
    \A g \in Requests :
        pc[g] # "new" ~> (pc[g] = "done" /\ instanceLock # g) \/ []HeldUp(g)

(* The inductive invariant.                                                *)

\* Where a request is, and what it has.
PlaceInv ==
    \A g \in Requests :
        /\ pc[g] \in {"new", "lock"} => api[g] = "none"
        /\ pc[g] \in {"call", "sent", "auth", "store", "storing"}
               => api[g] # "none"
        /\ pc[g] # "new" => method[g] \in Methods
        /\ pc[g] = "lock" => method[g] # "get_login_info"
        /\ api[g] \in {"_checkLogin", "_updateOB11Config"}
               => method[g] \in Logins
        /\ pc[g] \in {"new", "lock", "auth", "store", "storing"} => try[g] = 1
        /\ pc[g] = "panic" => method[g] = "without_params"
        /\ pc[g] \notin {"reply", "done"} => answer[g] = "none"
        /\ /\ method[g] \in Logins /\ api[g] = "_getLoginInfo"
           /\ g \notin trouble
           => g \in told

\* Login works under instanceLock.
LockInv ==
    \A g \in Requests :
        instanceLock = g <=>
            /\ pc[g] \notin {"new", "lock", "done"}
            /\ method[g] # "get_login_info"

\* A retry without trouble works with a credential that is accepted.
RetryInv ==
    \A g \in Requests \ trouble :
        /\ pc[g] \in {"store", "storing"} => fresh[g] \in accepted
        /\ pc[g] = "storing" => credential.pointer \in accepted
        /\ pc[g] = "call" /\ try[g] = 2 => /\ credential.pointer \in accepted
                                          /\ credential.length \in accepted
        /\ pc[g] = "sent" /\ try[g] = 2 => used[g] \in accepted

IInv == TypeOK /\ PlaceInv /\ LockInv /\ RetryInv /\ UntroubledSucceeds
=============================================================================
