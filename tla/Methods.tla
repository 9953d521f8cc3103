------------------------------- MODULE Methods -------------------------------
(***************************************************************************)
(* The methods of the bridge that ask NapCat for something: handleRequest's *)
(* dispatch (manager.go), what each method calls and makes of the answers   *)
(* (handle_octopus.go), and the avatars its users are given                 *)
(* (getUserAvatarURL), which all goroutines keep in one LRU cache.          *)
(*                                                                         *)
(* A call of NapCat ends in its own answer or an error, as RequestReply     *)
(* says; an answer is the thing it is about.  An ID is a string, "bad" when *)
(* it is no number.  An avatar URL is a user and an index into avatarSizes. *)
(***************************************************************************)
EXTENDS Protocol, Naturals, FiniteSets, Functions

CONSTANTS Requests,          \* goroutines inside Manager.ProcessRequest
          Inputs,            \* [method, params, message] the bridge may send
          Users,             \* QQ users
          Friends,           \* the user's friends, a sequence
          members,           \* the members of each group, a sequence
          Sizes,             \* how many avatar sizes there are (6)
          real,              \* the sizes QQ has an avatar of each user in
          CacheSize          \* how many avatars are kept (1024)

ASSUME MethodsAssumption ==
    /\ Sizes \in Nat \ {0}
    /\ CacheSize \in Nat \ {0}
    /\ real \in [Users -> SUBSET (1..Sizes)]

ASSUME InputsAssumption ==
    \A q \in Inputs : /\ q.params \in Seq(STRING)
                      /\ q.message \in {"sound", "bare", "unknown"}

VARIABLES pc,                \* where each request is
          request,           \* its method and parameters
          got,               \* what NapCat has answered to its calls
          todo,              \* the users it still needs an avatar of
          size,              \* the avatar size it tries next
          answer,            \* its Response
          cache,             \* getAvatarCache(): the avatar size of each
                             \* user that is in the cache, else 0
          troubled           \* history: users a download failed of

vars == <<pc, request, got, todo, size, answer, cache, troubled>>

\* The message of send_message is bare when it is of a type that has an
\* attachment and comes without, and unknown when SendMessage has no such type.
NoInput  == [method |-> "", params |-> <<>>, message |-> "sound"]
NoAnswer == [error |-> FALSE, kind |-> "none", about |-> <<>>, list |-> <<>>]

Init ==
    /\ pc = [r \in Requests |-> "new"]
    /\ request = [r \in Requests |-> NoInput]
    /\ got = [r \in Requests |-> <<>>]
    /\ todo = [r \in Requests |-> <<>>]
    /\ size = [r \in Requests |-> 1]
    /\ answer = [r \in Requests |-> NoAnswer]
    /\ cache = [u \in Users |-> 0]
    /\ troubled = {}

Goto(r, place) == pc' = [pc EXCEPT ![r] = place]

Fail(r) ==
    /\ Goto(r, "send")
    /\ answer' = [answer EXCEPT ![r].error = TRUE]
-----------------------------------------------------------------------------
(* NapCat's actions.                                                       *)

Action(name, ids) == [action |-> name, ids |-> ids]

NewGetUserInfoRequest(u)           == Action("get_stranger_info", <<u>>)
NewGetGroupInfoRequest(g)          == Action("get_group_info", <<g>>)
NewGetFriendListRequest            == Action("get_friend_list", <<>>)
NewGetGroupMemberListRequest(g)    == Action("get_group_member_list", <<g>>)
NewDeleteMsgRequest(m)             == Action("delete_msg", <<m>>)
NewMsgRequest(chat)                == Action("send_msg", <<chat>>)

NewGetGroupMemberInfoRequest(g, u) == Action("get_group_member_info", <<g, u>>)

\* What NapCat answers when it answers well.
Answered(call) ==
    [of |-> call.action, about |-> call.ids,
     list |-> CASE call.action = "get_friend_list" -> Friends
                [] call.action = "get_group_member_list" -> members[call.ids[1]]
                [] OTHER -> <<>>]

\* Or it answers with null; with data of another form; or with a list, one
\* entry of which is null.
Null      == [of |-> "null", about |-> <<>>, list |-> <<>>]
Odd       == [of |-> "odd", about |-> <<>>, list |-> <<>>]
Holey     == [of |-> "holey", about |-> <<>>, list |-> <<>>]
Malformed == {Null, Odd, Holey}

Lists == {"get_friend_list", "get_group_member_list"}
-----------------------------------------------------------------------------
(* The methods.                                                            *)

\* The parameters a method indexes, or the chat of its message.
Arity(method) ==
    CASE method = "get_group_member_info"  -> 2
      [] ParamsOf(method) \in {"strings", "message"}
            /\ method # "get_group_member_info" -> 1
      [] OTHER -> 0

\* The calls each method makes, one after the other.
Calls(q) ==
    CASE q.method = "get_user_info" -> <<NewGetUserInfoRequest(q.params[1])>>
      [] q.method = "get_group_info" ->
             <<NewGetGroupInfoRequest(q.params[1]),
               NewGetGroupMemberListRequest(q.params[1])>>
      [] q.method \in {"get_friend_list", "get_group_list"} ->
             <<NewGetFriendListRequest>>
      [] q.method = "get_group_member_list" ->
             <<NewGetGroupMemberListRequest(q.params[1])>>
      [] q.method = "get_group_member_info" ->
             <<NewGetGroupMemberInfoRequest(q.params[1], q.params[2])>>
      [] q.method = "send_message"   -> <<NewMsgRequest(q.params[1])>>
      [] q.method = "revoke_message" -> <<NewDeleteMsgRequest(q.params[1])>>
      [] OTHER -> <<>>

Supported == {"logout", "get_user_info", "get_group_info", "get_friend_list",
              "get_group_list", "get_group_member_list", "get_group_member_info",
              "send_message", "revoke_message"}

Short(q) == Len(q.params) < Arity(q.method)

Refused(q) ==
    \/ \E p \in 1..Arity(q.method) : q.params[p] = "bad"
    \/ q.method \notin Supported
    \/ q.message = "unknown"

\* Up to the first call.  A parameter or an attachment that is missing is a
\* panic, which ProcessRequest recovers without an answer; a parameter that
\* is no number, or a method or message nobody knows, is an error.
handleRequest(r) ==
    /\ pc[r] = "new"
    /\ \E q \in Inputs :
           /\ request' = [request EXCEPT ![r] = q]
           /\ \/ Short(q) /\ Goto(r, "panicked") /\ UNCHANGED answer
              \/ ~Short(q) /\ Refused(q) /\ Fail(r)
              \/ /\ ~Short(q) /\ ~Refused(q)
                 /\ Goto(r, IF q.message = "bare" THEN "panicked"
                            ELSE IF Calls(q) = <<>> THEN "send" ELSE "call")
                 /\ UNCHANGED answer
    /\ UNCHANGED <<got, todo, size, cache, troubled>>

Latest(answers) == answers[Len(answers)]

\* The Go type a method answers with.
KindOf(method) ==
    CASE method = "get_user_info"         -> "user"
      [] method = "get_group_info"        -> "group"
      [] method \in {"get_friend_list", "get_group_list"} -> "users"
      [] method = "get_group_member_list" -> "members"
      [] method = "get_group_member_info" -> "member"
      [] method = "send_message"          -> "message"
      [] OTHER -> "none"

\* The users whose avatars the method looks up once it has these answers: also
\* get_group_info, for members of whom it then takes the IDs.
Avatars(q, answers) ==
    CASE q.method = "get_user_info"         -> <<q.params[1]>>
      [] q.method = "get_group_member_info" -> <<Latest(answers).about[2]>>
      [] OTHER -> Latest(answers).list

Respond(r, answers) ==
    answer' = [answer EXCEPT ![r] =
        [error |-> FALSE, kind |-> KindOf(request[r].method),
         about |-> answers[1].about, list |-> Latest(answers).list]]

\* Data that is taken apart unseen, by a type assertion or through nil.
Panics(method, data) ==
    \/ method = "send_message" /\ data \in Malformed
    \/ method = "get_group_member_info" /\ data = Null

\* mapstructure.WeakDecode fails; two methods do without it.
Undecodable(method, call, data) ==
    /\ method \notin {"send_message", "revoke_message"}
    /\ data = Odd \/ (data = Holey /\ call.action \notin Lists)

\* The entry of a list that is nil: the loop over the list panics there.
Holes(call, data) == data = Holey /\ call.action \in Lists

\* A call returns without an error.  Null, where it is not looked into, stays
\* the zero value; what can be decoded at all is taken for good.
CallReturns(r) ==
    LET method == request[r].method
        call   == Calls(request[r])[Len(got[r]) + 1]
    IN
    /\ pc[r] = "call"
    /\ \E data \in {Answered(call)} \cup Malformed :
           /\ got' = [got EXCEPT ![r] = Append(@, data)]
           /\ \/ /\ Panics(method, data)
                 /\ Goto(r, "panicked")
                 /\ UNCHANGED <<answer, todo>>
              \/ /\ Undecodable(method, call, data)
                 /\ Fail(r)
                 /\ UNCHANGED todo
              \/ /\ Holes(call, data)
                 /\ Goto(r, "avatars")
                 /\ \E n \in 0..Len(Answered(call).list) :
                        todo' = [todo EXCEPT
                                    ![r] = SubSeq(Answered(call).list, 1, n)]
                 /\ UNCHANGED answer
              \/ /\ ~Panics(method, data) /\ ~Holes(call, data)
                 /\ ~Undecodable(method, call, data)
                 /\ IF Len(got'[r]) < Len(Calls(request[r]))
                    THEN UNCHANGED <<pc, answer, todo>>
                    ELSE /\ Goto(r, "avatars")
                         /\ Respond(r, got'[r])
                         /\ todo' = [todo EXCEPT
                                        ![r] = Avatars(request[r], got'[r])]
    /\ UNCHANGED <<request, size, cache, troubled>>

\* Mutant: what there is goes along with the error.
CallFailsPartly(r) ==
    /\ pc[r] = "call"
    /\ Goto(r, "send")
    /\ answer' = [answer EXCEPT ![r].error = TRUE,
                               ![r].kind = KindOf(request[r].method)]
    /\ UNCHANGED <<request, got, todo, size, cache, troubled>>

\* request returns an error: what was got before is given up.
CallFails(r) ==
    /\ pc[r] = "call"
    /\ Fail(r)
    /\ UNCHANGED <<request, got, todo, size, cache, troubled>>
-----------------------------------------------------------------------------
(* getUserAvatarURL, for each user in turn.                                *)

Keys == {u \in Users : cache[u] # 0}

\* Mutant: one goroutine looks avatars up at a time.
MissAlone(r) ==
    /\ pc[r] = "avatars" /\ todo[r] # <<>> /\ Head(todo[r]) \notin Keys
    /\ \A q \in Requests : pc[q] # "download"
    /\ Goto(r, "download")
    /\ size' = [size EXCEPT ![r] = 1]
    /\ UNCHANGED <<request, got, todo, answer, cache, troubled>>

Hit(r) ==
    /\ pc[r] = "avatars" /\ todo[r] # <<>> /\ Head(todo[r]) \in Keys
    /\ todo' = [todo EXCEPT ![r] = Tail(@)]
    /\ UNCHANGED <<pc, request, got, size, answer, cache, troubled>>

Miss(r) ==
    /\ pc[r] = "avatars" /\ todo[r] # <<>> /\ Head(todo[r]) \notin Keys
    /\ Goto(r, "download")
    /\ size' = [size EXCEPT ![r] = 1]
    /\ UNCHANGED <<request, got, todo, answer, cache, troubled>>

\* The entries a full cache drops for one of this user: the least recently
\* used one, which may be any.
Evicted(user) ==
    IF Cardinality(Keys \cup {user}) > CacheSize
    THEN {{u} : u \in Keys \ {user}} ELSE {{}}

\* getAvatarCache().Add: whatever another goroutine has added meanwhile.
AddToCache(r) ==
    /\ Goto(r, "avatars")
    /\ \E evicted \in Evicted(Head(todo[r])) :
           cache' = [u \in Users |-> IF u = Head(todo[r]) THEN size[r]
                                    ELSE IF u \in evicted THEN 0 ELSE cache[u]]
    /\ todo' = [todo EXCEPT ![r] = Tail(@)]
    /\ UNCHANGED size

NextSize(r) ==
    IF size[r] < Sizes
    THEN /\ size' = [size EXCEPT ![r] = @ + 1]
         /\ UNCHANGED <<pc, cache, todo>>
    ELSE AddToCache(r)

\* Mutant: any data is an avatar, the default one too.
DownloadTaken(r) ==
    /\ pc[r] = "download"
    /\ AddToCache(r)
    /\ UNCHANGED <<request, got, answer, troubled>>

\* A download ends: with the avatar, or the default avatar, as QQ has it.
DownloadEnds(r) ==
    /\ pc[r] = "download"
    /\ IF size[r] \in real[Head(todo[r])] THEN AddToCache(r) ELSE NextSize(r)
    /\ UNCHANGED <<request, got, answer, troubled>>

\* An error; or the page of an HTTP error, which is taken for an avatar.
DownloadFails(r) ==
    /\ pc[r] = "download"
    /\ NextSize(r) \/ AddToCache(r)
    /\ troubled' = troubled \cup {Head(todo[r])}
    /\ UNCHANGED <<request, got, answer>>

AvatarsDone(r) ==
    /\ pc[r] = "avatars" /\ todo[r] = <<>>
    /\ Goto(r, IF Holes(Calls(request[r])[Len(got[r])], Latest(got[r]))
               THEN "panicked" ELSE "send")
    /\ UNCHANGED <<request, got, todo, size, answer, cache, troubled>>

\* ProcessRequest: transmitFunc(respPkt)
Send(r) ==
    /\ pc[r] = "send"
    /\ Goto(r, "sent")
    /\ UNCHANGED <<request, got, todo, size, answer, cache, troubled>>

Step(r) ==
    \/ CallReturns(r) \/ CallFails(r)
    \/ Hit(r) \/ Miss(r) \/ AvatarsDone(r)
    \/ Send(r)

Terminated ==
    /\ \A r \in Requests : pc[r] \in {"sent", "panicked"}
    /\ UNCHANGED vars

Next ==
    \/ \E r \in Requests :
           handleRequest(r) \/ Step(r) \/ DownloadEnds(r) \/ DownloadFails(r)
    \/ Terminated

\* request has a timeout; a download has none, and nothing is assumed of it.
Fairness == \A r \in Requests : WF_vars(Step(r))

Spec == Init /\ [][Next]_vars /\ Fairness
-----------------------------------------------------------------------------
(* Properties.                                                             *)

\* NapCat's answer to one of the request's calls was malformed.
Spoiled(r) == Range(got[r]) \cap Malformed # {}

\* The answer a request is given.
Fits(r) ==
    LET q == request[r] IN
    /\ answer[r].error => answer[r].kind = "none"
    /\ (~answer[r].error /\ ~Spoiled(r)) =>
           /\ q.method # "get_group_list" /\ DataOf(q.method) # "raw" =>
                  answer[r].kind = DataOf(q.method)
           /\ answer[r].about = SubSeq(q.params, 1, Arity(q.method))
           /\ q.method \in {"get_group_info", "get_group_member_list"} =>
                  answer[r].list = members[q.params[1]]

\* An answer is about what was asked: it has the form the bridge reads for
\* the method, and is of the user, the group or the member the request named,
\* with that group's members; an error brings no data; and only a request
\* with too few parameters, a message without its attachment, or a malformed
\* answer of NapCat leaves a request without an answer.  The form is not said
\* of get_group_list, which is answered with the friends (manager.go:192).
AnswerFits ==
    \A r \in Requests :
        /\ pc[r] = "sent" => Fits(r)
        /\ pc[r] = "panicked" =>
               \/ Spoiled(r)
               \/ Short(request[r])
               \/ request[r].message = "bare"

\* The inductive invariant: a request that is being worked on has all its
\* parameters, and the answers so far, one for each of its calls in turn.
Asking(r) ==
    LET q == request[r] IN
    /\ q \in Inputs /\ q.method \in Supported
    /\ Len(q.params) >= Arity(q.method)
    /\ answer[r] = NoAnswer
    /\ got[r] \in Seq({Answered(Calls(q)[k]) : k \in DOMAIN Calls(q)} \cup {Null})
    /\ Len(got[r]) < Len(Calls(q))
    /\ \A k \in DOMAIN got[r] : got[r][k] \in {Answered(Calls(q)[k]), Null}

AnswerInv ==
    /\ DOMAIN request = Requests /\ DOMAIN got = Requests
    /\ DOMAIN answer = Requests /\ DOMAIN pc = Requests
    /\ \A r \in Requests :
           /\ pc[r] = "new" => got[r] = <<>> /\ answer[r] = NoAnswer
           /\ pc[r] = "call" => Asking(r)
           /\ pc[r] \in {"avatars", "download"} => Len(got[r]) \in DOMAIN got[r]
           /\ pc[r] \in {"avatars", "download", "send", "sent"} => Fits(r)
    /\ AnswerFits

Best(user) ==
    IF real[user] = {} THEN Sizes
    ELSE CHOOSE n \in real[user] : \A m \in real[user] : n <= m

\* What is cached of a user is the first size QQ has of the user, unless a
\* download of that user failed at some time: no interleaving of lookups by
\* several goroutines gives a user another's avatar or a worse one.
BestAvatar ==
    \A u \in Keys : u \notin troubled => cache[u] = Best(u)

\* The inductive invariant: what a goroutine has found out so far about the
\* user it downloads avatars of.
CacheInv ==
    /\ pc \in [Requests -> {"new", "call", "avatars", "download", "send", "sent",
                            "panicked"}]
    /\ todo = [r \in Requests |-> todo[r]]
    /\ size \in [Requests -> 1..Sizes]
    /\ cache \in [Users -> 0..Sizes]
    /\ BestAvatar
    /\ \A r \in Requests, u \in Users \ troubled :
           pc[r] = "download" /\ u = Head(todo[r]) =>
               \A n \in real[u] : n >= size[r]

\* Only a download can keep a request from being answered, and only its own:
\* one that hangs, for there is no timeout, holds up nobody else.
OnlyDownloadsHang ==
    \A r \in Requests :
        pc[r] \in {"call", "avatars"} ~> pc[r] \in {"sent", "panicked", "download"}
=============================================================================
