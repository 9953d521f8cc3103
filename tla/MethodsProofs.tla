--------------------------- MODULE MethodsProofs ----------------------------
(***************************************************************************)
(* Proofs about Methods: the avatar cache is right for any number of        *)
(* goroutines, users and sizes, whatever it evicts; and an answer is of the *)
(* type the bridge reads and about what was asked, for any requests and any *)
(* lists of members.                                                        *)
(***************************************************************************)
EXTENDS Methods, SequenceTheorems, TLAPS

USE MethodsAssumption

\* Best is the size every other size QQ has is not before.
LEMMA BestIsFirst ==
    ASSUME NEW u \in Users, NEW n \in 1..Sizes,
           \A m \in real[u] : m >= n,
           n \in real[u] \/ (n = Sizes /\ real[u] = {})
    PROVE  n = Best(u)
<1>1. real[u] \subseteq Nat
  OBVIOUS
<1>2. CASE n = Sizes /\ real[u] = {}
  BY <1>2 DEF Best
<1>3. CASE n \in real[u]
  <2>1. \A m \in real[u] : n <= m
    BY <1>1
  <2>2. PICK k \in real[u] : k = Best(u) /\ \A m \in real[u] : k <= m
    BY <1>3, <2>1 DEF Best
  <2>. QED  BY <1>1, <1>3, <2>1, <2>2
<1>. QED  BY <1>2, <1>3

\* An entry that is added is the best one, unless its user was troubled.
LEMMA AddKeepsBest ==
    ASSUME CacheInv, NEW r \in Requests, AddToCache(r), pc[r] = "download",
           troubled \subseteq troubled',
           \A u \in Users \ troubled' : u = Head(todo[r]) => size[r] = Best(u)
    PROVE  CacheInv'
<1>1. PICK evicted \in Evicted(Head(todo[r])) :
          cache' = [u \in Users |-> IF u = Head(todo[r]) THEN size[r]
                                    ELSE IF u \in evicted THEN 0 ELSE cache[u]]
  BY DEF AddToCache
<1>2. pc' = [pc EXCEPT ![r] = "avatars"] /\ UNCHANGED size
  BY DEF AddToCache, Goto
<1>3. /\ todo' = [todo EXCEPT ![r] = Tail(@)]
      /\ todo' = [q \in Requests |-> todo'[q]]
  BY DEF AddToCache, CacheInv
<1>4. cache' \in [Users -> 0..Sizes]
  BY <1>1 DEF CacheInv
<1>5. BestAvatar'
  <2>. SUFFICES ASSUME NEW u \in Users, cache'[u] # 0, u \notin troubled'
                PROVE  cache'[u] = Best(u)
    BY DEF BestAvatar, Keys, Best
  <2>1. CASE u = Head(todo[r])
    BY <1>1, <2>1
  <2>2. CASE u # Head(todo[r])
    <3>1. cache'[u] = cache[u]
      BY <1>1, <2>2
    <3>. QED  BY <3>1 DEF CacheInv, BestAvatar, Keys
  <2>. QED  BY <2>1, <2>2
<1>6. ASSUME NEW q \in Requests, NEW u \in Users \ troubled',
             pc'[q] = "download", u = Head(todo'[q])
      PROVE  \A n \in real[u] : n >= size'[q]
  <2>1. q # r
    BY <1>2, <1>6 DEF CacheInv
  <2>2. pc[q] = "download" /\ todo'[q] = todo[q]
    BY <1>2, <1>3, <1>6, <2>1 DEF CacheInv
  <2>. QED  BY <1>2, <1>6, <2>2 DEF CacheInv
<1>. QED  BY <1>2, <1>3, <1>4, <1>5, <1>6 DEF CacheInv

\* The next size: either it was the last, or it is tried.
LEMMA NextKeepsBest ==
    ASSUME CacheInv, NEW r \in Requests, NextSize(r), pc[r] = "download",
           troubled \subseteq troubled',
           \A u \in Users \ troubled' :
               u = Head(todo[r]) => size[r] \notin real[u]
    PROVE  CacheInv'
<1>1. CASE size[r] < Sizes
  <2>1. size' = [size EXCEPT ![r] = @ + 1] /\ UNCHANGED <<pc, cache, todo>>
    BY <1>1 DEF NextSize
  <2>2. size' \in [Requests -> 1..Sizes]
    BY <1>1, <2>1 DEF CacheInv
  <2>3. BestAvatar'
    BY <2>1 DEF CacheInv, BestAvatar, Keys, Best
  <2>4. ASSUME NEW q \in Requests, NEW u \in Users \ troubled',
               pc'[q] = "download", u = Head(todo'[q]), NEW n \in real[u]
        PROVE  n >= size'[q]
    <3>1. n \in Nat /\ size[q] \in Nat /\ n >= size[q]
      BY <2>1, <2>4 DEF CacheInv
    <3>2. CASE q = r
      <4>1. n # size[r]
        BY <2>1, <2>4, <3>2
      <4>2. size'[q] = size[q] + 1
        BY <2>1, <3>2 DEF CacheInv
      <4>. QED  BY <3>1, <3>2, <4>1, <4>2
    <3>3. CASE q # r
      <4>1. size'[q] = size[q]
        BY <2>1, <3>3 DEF CacheInv
      <4>. QED  BY <3>1, <4>1
    <3>. QED  BY <3>2, <3>3
  <2>. QED  BY <2>1, <2>2, <2>3, <2>4 DEF CacheInv
<1>2. CASE ~(size[r] < Sizes)
  <2>1. AddToCache(r)
    BY <1>2 DEF NextSize
  <2>2. ASSUME NEW u \in Users \ troubled', u = Head(todo[r])
        PROVE  size[r] = Best(u)
    <3>1. size[r] = Sizes /\ Sizes \in 1..Sizes
      BY <1>2 DEF CacheInv
    <3>2. \A n \in real[u] : n >= size[r] /\ n # size[r] /\ n \in 1..Sizes
      BY <2>2 DEF CacheInv
    <3>3. real[u] = {}
      BY <3>1, <3>2
    <3>. QED  BY <3>1, <3>3, BestIsFirst
  <2>. QED  BY <2>1, <2>2, AddKeepsBest
<1>. QED  BY <1>1, <1>2

\* The avatar cache is right in every state of every instance, one step after
\* the other (client.go getUserAvatarURL).
THEOREM Inductive == Spec => []CacheInv
<1>1. Init => CacheInv
  BY DEF Init, CacheInv, BestAvatar, Keys
<1>2. CacheInv /\ [Next]_vars => CacheInv'
  <2>. SUFFICES ASSUME CacheInv, [Next]_vars
                PROVE  CacheInv'
    OBVIOUS
  \* Steps that leave the cache and all downloads alone.
  <2>1. ASSUME NEW r \in Requests, NEW place \in {"call", "avatars", "send",
                                                  "sent", "panicked"},
               pc' = [pc EXCEPT ![r] = place] \/ UNCHANGED pc,
               pc[r] # "download",
               todo' = [todo EXCEPT ![r] = todo'[r]],
               UNCHANGED <<size, cache, troubled>>
        PROVE  CacheInv'
    <3>1. pc' \in [Requests -> {"new", "call", "avatars", "download", "send",
                                "sent", "panicked"}]
      BY <2>1 DEF CacheInv
    <3>2. BestAvatar'
      BY <2>1 DEF CacheInv, BestAvatar, Keys, Best
    <3>3. ASSUME NEW q \in Requests, pc'[q] = "download"
          PROVE  pc[q] = "download" /\ todo'[q] = todo[q]
      BY <2>1, <3>3 DEF CacheInv
    <3>4. todo' = [q \in Requests |-> todo'[q]]
      BY <2>1 DEF CacheInv
    <3>. QED  BY <2>1, <3>1, <3>2, <3>3, <3>4 DEF CacheInv
  <2>2. ASSUME NEW r \in Requests, handleRequest(r)
        PROVE  CacheInv'
    <3>1. /\ pc[r] = "new"
          /\ UNCHANGED <<todo, size, cache, troubled>>
          /\ \E place \in {"call", "send", "panicked"} :
                 pc' = [pc EXCEPT ![r] = place]
      BY <2>2 DEF handleRequest, Goto, Fail
    <3>2. todo' = [todo EXCEPT ![r] = todo'[r]]
      BY <3>1 DEF CacheInv
    <3>. QED  BY <2>1, <3>1, <3>2
  <2>3. ASSUME NEW r \in Requests, CallReturns(r)
        PROVE  CacheInv'
    <3>1. pc[r] = "call" /\ UNCHANGED <<size, cache, troubled>>
      BY <2>3 DEF CallReturns
    <3>3. /\ \/ UNCHANGED pc
             \/ \E place \in {"avatars", "send", "panicked"} : Goto(r, place)
          /\ \/ UNCHANGED todo
             \/ \E users : todo' = [todo EXCEPT ![r] = users]
      BY <2>3 DEF CallReturns, Fail
    <3>4. todo' = [todo EXCEPT ![r] = todo'[r]]
      BY <3>3 DEF CacheInv
    <3>5. \E place \in {"avatars", "send", "panicked"} :
              pc' = [pc EXCEPT ![r] = place] \/ UNCHANGED pc
      BY <3>3 DEF Goto
    <3>. QED  BY <2>1, <3>1, <3>4, <3>5
  <2>4. ASSUME NEW r \in Requests, CallFails(r) \/ AvatarsDone(r) \/ Send(r)
        PROVE  CacheInv'
    <3>1. /\ pc[r] # "download"
          /\ UNCHANGED <<todo, size, cache, troubled>>
          /\ \E place \in {"send", "sent", "panicked"} :
                 pc' = [pc EXCEPT ![r] = place]
      BY <2>4 DEF CallFails, Fail, AvatarsDone, Send, Goto
    <3>2. todo' = [todo EXCEPT ![r] = todo'[r]]
      BY <3>1 DEF CacheInv
    <3>. QED  BY <2>1, <3>1, <3>2
  <2>5. ASSUME NEW r \in Requests, Hit(r)
        PROVE  CacheInv'
    <3>1. /\ pc[r] = "avatars"
          /\ UNCHANGED <<pc, size, cache, troubled>>
          /\ todo' = [todo EXCEPT ![r] = Tail(@)]
      BY <2>5 DEF Hit
    <3>2. todo' = [todo EXCEPT ![r] = todo'[r]]
      BY <3>1 DEF CacheInv
    <3>. QED  BY <2>1, <3>1, <3>2
  <2>6. ASSUME NEW r \in Requests, Miss(r)
        PROVE  CacheInv'
    <3>1. /\ pc' = [pc EXCEPT ![r] = "download"]
          /\ size' = [size EXCEPT ![r] = 1]
          /\ UNCHANGED <<todo, cache, troubled>>
      BY <2>6 DEF Miss, Goto
    <3>2. BestAvatar'
      BY <3>1 DEF CacheInv, BestAvatar, Keys, Best
    <3>3. ASSUME NEW q \in Requests, NEW u \in Users \ troubled,
                 pc'[q] = "download", u = Head(todo[q]), NEW n \in real[u]
          PROVE  n >= size'[q]
      <4>1. CASE q = r
        <5>1. size'[q] = 1 /\ n \in 1..Sizes
          BY <3>1, <4>1 DEF CacheInv
        <5>. QED  BY <5>1
      <4>2. CASE q # r
        BY <3>1, <3>3, <4>2 DEF CacheInv
      <4>. QED  BY <4>1, <4>2
    <3>. QED  BY <3>1, <3>2, <3>3 DEF CacheInv
  <2>7. ASSUME NEW r \in Requests, DownloadEnds(r)
        PROVE  CacheInv'
    <3>1. pc[r] = "download" /\ UNCHANGED troubled
      BY <2>7 DEF DownloadEnds
    <3>2. CASE size[r] \in real[Head(todo[r])]
      <4>1. AddToCache(r)
        BY <2>7, <3>2 DEF DownloadEnds
      <4>2. ASSUME NEW u \in Users \ troubled', u = Head(todo[r])
            PROVE  size[r] = Best(u)
        <5>1. size[r] \in 1..Sizes /\ \A n \in real[u] : n >= size[r]
          BY <3>1, <4>2 DEF CacheInv
        <5>. QED  BY <3>2, <4>2, <5>1, BestIsFirst
      <4>. QED  BY <3>1, <4>1, <4>2, AddKeepsBest
    <3>3. CASE size[r] \notin real[Head(todo[r])]
      <4>1. NextSize(r)
        BY <2>7, <3>3 DEF DownloadEnds
      <4>. QED  BY <3>1, <3>3, <4>1, NextKeepsBest
    <3>. QED  BY <3>2, <3>3
  <2>8. ASSUME NEW r \in Requests, DownloadFails(r)
        PROVE  CacheInv'
    <3>1. /\ pc[r] = "download"
          /\ NextSize(r) \/ AddToCache(r)
          /\ troubled' = troubled \cup {Head(todo[r])}
      BY <2>8 DEF DownloadFails
    <3>2. \A u \in Users \ troubled' : u # Head(todo[r])
      BY <3>1
    <3>. QED  BY <3>1, <3>2, AddKeepsBest, NextKeepsBest
  <2>9. CASE UNCHANGED vars
    BY <2>9 DEF vars, CacheInv, BestAvatar, Keys, Best
  <2>. QED  BY <2>2, <2>3, <2>4, <2>5, <2>6, <2>7, <2>8, <2>9
            DEF Next, Step, Terminated
<1>. QED  BY <1>1, <1>2, PTL DEF Spec

\* What is cached of a user no download failed of is that user's first size.
THEOREM BestAvatarCorrect == Spec => []BestAvatar
<1>1. CacheInv => BestAvatar
  BY DEF CacheInv
<1>. QED  BY <1>1, Inductive, PTL
-----------------------------------------------------------------------------
(* What a request is answered.                                             *)

\* The parameters a method names, written out.
LEMMA Parameters ==
    ASSUME NEW S, NEW params \in Seq(S)
    PROVE  /\ SubSeq(params, 1, 0) = <<>>
           /\ Len(params) >= 1 => SubSeq(params, 1, 1) = <<params[1]>>
           /\ Len(params) >= 2 => SubSeq(params, 1, 2) = <<params[1], params[2]>>
<1>1. ASSUME NEW n \in 0..Len(params)
      PROVE  /\ SubSeq(params, 1, n) \in Seq(S)
             /\ Len(SubSeq(params, 1, n)) = n
             /\ \A k \in 1..n : SubSeq(params, 1, n)[k] = params[k]
  BY SubSeqProperties
<1>2. ASSUME Len(params) >= 1
      PROVE  SubSeq(params, 1, 1) = <<params[1]>>
  <2>. DEFINE s == SubSeq(params, 1, 1)
              t == <<params[1]>>
  <2>1. t \in Seq(S) /\ Len(t) = 1 /\ t[1] = params[1]
    BY <1>2
  <2>2. s \in Seq(S) /\ Len(s) = 1 /\ s[1] = params[1]
    BY <1>1, <1>2
  <2>. HIDE DEF s, t
  <2>3. s = t
    BY <2>1, <2>2, SeqEqual
  <2>. QED  BY <2>3 DEF s, t
<1>3. ASSUME Len(params) >= 2
      PROVE  SubSeq(params, 1, 2) = <<params[1], params[2]>>
  <2>. DEFINE s == SubSeq(params, 1, 2)
              t == <<params[1], params[2]>>
  <2>1. t \in Seq(S) /\ Len(t) = 2 /\ t[1] = params[1] /\ t[2] = params[2]
    BY <1>3
  <2>2. s \in Seq(S) /\ Len(s) = 2 /\ s[1] = params[1] /\ s[2] = params[2]
    BY <1>1, <1>3
  <2>. HIDE DEF s, t
  <2>3. s = t
    BY <2>1, <2>2, SeqEqual
  <2>. QED  BY <2>3 DEF s, t
<1>. QED  BY <1>2, <1>3, SubSeqEmpty

\* Of a request that has all its parameters and whose calls were all answered
\* with something: the form, the subject and the list of the answer.
LEMMA RespondFits ==
    ASSUME NEW q \in Inputs, q.method \in Supported,
           Len(q.params) >= Arity(q.method), Calls(q) # <<>>,
           NEW answers, Len(answers) = Len(Calls(q)),
           \A k \in 1..Len(Calls(q)) : answers[k] = Answered(Calls(q)[k])
    PROVE  /\ q.method # "get_group_list" /\ DataOf(q.method) # "raw" =>
                  KindOf(q.method) = DataOf(q.method)
           /\ answers[1].about = SubSeq(q.params, 1, Arity(q.method))
           /\ q.method \in {"get_group_info", "get_group_member_list"} =>
                  Latest(answers).list = members[q.params[1]]
<1>. DEFINE first == <<q.params[1]>>
<1>1. q.params \in Seq(STRING)
  BY InputsAssumption
<1>2. /\ Arity(q.method) = 1 => SubSeq(q.params, 1, Arity(q.method)) = first
      /\ Arity(q.method) = 2 => SubSeq(q.params, 1, Arity(q.method))
                                    = <<q.params[1], q.params[2]>>
      /\ Arity(q.method) = 0 => SubSeq(q.params, 1, Arity(q.method)) = <<>>
  BY <1>1, Parameters
<1>3. \/ q.method \in {"get_user_info", "send_message", "revoke_message"}
      \/ q.method \in {"get_friend_list", "get_group_list"}
      \/ q.method = "get_group_info" \/ q.method = "get_group_member_list"
      \/ q.method = "get_group_member_info"
  BY DEF Supported, Calls
<1>4. q.method # "get_group_list" /\ DataOf(q.method) # "raw" =>
          KindOf(q.method) = DataOf(q.method)
  BY <1>3 DEF DataOf, KindOf
<1>5. CASE q.method \in {"get_user_info", "send_message", "revoke_message"}
  <2>1. Arity(q.method) = 1
    BY <1>5 DEF Arity, ParamsOf
  <2>2. \/ Calls(q) = <<Action("get_stranger_info", first)>>
        \/ Calls(q) = <<Action("send_msg", first)>>
        \/ Calls(q) = <<Action("delete_msg", first)>>
    BY <1>5 DEF Calls, NewGetUserInfoRequest, NewMsgRequest, NewDeleteMsgRequest
  <2>3. Calls(q)[1].ids = first /\ Len(Calls(q)) = 1
    BY <2>2 DEF Action
  <2>4. answers[1].about = first
    BY <2>3 DEF Answered
  <2>. QED  BY <1>2, <1>4, <1>5, <2>1, <2>4
<1>6. CASE q.method \in {"get_friend_list", "get_group_list"}
  <2>1. Arity(q.method) = 0
    BY <1>6 DEF Arity, ParamsOf
  <2>2. Calls(q) = <<Action("get_friend_list", <<>>)>>
    BY <1>6 DEF Calls, NewGetFriendListRequest
  <2>3. answers[1].about = <<>>
    BY <2>2 DEF Answered, Action
  <2>. QED  BY <1>2, <1>4, <1>6, <2>1, <2>3
<1>7. CASE q.method = "get_group_info"
  <2>1. Arity(q.method) = 1
    BY <1>7 DEF Arity, ParamsOf
  <2>2. Calls(q) = <<Action("get_group_info", first),
                     Action("get_group_member_list", first)>>
    BY <1>7 DEF Calls, NewGetGroupInfoRequest, NewGetGroupMemberListRequest
  <2>3. /\ Len(answers) = 2
        /\ answers[1] = Answered(Action("get_group_info", first))
        /\ answers[2] = Answered(Action("get_group_member_list", first))
    BY <2>2
  <2>4. answers[1].about = first /\ answers[2].list = members[q.params[1]]
    BY <2>3 DEF Answered, Action
  <2>. QED  BY <1>2, <1>4, <1>7, <2>1, <2>3, <2>4 DEF Latest
<1>8. CASE q.method = "get_group_member_list"
  <2>1. Arity(q.method) = 1
    BY <1>8 DEF Arity, ParamsOf
  <2>2. Calls(q) = <<Action("get_group_member_list", first)>>
    BY <1>8 DEF Calls, NewGetGroupMemberListRequest
  <2>3. /\ Len(answers) = 1
        /\ answers[1] = Answered(Action("get_group_member_list", first))
    BY <2>2
  <2>4. answers[1].about = first /\ answers[1].list = members[q.params[1]]
    BY <2>3 DEF Answered, Action
  <2>. QED  BY <1>2, <1>4, <1>8, <2>1, <2>3, <2>4 DEF Latest
<1>9. CASE q.method = "get_group_member_info"
  <2>1. Arity(q.method) = 2
    BY <1>9 DEF Arity, ParamsOf
  <2>2. Calls(q) = <<Action("get_group_member_info",
                            <<q.params[1], q.params[2]>>)>>
    BY <1>9 DEF Calls, NewGetGroupMemberInfoRequest
  <2>3. answers[1].about = <<q.params[1], q.params[2]>>
    BY <2>2 DEF Answered, Action
  <2>. QED  BY <1>2, <1>4, <1>9, <2>1, <2>3
<1>. QED  BY <1>3, <1>5, <1>6, <1>7, <1>8, <1>9

\* A method makes two calls at most.
LEMMA CallsType ==
    ASSUME NEW q
    PROVE  Len(Calls(q)) \in 0..2 /\ DOMAIN Calls(q) = 1..Len(Calls(q))
<1>1. \/ Calls(q) = <<>>
      \/ Calls(q) = <<NewGetUserInfoRequest(q.params[1])>>
      \/ Calls(q) = <<NewGetGroupInfoRequest(q.params[1]),
                      NewGetGroupMemberListRequest(q.params[1])>>
      \/ Calls(q) = <<NewGetFriendListRequest>>
      \/ Calls(q) = <<NewGetGroupMemberListRequest(q.params[1])>>
      \/ Calls(q) = <<NewGetGroupMemberInfoRequest(q.params[1], q.params[2])>>
      \/ Calls(q) = <<NewMsgRequest(q.params[1])>>
      \/ Calls(q) = <<NewDeleteMsgRequest(q.params[1])>>
  BY Zenon DEF Calls
<1>. QED  BY <1>1

\* What there is to show of a step of one request.
Kept(r) ==
    /\ pc[r] = "new" => got[r] = <<>> /\ answer[r] = NoAnswer
    /\ pc[r] = "call" => Asking(r)
    /\ pc[r] \in {"avatars", "download"} => Len(got[r]) \in DOMAIN got[r]
    /\ pc[r] \in {"avatars", "download", "send", "sent"} => Fits(r)
    /\ pc[r] = "panicked" => \/ Spoiled(r)
                             \/ Short(request[r])
                             \/ request[r].message = "bare"

\* The other requests are left alone.
LEMMA OneRequest ==
    ASSUME AnswerInv, NEW r \in Requests, Kept(r)',
           DOMAIN request' = Requests, DOMAIN got' = Requests,
           DOMAIN answer' = Requests, DOMAIN pc' = Requests,
           \A o \in Requests \ {r} : /\ request'[o] = request[o]
                                    /\ got'[o] = got[o]
                                    /\ answer'[o] = answer[o]
                                    /\ pc'[o] = pc[o]
    PROVE  AnswerInv'
<1>1. ASSUME NEW o \in Requests \ {r} PROVE Kept(o)'
  <2>1. Kept(o)
    BY DEF AnswerInv, AnswerFits, Kept, Fits
  <2>. QED  BY <2>1 DEF Kept, Asking, Fits, Spoiled
<1>2. \A o \in Requests : Kept(o)'
  BY <1>1
<1>. QED  BY <1>2 DEF AnswerInv, AnswerFits, Kept

\* A request that is asking, and to which NapCat answers: it panics, fails,
\* asks on, or is answered as it should be.
LEMMA CallReturnsFits ==
    ASSUME AnswerInv, NEW r \in Requests, CallReturns(r)
    PROVE  AnswerInv'
<1>. DEFINE q == request[r]
            n == Len(got[r])
            call == Calls(q)[n + 1]
            Data == {Answered(Calls(q)[k]) : k \in DOMAIN Calls(q)} \cup {Null}
<1>1. /\ pc[r] = "call" /\ q \in Inputs /\ q.method \in Supported
      /\ Len(q.params) >= Arity(q.method)
      /\ answer[r] = NoAnswer
      /\ n < Len(Calls(q))
      /\ \A k \in DOMAIN got[r] : got[r][k] \in {Answered(Calls(q)[k]), Null}
      /\ got[r] \in Seq(Data)
  BY DEF CallReturns, AnswerInv, Asking
<1>2. UNCHANGED request
  BY DEF CallReturns
<1>3. PICK data \in {Answered(call)} \cup Malformed :
         /\ got' = [got EXCEPT ![r] = Append(@, data)]
         /\ \/ Panics(q.method, data) /\ Goto(r, "panicked") /\ UNCHANGED answer
            \/ Undecodable(q.method, call, data) /\ Fail(r)
            \/ Holes(call, data) /\ Goto(r, "avatars") /\ UNCHANGED answer
            \/ /\ ~Panics(q.method, data) /\ ~Holes(call, data)
               /\ ~Undecodable(q.method, call, data)
               /\ IF Len(got'[r]) < Len(Calls(q))
                  THEN UNCHANGED <<pc, answer>>
                  ELSE Goto(r, "avatars") /\ Respond(r, got'[r])
  BY DEF CallReturns
<1>4. /\ DOMAIN request = Requests /\ DOMAIN got = Requests
      /\ DOMAIN answer = Requests /\ DOMAIN pc = Requests
  BY DEF AnswerInv
<1>5. /\ n \in Nat /\ Len(Calls(q)) \in 1..2 /\ n + 1 \in DOMAIN Calls(q)
      /\ DOMAIN Calls(q) = 1..Len(Calls(q)) /\ DOMAIN got[r] = 1..n
  BY <1>1, CallsType
<1>6. data \in Data \cup Malformed
  BY <1>3, <1>5
<1>7. /\ got'[r] = Append(got[r], data)
      /\ Len(got'[r]) = n + 1
      /\ DOMAIN got'[r] = 1..(n + 1)
      /\ \A k \in 1..(n + 1) : got'[r][k] = IF k = n + 1 THEN data ELSE got[r][k]
      /\ data \in Data => got'[r] \in Seq(Data)
  <2>. HIDE DEF Data, n
  <2>1. got'[r] = Append(got[r], data)
    BY <1>3, <1>4
  <2>2. got[r] \in Seq(Data \cup Malformed)
    BY <1>1
  <2>. QED  BY <1>1, <1>6, <2>1, <2>2 DEF n
<1>8. DOMAIN got' = Requests
      /\ \A o \in Requests \ {r} : got'[o] = got[o]
  BY <1>3, <1>4
<1>9. data \in Malformed => Spoiled(r)'
  BY <1>5, <1>7 DEF Spoiled, Range
<1>10. CASE Panics(q.method, data) /\ Goto(r, "panicked") /\ UNCHANGED answer
  <2>1. pc' = [pc EXCEPT ![r] = "panicked"] /\ UNCHANGED answer
    BY <1>10 DEF Goto
  <2>2. Spoiled(r)'
    BY <1>9, <1>10 DEF Panics, Malformed
  <2>. QED  BY <1>2, <1>4, <1>8, <2>1, <2>2, OneRequest DEF Kept
<1>11. CASE Fail(r)
  <2>1. /\ pc' = [pc EXCEPT ![r] = "send"]
        /\ answer' = [answer EXCEPT ![r].error = TRUE]
    BY <1>11 DEF Fail, Goto
  <2>2. answer'[r].error = TRUE /\ answer'[r].kind = "none"
    BY <1>1, <1>4, <2>1 DEF NoAnswer
  <2>3. Kept(r)'
    BY <1>4, <2>1, <2>2 DEF Kept, Fits
  <2>. QED  BY <1>2, <1>4, <1>8, <2>1, <2>3, OneRequest
<1>12. CASE Holes(call, data) /\ Goto(r, "avatars") /\ UNCHANGED answer
  <2>1. pc' = [pc EXCEPT ![r] = "avatars"] /\ UNCHANGED answer
    BY <1>12 DEF Goto
  <2>2. Spoiled(r)'
    BY <1>9, <1>12 DEF Holes, Malformed
  <2>3. answer'[r].error = FALSE
    BY <1>1, <2>1 DEF NoAnswer
  <2>4. Len(got'[r]) \in DOMAIN got'[r]
    BY <1>5, <1>7
  <2>5. Kept(r)'
    BY <1>4, <2>1, <2>2, <2>3, <2>4 DEF Kept, Fits
  <2>. QED  BY <1>2, <1>4, <1>8, <2>1, <2>5, OneRequest
<1>13. CASE /\ ~Panics(q.method, data) /\ ~Holes(call, data)
            /\ ~Undecodable(q.method, call, data)
            /\ n + 1 < Len(Calls(q))
            /\ UNCHANGED <<pc, answer>>
  \* Only get_group_info asks twice, and decodes the first answer.
  <2>1. q.method = "get_group_info" /\ call.action = "get_group_info"
    <3>1. Len(Calls(q)) = 2 /\ n = 0
      <4>1. n + 1 < Len(Calls(q)) /\ n \in Nat /\ Len(Calls(q)) \in 1..2
        BY <1>5, <1>13
      <4>2. \A a \in Nat, b \in 1..2 : a + 1 < b => a = 0 /\ b = 2
        OBVIOUS
      <4>. HIDE DEF n, q
      <4>. QED  BY <4>1, <4>2, Zenon
    <3>2. q.method = "get_group_info"
      BY <1>1, <3>1 DEF Calls, Supported
    <3>. QED  BY <3>1, <3>2 DEF Calls, NewGetGroupInfoRequest, Action
  <2>2. data \in {Answered(call), Null}
    BY <1>3, <1>13, <2>1 DEF Undecodable, Lists, Malformed
  <2>3. Asking(r)'
    <3>1. request'[r] = q /\ answer'[r] = NoAnswer
      BY <1>1, <1>2, <1>13
    <3>2. data \in Data
      BY <1>5, <2>2
    <3>3. /\ Len(got'[r]) < Len(Calls(q)) /\ got'[r] \in Seq(Data)
          /\ \A k \in DOMAIN got'[r] :
                 got'[r][k] \in {Answered(Calls(q)[k]), Null}
      BY <1>1, <1>5, <1>7, <1>13, <2>2, <3>2
    <3>. HIDE DEF q
    <3>. QED  BY <1>1, <3>1, <3>3 DEF Asking
  <2>. QED  BY <1>1, <1>2, <1>4, <1>8, <1>13, <2>3, OneRequest DEF Kept
<1>14. CASE ~(n + 1 < Len(Calls(q))) /\ Goto(r, "avatars") /\ Respond(r, got'[r])
  <2>1. pc' = [pc EXCEPT ![r] = "avatars"]
    BY <1>14 DEF Goto
  <2>2. /\ DOMAIN answer' = Requests
        /\ \A o \in Requests \ {r} : answer'[o] = answer[o]
        /\ answer'[r] = [error |-> FALSE, kind |-> KindOf(q.method),
                         about |-> got'[r][1].about,
                         list |-> Latest(got'[r]).list]
    BY <1>4, <1>14 DEF Respond
  <2>3. Len(got'[r]) = Len(Calls(q))
    BY <1>1, <1>5, <1>7, <1>14
  <2>4. ASSUME ~Spoiled(r)'
        PROVE  \A k \in 1..Len(Calls(q)) : got'[r][k] = Answered(Calls(q)[k])
    <3>1. \A k \in 1..(n + 1) : got'[r][k] \notin Malformed
      BY <1>7, <2>4 DEF Spoiled, Range
    <3>2. Null \in Malformed
      BY DEF Malformed
    <3>3. \A k \in 1..n : got'[r][k] = Answered(Calls(q)[k])
      BY <1>1, <1>5, <1>7, <3>1, <3>2
    <3>4. got'[r][n + 1] = Answered(call)
      BY <1>3, <1>5, <1>7, <3>1
    <3>. QED  BY <1>5, <1>7, <2>3, <3>3, <3>4
  <2>5. Fits(r)'
    <3>1. CASE Spoiled(r)'
      BY <2>2, <3>1 DEF Fits
    <3>2. CASE ~Spoiled(r)'
      <4>1. Calls(q) # <<>>
        BY <1>5
      <4>2. /\ q.method # "get_group_list" /\ DataOf(q.method) # "raw" =>
                  KindOf(q.method) = DataOf(q.method)
            /\ got'[r][1].about = SubSeq(q.params, 1, Arity(q.method))
            /\ q.method \in {"get_group_info", "get_group_member_list"} =>
                  Latest(got'[r]).list = members[q.params[1]]
        BY <1>1, <2>3, <2>4, <3>2, <4>1, RespondFits
      <4>3. request'[r] = q
        BY <1>2
      <4>4. /\ answer'[r].error = FALSE /\ answer'[r].kind = KindOf(q.method)
            /\ answer'[r].about = got'[r][1].about
            /\ answer'[r].list = Latest(got'[r]).list
        BY <2>2
      <4>. HIDE DEF q
      <4>. QED  BY <4>2, <4>3, <4>4, Zenon DEF Fits
    <3>. QED  BY <3>1, <3>2
  <2>6. Len(got'[r]) \in DOMAIN got'[r]
    BY <1>5, <1>7
  <2>. QED  BY <1>2, <1>4, <1>8, <2>1, <2>2, <2>5, <2>6, OneRequest DEF Kept
<1>. QED  BY <1>3, <1>7, <1>10, <1>11, <1>12, <1>13, <1>14

\* Every step of a request keeps what holds of its answer.
LEMMA NextAnswerInv == AnswerInv /\ [Next]_vars => AnswerInv'
<1>. SUFFICES ASSUME AnswerInv, [Next]_vars PROVE AnswerInv'
  OBVIOUS
<1>0. /\ DOMAIN request = Requests /\ DOMAIN got = Requests
      /\ DOMAIN answer = Requests /\ DOMAIN pc = Requests
  BY DEF AnswerInv
<1>1. ASSUME NEW r \in Requests, handleRequest(r)
      PROVE  AnswerInv'
  <2>1. PICK q \in Inputs :
           /\ request' = [request EXCEPT ![r] = q]
           /\ \/ Short(q) /\ Goto(r, "panicked") /\ UNCHANGED answer
              \/ ~Short(q) /\ Refused(q) /\ Fail(r)
              \/ /\ ~Short(q) /\ ~Refused(q)
                 /\ Goto(r, IF q.message = "bare" THEN "panicked"
                            ELSE IF Calls(q) = <<>> THEN "send" ELSE "call")
                 /\ UNCHANGED answer
    BY <1>1 DEF handleRequest
  <2>2. UNCHANGED got /\ got[r] = <<>> /\ answer[r] = NoAnswer
    BY <1>1 DEF handleRequest, AnswerInv
  <2>3. request'[r] = q /\ DOMAIN request' = Requests
        /\ \A o \in Requests \ {r} : request'[o] = request[o]
    BY <1>0, <2>1
  <2>4. CASE /\ Short(q) \/ q.message = "bare"
             /\ Goto(r, "panicked") /\ UNCHANGED answer
    <3>1. pc' = [pc EXCEPT ![r] = "panicked"] /\ UNCHANGED answer
      BY <2>4 DEF Goto
    <3>2. Kept(r)'
      BY <1>0, <2>3, <2>4, <3>1 DEF Kept
    <3>. QED  BY <1>0, <2>2, <2>3, <3>1, <3>2, OneRequest
  <2>5. CASE Fail(r)
    <3>1. /\ pc' = [pc EXCEPT ![r] = "send"]
          /\ answer' = [answer EXCEPT ![r].error = TRUE]
      BY <2>5 DEF Fail, Goto
    <3>2. answer'[r].error = TRUE /\ answer'[r].kind = "none"
      BY <1>0, <2>2, <3>1 DEF NoAnswer
    <3>3. Kept(r)'
      BY <1>0, <3>1, <3>2 DEF Kept, Fits
    <3>. QED  BY <1>0, <2>2, <2>3, <3>1, <3>3, OneRequest
  <2>6. CASE /\ ~Short(q) /\ ~Refused(q) /\ q.message # "bare"
             /\ UNCHANGED answer
             /\ Goto(r, IF Calls(q) = <<>> THEN "send" ELSE "call")
    <3>1. q.params \in Seq(STRING) /\ Arity(q.method) \in 0..2
          /\ Len(q.params) >= Arity(q.method) /\ q.method \in Supported
      BY <2>6, InputsAssumption DEF Arity, Short, Refused
    <3>2. CASE Calls(q) = <<>>
      <4>1. pc' = [pc EXCEPT ![r] = "send"]
        BY <2>6, <3>2 DEF Goto
      <4>2. q.method = "logout"
        BY <3>1, <3>2 DEF Supported, Calls
      <4>3. Fits(r)'
        <5>1. Arity(q.method) = 0 /\ DataOf(q.method) = "raw"
          BY <4>2 DEF Arity, ParamsOf, DataOf
        <5>2. answer'[r] = NoAnswer /\ SubSeq(q.params, 1, 0) = <<>>
          BY <2>2, <2>6, <3>1, Parameters
        <5>. QED  BY <2>3, <4>2, <5>1, <5>2 DEF Fits, NoAnswer
      <4>4. Kept(r)'
        BY <1>0, <4>1, <4>3 DEF Kept
      <4>. QED  BY <1>0, <2>2, <2>3, <2>6, <4>1, <4>4, OneRequest
    <3>3. CASE Calls(q) # <<>>
      <4>1. pc' = [pc EXCEPT ![r] = "call"]
        BY <2>6, <3>3 DEF Goto
      <4>2. got'[r] = <<>> /\ answer'[r] = NoAnswer
        BY <2>2, <2>6
      <4>3. 0 < Len(Calls(q))
        BY <3>3, CallsType DEF Calls
      <4>4. Asking(r)'
        BY <2>3, <3>1, <4>2, <4>3 DEF Asking
      <4>5. Kept(r)'
        BY <1>0, <4>1, <4>4 DEF Kept
      <4>. QED  BY <1>0, <2>2, <2>3, <2>6, <4>1, <4>5, OneRequest
    <3>. QED  BY <3>2, <3>3
  <2>. QED  BY <2>1, <2>4, <2>5, <2>6
<1>2. ASSUME NEW r \in Requests, CallFails(r)
      PROVE  AnswerInv'
  <2>1. /\ UNCHANGED <<request, got>>
        /\ pc' = [pc EXCEPT ![r] = "send"]
        /\ answer' = [answer EXCEPT ![r].error = TRUE]
        /\ answer[r] = NoAnswer
    BY <1>2 DEF CallFails, Fail, Goto, AnswerInv, Asking
  <2>2. answer'[r].error = TRUE /\ answer'[r].kind = "none"
    BY <1>0, <2>1 DEF NoAnswer
  <2>3. Kept(r)'
    BY <1>0, <2>1, <2>2 DEF Kept, Fits
  <2>. QED  BY <1>0, <2>1, <2>3, OneRequest
\* Once the answer is made nothing changes it; a hole in a list is met after
\* the avatars of the entries before it.
<1>3. ASSUME NEW r \in Requests,
             \/ Hit(r) \/ Miss(r) \/ AvatarsDone(r) \/ Send(r)
             \/ DownloadEnds(r) \/ DownloadFails(r)
      PROVE  AnswerInv'
  <2>1. /\ UNCHANGED <<request, got, answer>>
        /\ pc[r] \in {"avatars", "download", "send", "sent"}
    BY <1>3 DEF Hit, Miss, AvatarsDone, Send, DownloadEnds, DownloadFails
  <2>2. \/ UNCHANGED pc
        \/ pc' = [pc EXCEPT ![r] = "sent"]
        \/ /\ pc[r] \in {"avatars", "download"}
           /\ \E p \in {"avatars", "download", "send"} :
                  pc' = [pc EXCEPT ![r] = p]
        \/ /\ pc[r] = "avatars" /\ pc' = [pc EXCEPT ![r] = "panicked"]
           /\ Latest(got[r]) = Holey
    BY <1>3 DEF Hit, Miss, AvatarsDone, Send, DownloadEnds, DownloadFails,
       NextSize, AddToCache, Goto, Holes
  <2>3. /\ Fits(r)
        /\ pc[r] \in {"avatars", "download"} => Len(got[r]) \in DOMAIN got[r]
    BY <2>1 DEF AnswerInv
  <2>4. Fits(r)'
    BY <2>1, <2>3 DEF Fits, Spoiled
  <2>5. pc'[r] = "panicked" => Spoiled(r)'
    <3>1. Holey \in Malformed
      BY DEF Malformed
    <3>2. pc'[r] = "panicked" => /\ Len(got[r]) \in DOMAIN got[r]
                                 /\ got[r][Len(got[r])] = Holey
      BY <1>0, <2>1, <2>2, <2>3 DEF Latest
    <3>. QED  BY <2>1, <3>1, <3>2 DEF Spoiled, Range
  <2>6. Kept(r)'
    BY <1>0, <2>1, <2>2, <2>3, <2>4, <2>5 DEF Kept
  <2>. QED  BY <1>0, <2>1, <2>2, <2>6, OneRequest
<1>4. CASE UNCHANGED vars
  <2>1. UNCHANGED <<pc, request, got, answer>>
    BY <1>4 DEF vars
  <2>2. ASSUME NEW r \in Requests
        PROVE  Kept(r)'
    <3>1. Kept(r)
      BY DEF AnswerInv, AnswerFits, Kept, Fits
    <3>. QED  BY <2>1, <3>1 DEF Kept, Asking, Fits, Spoiled
  <2>. QED  BY <1>0, <2>1, <2>2 DEF AnswerInv, AnswerFits, Kept
<1>. QED  BY <1>1, <1>2, <1>3, <1>4, CallReturnsFits DEF Next, Step, Terminated

\* Every request is answered with what it asked for, in the form the bridge
\* reads (get_group_list excepted), or with an error and no data, unless it
\* or NapCat's answer was malformed.
THEOREM AnswerFitsCorrect == Spec => []AnswerFits
<1>1. Init => AnswerInv
  BY DEF Init, AnswerInv, AnswerFits
<1>2. AnswerInv => AnswerFits
  BY DEF AnswerInv
<1>. QED  BY <1>1, <1>2, NextAnswerInv, PTL DEF Spec
=============================================================================
