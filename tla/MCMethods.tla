------------------------------ MODULE MCMethods ------------------------------
(* Methods with two friends, one of them in the group, and every method.    *)
EXTENDS Methods, TLC

MCFriends == <<"1", "2">>
MCMembers == [g \in {"7"} |-> <<"2", "3">>]
MCReal    == ("1" :> {1, 2}) @@ ("2" :> {2}) @@ ("3" :> {})

Input(method, params) ==
    [method |-> method, params |-> params, message |-> "sound"]

Message(kind) == [method |-> "send_message", params |-> <<"7">>, message |-> kind]

MCInputs ==
    {Input("get_user_info", p) : p \in {<<"1">>, <<"bad">>, <<>>}}
    \cup {Input(m, <<"7">>) : m \in {"get_group_info", "get_group_member_list"}}
    \cup {Input("get_group_member_info", p) :
              p \in {<<"7", "2">>, <<"7", "bad">>, <<"7">>}}
    \cup {Input(m, <<>>) : m \in {"get_friend_list", "get_group_list",
                                  "logout", "other"}}
    \cup {Input("revoke_message", <<"7">>)}
    \cup {Message(kind) : kind \in {"sound", "bare", "unknown"}}
=============================================================================
