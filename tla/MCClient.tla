------------------------------ MODULE MCClient -------------------------------
(* Client on a small instance: all events are of one chat.                 *)
EXTENDS Client

MCChatOf == [e \in Events |-> CHOOSE c \in Chats : TRUE]
MCHash   == [k \in Chats \cup {None} |-> 0]
=============================================================================
