------------------------------ MODULE Protocol -------------------------------
(***************************************************************************)
(* How the agent reads both its peers: which Go type a frame of NapCat      *)
(* becomes (napcat/protocol.go), and as what the bridge and the agent,      *)
(* which share common/protocol.go, read the untyped part of a packet.       *)
(***************************************************************************)
EXTENDS Naturals, Sequences

(* NapCat's frames: post_type, "" when there is none, and detail, the field  *)
(* the frame is told apart by otherwise (message_type, notice_type, ...).    *)

unmarshalMeta(m) == CASE m.detail = "lifecycle" -> "LifeCycle"
                      [] m.detail = "heartbeat" -> "Heartbeat"
                      [] OTHER -> "Event"

unmarshalNotice(m) == CASE m.detail = "group_recall"  -> "GroupRecall"
                        [] m.detail = "friend_recall" -> "FriendRecall"
                        [] OTHER -> "Event"

\* "error" when a frame is logged and dropped.
UnmarshalPayload(m) ==
    CASE m.post_type \in {"message", "message_sent"}    -> "Message"
      [] m.post_type = "meta_event"                     -> unmarshalMeta(m)
      [] m.post_type = "notice"                         -> unmarshalNotice(m)
      [] m.post_type = "request"                        -> "Event"
      [] m.post_type = "" /\ m.detail = "retcode"       -> "Response"
      [] m.post_type = "" /\ m.detail = "action"        -> "Request"
      [] OTHER -> "error"

\* The methods EventType of the Go types; a message that is not private is
\* taken for one of a group.
EventType(m) ==
    LET type == UnmarshalPayload(m) IN
    CASE type = "Message" -> IF m.detail = "private" THEN "message_private"
                                                    ELSE "message_group"
      [] type = "LifeCycle"    -> "meta_lifecycle"
      [] type = "Heartbeat"    -> "meta_heartbeat"
      [] type = "GroupRecall"  -> "notice_group_recall"
      [] type = "FriendRecall" -> "notice_friend_recall"
      [] type = "Event"        -> "event_unknown"

(* Segments of a message: their type, what sets two of a type apart, the    *)
(* text of those that have one, and whether their url is one of HTTP.       *)
Segment(type, what, text, url) ==
    [type |-> type, what |-> what, text |-> text, url |-> url]

\* The types generateSegments makes a segment of; it drops the others.
SegmentTypes == {"text", "face", "mface", "image", "record", "video", "file",
                 "at", "share", "location", "reply", "forward", "node", "xml",
                 "json"}

generateSegments(d) ==
    LET kept[n \in 0..Len(d)] ==
            IF n = 0 THEN <<>>
            ELSE IF d[n].type \in SegmentTypes THEN Append(kept[n-1], d[n])
                                               ELSE kept[n-1]
    IN kept[Len(d)]

NewText(content)     == Segment("text", "", content, FALSE)
NewAt(target)        == Segment("at", target, <<>>, FALSE)
NewReply             == Segment("reply", "", <<>>, FALSE)
NewMedia(type, name) == Segment(type, name, <<>>, FALSE)
NewJSON(view)        == Segment("json", view, <<>>, FALSE)

(* The packets of agent and bridge.                                        *)

\* Request.UnmarshalJSON: what Params becomes.
ParamsOf(method) ==
    CASE method = "login" -> "step"
      [] method \in {"get_user_info", "get_group_info", "get_group_member_list",
                     "get_group_member_info", "revoke_message"} -> "strings"
      [] method = "send_message" -> "message"
      [] OTHER -> "raw"

\* Response.UnmarshalJSON: what Data is read as, when there is no error.
DataOf(method) ==
    CASE method = "login" -> "step"
      [] method \in {"get_login_info", "get_user_info"} -> "user"
      [] method = "get_group_info"        -> "group"
      [] method = "get_friend_list"       -> "users"
      [] method = "get_group_list"        -> "groups"
      [] method = "get_group_member_list" -> "members"
      [] method = "get_group_member_info" -> "member"
      [] method = "send_message"          -> "message"
      [] OTHER -> "raw"

\* Message.UnmarshalJSON: what Attachment is read as; "raw" is not looked at.
AttachmentOf(type) ==
    CASE type \in {"image", "sticker", "audio", "video", "file"} -> "blobs"
      [] type = "location" -> "location"
      [] type = "app"      -> "app"
      [] OTHER -> "raw"
=============================================================================
