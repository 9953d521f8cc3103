----------------------------- MODULE MCMessages ------------------------------
(* Messages on frames of up to three segments of every kind, and on every   *)
(* header, and on texts of up to three tokens with up to two mentions.      *)
EXTENDS Messages

MCPrefix == {<<"1", "12">>, <<"room", "roommate">>}

Kinds ==
    {Segment("text", "", <<<<"text", "word">>>>, FALSE),
     Segment("face", "", <<>>, FALSE), Segment("mface", "", <<>>, TRUE),
     Segment("at", "1", <<>>, FALSE), Segment("at", "all", <<>>, FALSE),
     Segment("image", "photo", <<>>, TRUE), Segment("image", "sticker", <<>>, TRUE),
     Segment("video", "", <<>>, TRUE), Segment("video", "", <<>>, FALSE),
     Segment("file", "", <<>>, FALSE), Segment("record", "", <<>>, FALSE),
     Segment("reply", "", <<>>, FALSE), Segment("forward", "", <<>>, FALSE),
     Segment("json", "LocationShare", <<>>, FALSE),
     Segment("json", "doc", <<>>, FALSE), Segment("json", "other", <<>>, FALSE),
     Segment("share", "", <<>>, FALSE), Segment("contact", "", <<>>, FALSE)}

Frame(post, detail, segs) ==
    [post_type |-> post, detail |-> detail, sender |-> IF post = "message_sent"
     THEN "self" ELSE "peer", target |-> "peer", group |-> "group",
     segments |-> segs]

SeqsOf(S, n) == UNION {[1..k -> S] : k \in 0..n}

MCFrames ==
    {Frame("message", "group", s) : s \in SeqsOf(Kinds, 3)}
    \cup {Frame(p, d, s) : p \in {"message", "message_sent"},
                           d \in {"private", "group"}, s \in SeqsOf(Kinds, 1)}
    \cup {Frame(p, d, <<>>) : p \in {"meta_event", "notice", "request", ""},
                              d \in {"lifecycle", "heartbeat", "group_recall",
                                     "friend_recall", "poke", "retcode",
                                     "action"}}

Tokens == {<<"text", "word">>, <<"@", "1">>, <<"@", "12">>, <<"@", "room">>}

MCOutgoing ==
    {[type |-> "text", content |-> c, mentions |-> m, reply |-> r, blobs |-> 0] :
        c \in SeqsOf(Tokens, 3), m \in SeqsOf({"1", "12", "room"}, 2),
        r \in BOOLEAN}
    \cup {[type |-> t, content |-> <<>>, mentions |-> <<>>, reply |-> r,
           blobs |-> 1] :
        t \in {"image", "sticker", "audio", "video", "file"}, r \in BOOLEAN}
    \cup {[type |-> "image", content |-> <<>>, mentions |-> <<>>,
           reply |-> FALSE, blobs |-> 2]}
    \cup {[type |-> t, content |-> <<>>, mentions |-> <<>>, reply |-> FALSE,
           blobs |-> 0] : t \in {"location", "app"}}
=============================================================================
