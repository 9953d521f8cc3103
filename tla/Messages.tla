------------------------------ MODULE Messages -------------------------------
(***************************************************************************)
(* What becomes of one message.  A message of the bridge is turned into     *)
(* segments (SendMessage, genTextSegments) and sent; a frame of NapCat is   *)
(* turned into a message for the bridge (handleEvent, populateMessage),     *)
(* segment by segment, with the media it names fetched on the way           *)
(* (getMedia).  What one agent sends another receives as such a frame.      *)
(*                                                                         *)
(* Text is a sequence of tokens: <<"text", w>> for words and placeholders,  *)
(* <<"@", t>> for an @ with what follows it, and <<m, t>> for what is left  *)
(* of t when its prefix m was cut off.  Content is a sequence of pieces,    *)
(* each with the segment it came from; a blob is known by its segment too.  *)
(***************************************************************************)
EXTENDS Protocol, Naturals, SequencesExt

CONSTANTS Frames,            \* frames NapCat may send, other than deliveries
          Outgoing,          \* messages the bridge may ask to send
          prefix,            \* <<m, t>>: m is a proper prefix of t
          NoFrame            \* no frame yet

ASSUME MessagesAssumption ==
    /\ \A f \in Frames : f.segments \in Seq(Range(f.segments))
    /\ \A m \in Outgoing :
           /\ m.content \in Seq(Range(m.content))
           /\ \A t \in Range(m.content) : t = <<t[1], t[2]>>
           /\ m.mentions \in Seq(Range(m.mentions))
           /\ "all" \notin Range(m.mentions)
           /\ m.reply \in BOOLEAN
           /\ m.blobs \in Nat
           /\ m.type = "image" => m.blobs > 0
           /\ m.type \in {"sticker", "audio", "video", "file"} => m.blobs = 1

VARIABLES pc,
          out,               \* the bridge's message; type "" when there is none
          frame,             \* the frame of NapCat that is handled
          key,               \* the key whose mutex handleEvent holds
          i,                 \* populateMessage: the segment it is at
          msg,               \* the message that is built for the bridge
          summary, images,   \* populateMessage's variables
          tried,             \* getMedia: the sources tried for segment i
          gaveUp             \* history: the segments getMedia had no media for

vars == <<pc, out, frame, key, i, msg, summary, images, tried, gaveUp>>

NoAttachment == [form |-> "none", of |-> <<>>]
NoOut == [type |-> "", content |-> <<>>, mentions |-> <<>>, reply |-> FALSE,
          blobs |-> 0]

\* The message handlePrivateMessage and handleGroupMessage start from; Reply is
\* the segment it came from, 0 for nil.
EmptyMessage(chat) ==
    [Type |-> "text", Chat |-> chat, Content |-> <<>>, Mentions |-> <<>>,
     Reply |-> 0, Attachment |-> NoAttachment]

Init ==
    /\ \/ pc = "send" /\ out \in Outgoing /\ frame = NoFrame
       \/ pc = "read" /\ out = NoOut /\ frame \in Frames
    /\ key = ""
    /\ i = 1
    /\ msg = EmptyMessage("")
    /\ summary = <<>>
    /\ images = <<>>
    /\ tried = <<>>
    /\ gaveUp = {}

building == <<msg, summary, images>>
-----------------------------------------------------------------------------
(* From the bridge to NapCat.                                              *)

\* The mention that (?:@m1|@m2|...) finds at @t, as the places of those that fit.
Fitting(mentions, t) ==
    {k \in DOMAIN mentions : mentions[k] = t \/ <<mentions[k], t>> \in prefix}

AppendText(segments, token) ==
    IF segments # <<>> /\ Last(segments).type = "text"
    THEN [segments EXCEPT ![Len(segments)].text = Append(@, token)]
    ELSE Append(segments, NewText(<<token>>))

\* A token that begins with a mention becomes its AtSegment and the rest.
AppendToken(segments, token, mentions) ==
    LET fitting == IF token[1] = "@" THEN Fitting(mentions, token[2]) ELSE {}
        m  == mentions[CHOOSE k \in fitting : \A l \in fitting : k <= l]
        at == Append(segments, NewAt(IF m = "room" THEN "all" ELSE m))
    IN IF fitting = {}      THEN AppendText(segments, token)
       ELSE IF m = token[2] THEN at
                            ELSE AppendText(at, <<m, token[2]>>)

\* One token after the other: mentions become AtSegments, all else is text.
genTextSegments(content, mentions) ==
    LET upTo[n \in 0..Len(content)] ==
            IF n = 0 THEN <<>>
                     ELSE AppendToken(upTo[n-1], content[n], mentions)
    IN IF mentions = <<>> THEN <<NewText(content)>> ELSE upTo[Len(content)]

SegmentOf(type) ==
    CASE type \in {"image", "sticker"} -> "image"
      [] type = "audio" -> "record"
      [] OTHER -> type

Supported == {"text", "image", "sticker", "audio", "video", "file", "location"}

\* The segments SendMessage puts into its request.
Body(m) ==
    CASE m.type = "text"     -> genTextSegments(m.content, m.mentions)
      [] m.type = "image"    -> [b \in 1..m.blobs |-> NewMedia("image", "")]
      [] m.type = "location" -> <<NewJSON("LocationShare")>>
      [] OTHER               -> <<NewMedia(SegmentOf(m.type), "")>>

Segments(m) == (IF m.reply THEN <<NewReply>> ELSE <<>>) \o Body(m)

\* What the receiver's NapCat makes of them: it knows a url for images and
\* videos.
Delivered(m) ==
    [s \in DOMAIN Segments(m) |->
        [Segments(m)[s] EXCEPT
            !.url = @ \/ Segments(m)[s].type \in {"image", "video"}]]

\* SendMessage, up to NapCat's answer; message types it does not know are
\* refused with an error.
SendMessage ==
    /\ pc = "send"
    /\ IF out.type \in Supported
       THEN /\ pc' = "read"
            /\ frame' = [post_type |-> "message", detail |-> "group",
                         sender |-> "peer", target |-> "self", group |-> "group",
                         segments |-> Delivered(out)]
       ELSE /\ pc' = "refused"
            /\ UNCHANGED frame
    /\ UNCHANGED <<out, key, i, building, tried, gaveUp>>
-----------------------------------------------------------------------------
(* From NapCat to the bridge.                                              *)

\* Mutant: the key is always the sender.
PeerIsSender(m) == m.sender

\* The other side of a private chat, whoever sent the message: as getEventKey
\* has it, and as handlePrivateMessage has it.
TargetID(m) == IF m.post_type = "message_sent" THEN m.target ELSE m.sender
ChatID(m)   == IF m.post_type = "message_sent" THEN m.target ELSE m.sender

getEventKey(m) ==
    CASE EventType(m) = "message_private"      -> TargetID(m)
      [] EventType(m) = "message_group"        -> m.group
      [] EventType(m) = "notice_group_recall"  -> m.group
      [] EventType(m) = "notice_friend_recall" -> m.sender
      [] OTHER -> ""

\* Serve and handleEvent: what cannot be read is dropped; the rest is handled
\* under its key.  A recall is a message of its own; other events have none
\* (a heartbeat is transmitted as a notice).
handleEvent ==
    /\ pc = "read"
    /\ IF UnmarshalPayload(frame) \in {"error", "Request", "Response"}
       THEN pc' = "dropped" /\ UNCHANGED <<key, msg>>
       ELSE /\ key' = getEventKey(frame)
            /\ \/ /\ EventType(frame) = "message_private"
                  /\ msg' = EmptyMessage(ChatID(frame))
                  /\ pc' = "segments"
               \/ /\ EventType(frame) = "message_group"
                  /\ msg' = EmptyMessage(frame.group)
                  /\ pc' = "segments"
               \/ /\ EventType(frame) = "notice_group_recall"
                  /\ msg' = [EmptyMessage(frame.group) EXCEPT !.Type = "revoke"]
                  /\ pc' = "transmitted"
               \/ /\ EventType(frame) = "notice_friend_recall"
                  /\ msg' = [EmptyMessage(frame.sender) EXCEPT !.Type = "revoke"]
                  /\ pc' = "transmitted"
               \/ /\ EventType(frame) \in {"meta_lifecycle", "meta_heartbeat",
                                           "event_unknown"}
                  /\ UNCHANGED msg
                  /\ pc' = "handled"
    /\ UNCHANGED <<out, frame, i, summary, images, tried, gaveUp>>

segments == generateSegments(frame.segments)
segment  == segments[i]

\* populateMessage is at a segment of one of these types, and leaves it.
At(types) == pc = "segments" /\ i <= Len(segments) /\ segment.type \in types
Past      == pc' = "segments" /\ i' = i + 1

Piece(tokens) == [seg |-> i, shows |-> tokens]
Add(tokens)   == summary' = Append(summary, Piece(tokens))

Attach(type, form) ==
    [msg EXCEPT !.Type = type, !.Attachment = [form |-> form, of |-> <<i>>]]

unmoved == <<out, frame, key, tried, gaveUp>>

TextSegment ==
    /\ At({"text"}) /\ Past
    /\ Add(segment.text)
    /\ UNCHANGED <<unmoved, msg, images>>

\* Faces, and the segments populateMessage has no case for, show as labels.
LabelSegment ==
    /\ At({"face", "share", "location", "node", "xml"}) /\ Past
    /\ Add(<<<<"text", segment.type>>>>)
    /\ UNCHANGED <<unmoved, msg, images>>

\* Mutant: "all" is left as QQ names it.
TargetItself(target) == target

Room(target) == IF target = "all" THEN "room" ELSE target

AtSegment ==
    /\ At({"at"}) /\ Past
    /\ Add(<<<<"@", Room(segment.what)>>>>)
    /\ msg' = [msg EXCEPT !.Mentions = Append(@, Room(segment.what))]
    /\ UNCHANGED <<unmoved, images>>

ReplySegment ==
    /\ At({"reply"}) /\ Past
    /\ msg' = [msg EXCEPT !.Reply = i]
    /\ UNCHANGED <<unmoved, summary, images>>

\* A text of its own, which is overwritten if there is a summary.
Notice == [msg EXCEPT !.Content = <<Piece(<<<<"text", segment.type>>>>)>>]

ForwardSegment ==
    /\ At({"forward"}) /\ Past
    /\ msg' = Notice
    /\ UNCHANGED <<unmoved, summary, images>>

\* A location, a card with a link, or a card nothing is made of.
JSONSegment ==
    /\ At({"json"}) /\ Past
    /\ CASE segment.what = "LocationShare"     -> msg' = Attach("location", "location")
         [] segment.what \in {"doc", "jump"}   -> msg' = Attach("app", "app")
         [] OTHER                              -> UNCHANGED msg
    /\ UNCHANGED <<unmoved, summary, images>>
-----------------------------------------------------------------------------
(* getMedia.                                                               *)

MediaTypes == {"mface", "image", "video", "file", "record"}

Sticker == segment.type = "image" /\ segment.what = "sticker"

\* Stickers and videos are downloaded first, everything else asked for.
getMedia ==
    /\ At(MediaTypes)
    /\ pc' = IF (segment.type \in {"mface", "video"} \/ Sticker) /\ segment.url
             THEN "download" ELSE "ask"
    /\ UNCHANGED <<out, frame, key, i, building, tried, gaveUp>>

\* A source that has nothing: the next one, if there is one.
DownloadFails ==
    /\ pc = "download"
    /\ pc' = "ask"
    /\ tried' = Append(tried, "url")
    /\ UNCHANGED <<out, frame, key, i, building, gaveUp>>

\* Mutant: a request that fails is final.
AskFailsFinally ==
    /\ pc = "ask"
    /\ pc' = "nothing"
    /\ tried' = Append(tried, "napcat")
    /\ UNCHANGED <<out, frame, key, i, building, gaveUp>>

\* request fails, or its answer has no data or data that is not base64.
AskFails ==
    /\ pc = "ask"
    /\ pc' = IF segment.url THEN "fallback" ELSE "nothing"
    /\ tried' = Append(tried, "napcat")
    /\ UNCHANGED <<out, frame, key, i, building, gaveUp>>

\* WeakDecode refuses the answer: getMedia returns without the fallback.
AskUndecodable ==
    /\ pc = "ask"
    /\ pc' = "nothing"
    /\ tried' = Append(tried, "undecodable")
    /\ UNCHANGED <<out, frame, key, i, building, gaveUp>>

FallbackFails ==
    /\ pc = "fallback"
    /\ pc' = "nothing"
    /\ tried' = Append(tried, "url")
    /\ UNCHANGED <<out, frame, key, i, building, gaveUp>>

TypeOfMedia ==
    CASE segment.type = "mface"  -> "sticker"
      [] segment.type = "record" -> "audio"
      [] OTHER -> segment.type

\* A blob comes back, and populateMessage goes on: images are collected, any
\* other medium is attached at once.
MediaArrives ==
    /\ pc \in {"download", "ask", "fallback"}
    /\ Past
    /\ tried' = <<>>
    /\ CASE segment.type = "image" ->
                /\ images' = Append(images, i)
                /\ Add(<<<<"text", "image">>>>)
                /\ UNCHANGED msg
         [] segment.type = "mface" ->
                /\ msg' = Attach("sticker", "blobs")
                /\ Add(<<<<"text", "mface">>>>)
                /\ UNCHANGED images
         [] OTHER ->
                /\ msg' = Attach(TypeOfMedia, "blobs")
                /\ UNCHANGED <<summary, images>>
    /\ UNCHANGED <<out, frame, key, gaveUp>>

\* Mutant: a medium that cannot be had is only logged.
MediaFailsSilently ==
    /\ pc = "nothing"
    /\ Past
    /\ tried' = <<>>
    /\ UNCHANGED <<out, frame, key, building, gaveUp>>

\* getMedia returns an error: a placeholder, or the sticker's name.
MediaFails ==
    /\ pc = "nothing"
    /\ Past
    /\ gaveUp' = gaveUp \cup {[seg |-> i, tried |-> tried]}
    /\ tried' = <<>>
    /\ IF segment.type \in {"image", "mface"}
       THEN Add(<<<<"text", segment.type>>>>) /\ UNCHANGED <<msg, images>>
       ELSE msg' = Notice /\ UNCHANGED <<summary, images>>
    /\ UNCHANGED <<out, frame, key>>
-----------------------------------------------------------------------------
LoneImage == Len(summary) = 1 /\ segments[1].type = "image"

\* The end of populateMessage: a message that begins with an image and says
\* nothing else is that image; any other gets the summary, and its images.
Finish ==
    /\ pc = "segments" /\ i > Len(segments)
    /\ pc' = "transmitted"
    /\ LET pictures == [form |-> "blobs", of |-> images] IN
       msg' = CASE LoneImage ->
                       [msg EXCEPT !.Attachment = pictures, !.Type =
                           IF segments[1].what = "sticker" /\ Len(images) = 1
                           THEN "sticker" ELSE "image"]
                [] summary # <<>> /\ ~LoneImage ->
                       IF images = <<>> THEN [msg EXCEPT !.Content = summary]
                       ELSE [msg EXCEPT !.Content = summary, !.Type = "image",
                                        !.Attachment = pictures]
                [] OTHER -> msg
    /\ UNCHANGED <<out, frame, key, i, summary, images, tried, gaveUp>>

Terminated ==
    /\ pc \in {"transmitted", "handled", "dropped", "refused"}
    /\ UNCHANGED vars

populateMessage ==
    \/ TextSegment \/ LabelSegment \/ AtSegment \/ ReplySegment
    \/ ForwardSegment \/ JSONSegment \/ getMedia \/ DownloadFails
    \/ AskFails \/ AskUndecodable \/ FallbackFails \/ MediaArrives \/ MediaFails
    \/ Finish

Next == SendMessage \/ handleEvent \/ populateMessage \/ Terminated

Spec == Init /\ [][Next]_vars
-----------------------------------------------------------------------------
(* Properties.                                                             *)

Transmitted == pc = "transmitted" /\ msg.Type # "revoke"

\* Content, or an attachment, or the reply shows the segment.
Told(s) ==
    \/ \E c \in DOMAIN msg.Content : msg.Content[c].seg = s
    \/ s \in Range(msg.Attachment.of)
    \/ msg.Reply = s

\* Messages as QQ composes them: a reply or not, then a text with faces,
\* mentions and images, or one thing of another kind.
Composed ==
    LET first == IF segments # <<>> /\ segments[1].type = "reply" THEN 2 ELSE 1 IN
    \/ first = Len(segments) /\ segments[first].type # "reply"
    \/ \A s \in first..Len(segments) :
           segments[s].type \in {"text", "face", "at", "image"}

\* The cards JSONSegment makes something of.
Cards == {"LocationShare", "doc", "jump"}

\* What is known to be untold: an image alone that could not be had
\* (handle_napcat.go:218 drops its placeholder), and a card without a link.
Untold(s) ==
    \/ segments[s].type = "json" /\ segments[s].what \notin Cards
    \/ images = <<>> /\ Len(segments) = 1 /\ segments[s].type = "image"

\* The bridge can read what it gets, and is told everything: the attachment
\* is of the form the bridge reads for the type of the message, a media type
\* has one, and of a composed message every segment shows, in order.
NothingUntold ==
    Transmitted =>
        /\ AttachmentOf(msg.Type) # "raw" =>
               msg.Attachment.form = AttachmentOf(msg.Type)
        /\ Composed =>
               \A s \in DOMAIN segments : Told(s) \/ Untold(s)
        /\ \A c \in 2..Len(msg.Content) :
               msg.Content[c-1].seg <= msg.Content[c].seg

\* The chat a message is for is the chat whose mutex was held while it was
\* built (getEventKey and the handlers agree), also for a message the user
\* sent from another device.
KeyIsChat == pc = "transmitted" => key = msg.Chat

\* A medium is given up only after NapCat was asked and, if it has a url,
\* that was tried after NapCat; unless NapCat's answer was no file at all.
GivesUpLast ==
    \A g \in gaveUp :
        \/ Last(g.tried) = "undecodable"
        \/ /\ "napcat" \in Range(g.tried)
           /\ segments[g.seg].url =>
                  Len(g.tried) > 1 /\ Last(g.tried) = "url"

\* No mention of the bridge's message is a prefix of what an @ in it names.
Unambiguous ==
    \A c \in DOMAIN out.content, m \in Range(out.mentions) :
        <<m, out.content[c][2]>> \notin prefix

Shown == FlattenSeq([c \in DOMAIN msg.Content |-> msg.Content[c].shows])

\* Whom the text of m mentions: the users its @ tokens name, if they are among
\* the mentions of m.
Mentioned(m) == FlattenSeq([c \in DOMAIN m.content |->
    LET t == m.content[c] IN
    IF t[1] = "@" /\ t[2] \in Range(m.mentions) THEN <<t[2]>> ELSE <<>>])

\* The agent reads back what it sends: a message that arrives at another
\* agent, with its media, has the type it was sent with (a sticker is an
\* image by then), the reply, as many blobs, and a text has the same words
\* and mentions exactly whom it was meant to.
SentIsUnderstood ==
    (Transmitted /\ out.type # "" /\ gaveUp = {}) =>
        /\ msg.Type = IF out.type = "sticker" THEN "image" ELSE out.type
        /\ (msg.Reply # 0) = out.reply
        /\ out.type \notin {"text", "location"} =>
               Len(msg.Attachment.of) = out.blobs
        /\ (out.type = "text" /\ Unambiguous) =>
               /\ Shown = out.content
               /\ msg.Mentions = Mentioned(out)

(* The inductive invariant.                                                *)

Building == pc \in {"segments", "download", "ask", "fallback", "nothing"}

\* The message has all its fields.
MsgFields ==
    msg = [Type |-> msg.Type, Chat |-> msg.Chat, Content |-> msg.Content,
           Mentions |-> msg.Mentions, Reply |-> msg.Reply,
           Attachment |-> msg.Attachment]

KeyInv == Building \/ pc = "transmitted" => key = msg.Chat /\ MsgFields

\* getMedia has tried, for segment g.seg, all it could.
TriedAll(g) ==
    \/ Last(g.tried) = "undecodable"
    \/ /\ "napcat" \in Range(g.tried)
       /\ segments[g.seg].url => Len(g.tried) > 1 /\ Last(g.tried) = "url"

MediaInv ==
    /\ pc \in {"send", "read"} => gaveUp = {}
    /\ pc \in {"send", "read", "segments", "download"} => tried = <<>>
    /\ pc = "ask" => tried \in {<<>>, <<"url">>}
    /\ pc = "fallback" =>
           segment.url /\ tried \in {<<"napcat">>, <<"url", "napcat">>}
    /\ pc = "nothing" => TriedAll([seg |-> i, tried |-> tried])
    /\ \A g \in gaveUp : TriedAll(g)

Shows(pieces, s) == \E c \in DOMAIN pieces : pieces[c].seg = s

\* Segments that put a piece into the summary, and those that are told by
\* what they leave in the message.
Summarised == {"text", "face", "share", "location", "node", "xml", "at",
               "image", "mface"}
Noticed    == {"forward", "video", "file", "record"}

\* What is known of the pieces and images of the first i-1 segments.
SummaryInv ==
    /\ summary \in Seq(Range(summary))
    /\ \A c \in DOMAIN summary :
           /\ summary[c].seg \in 1..(i - 1)
           /\ segments[summary[c].seg].type \in Summarised
    /\ \A c \in 2..Len(summary) : summary[c-1].seg < summary[c].seg
    /\ \A s \in 1..(i - 1) :
           segments[s].type \in Summarised => Shows(summary, s)
    /\ images \in Seq(1..(i - 1))

\* What the message shows of the last of them, of a reply, and of its form.
MessageInv ==
    /\ AttachmentOf(msg.Type) # "raw" =>
           msg.Attachment.form = AttachmentOf(msg.Type)
    /\ msg.Content \in Seq(Range(msg.Content)) /\ Len(msg.Content) <= 1
    /\ \A s \in 1..(i - 1) :
           /\ segments[s].type = "reply" => msg.Reply \in s..(i - 1)
           /\ s = i - 1 =>
                  \/ segments[s].type \notin Noticed \cup {"json"}
                  \/ segments[s].type = "json" /\ segments[s].what \notin Cards
                  \/ Told(s)
    /\ msg.Reply # 0 => /\ msg.Reply \in 1..(i - 1)
                        /\ segments[msg.Reply].type = "reply"

BuildInv ==
    /\ pc = "send" => out \in Outgoing
    /\ pc \notin {"send", "refused"} =>
           frame.segments \in Seq(Range(frame.segments))
    /\ pc \in {"send", "read"} => i = 1 /\ summary = <<>> /\ images = <<>>
    /\ Building =>
           /\ i \in 1..(Len(segments) + 1)
           /\ pc # "segments" =>
                  i <= Len(segments) /\ segment.type \in MediaTypes
           /\ SummaryInv
           /\ MessageInv

\* What is read back of a segment that the agent made of text.
SaidBy(s)      == IF s.type = "text" THEN s.text ELSE <<<<"@", Room(s.what)>>>>
MentionedBy(s) == IF s.type = "text" THEN <<>> ELSE <<Room(s.what)>>

\* How many segments populateMessage is past when it is at the n-th, a reply
\* not counted; the k-th of them.
Replies(m) == IF m.reply THEN 1 ELSE 0
Done(n)    == IF n = 1 THEN 0 ELSE n - 1 - Replies(out)
Part(k)    == segments[k + Replies(out)]

\* What was built so far of a message an agent sent, all its media at hand.
TextSoFar(done) ==
    /\ msg.Type = "text" /\ msg.Content = <<>> /\ images = <<>>
    /\ Len(summary) = done
    /\ \A k \in 1..done : summary[k].shows = SaidBy(Part(k))
    /\ msg.Mentions = FlattenSeq([k \in 1..done |-> MentionedBy(Part(k))])

ImagesSoFar(done) == Len(images) = done /\ Len(summary) = done

OneThingSoFar(done) ==
    /\ summary = <<>> /\ images = <<>>
    /\ done > 0 => /\ msg.Type = out.type
                   /\ out.type # "location" => Len(msg.Attachment.of) = 1

SoFar ==
    CASE out.type = "text"                 -> TextSoFar(Done(i))
      [] out.type \in {"image", "sticker"} -> ImagesSoFar(Done(i))
      [] OTHER                             -> OneThingSoFar(Done(i))

SentInv ==
    /\ out \in Outgoing \/ out = NoOut
    /\ (out.type # "" /\ pc \notin {"send", "refused"}) =>
           out.type \in Supported /\ frame.segments = Delivered(out)
    /\ (out.type # "" /\ Building /\ gaveUp = {}) => SoFar

IInv == KeyInv /\ MediaInv /\ BuildInv /\ NothingUntold
            /\ SentInv /\ SentIsUnderstood
=============================================================================
