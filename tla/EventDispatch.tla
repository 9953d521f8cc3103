--------------------------- MODULE EventDispatch ----------------------------
(***************************************************************************)
(* From NapCat's events to packets for the Octopus bridge: Client.Serve    *)
(* starts a goroutine per event it reads; the goroutine, handleEvent,      *)
(* works under the key mutex of the event's chat (handle_napcat.go).       *)
(*                                                                         *)
(* An event is its type, its chat and, for a recall, the message it takes  *)
(* back.  What a message is built from, and the media it downloads or      *)
(* requests meanwhile, only take time here, and may take for ever.         *)
(***************************************************************************)
EXTENDS HashedKeyMutex, Sequences, Naturals

CONSTANTS Events,            \* the events NapCat sends; also their goroutines
          Chats,             \* user and group IDs
          NoKey              \* the empty key

ASSUME DispatchAssumption ==
    /\ Keys = Chats \cup {NoKey}
    /\ NoKey \notin Chats
    /\ Free \notin Events

VARIABLES pc,                \* where the goroutine of each event is
          event,             \* what each event is, once it was read
          sent,              \* the packets in the order they were transmitted
          lost               \* events whose transmission failed

vars == <<pc, event, sent, lost, mutexes>>

Messages == {"private_message", "group_message"}
Recalls  == {"friend_recall", "group_recall"}
Meta     == {"lifecycle", "heartbeat"}
Types    == Messages \cup Recalls \cup Meta

NoEvent  == [type |-> "none", chat |-> NoKey, target |-> Free]

RecallOf(type) == CASE type = "private_message" -> "friend_recall"
                    [] type = "group_message"   -> "group_recall"

\* A recall is about a message already read.
PossibleRecalls ==
    {[type |-> RecallOf(event[m].type), chat |-> event[m].chat, target |-> m] :
        m \in {m \in Events : event[m].type \in Messages}}

\* The events that can come next.
Possible ==
    {[type |-> t, chat |-> c, target |-> Free] : t \in Messages, c \in Chats}
    \cup {[type |-> t, chat |-> NoKey, target |-> Free] : t \in Meta}
    \cup PossibleRecalls

Init ==
    /\ pc = [e \in Events |-> "unread"]
    /\ event = [e \in Events |-> NoEvent]
    /\ sent = <<>>
    /\ lost = {}
    /\ InitMutexes

Goto(e, from, to) == pc[e] = from /\ pc' = [pc EXCEPT ![e] = to]
-----------------------------------------------------------------------------
\* Client.Serve: go c.handleEvent(payload.(IEvent), transmitFunc)
ReadEvent(e) ==
    /\ Goto(e, "unread", "lock")
    /\ \E v \in Possible : event' = [event EXCEPT ![e] = v]
    /\ UNCHANGED <<sent, lost, mutexes>>

\* Messages and recalls are keyed by their chat, all others by "".
getEventKey(e) == event[e].chat

Lock(e) ==
    /\ Goto(e, "lock", "handle")
    /\ LockKey(getEventKey(e), e)
    /\ UNCHANGED <<event, sent, lost>>

\* The handler of the event's type builds what is to be transmitted;
\* a lifecycle event has none.
Handle(e) ==
    /\ Goto(e, "handle", IF event[e].type = "lifecycle" THEN "unlock"
                                                      ELSE "transmit")
    /\ UNCHANGED <<event, sent, lost, mutexes>>

\* Mutant: a message is transmitted by a helper that transmits as well.
TransmitTwice(e) ==
    /\ Goto(e, "transmit", "unlock")
    /\ sent' = sent \o <<e, e>>
    /\ UNCHANGED <<event, lost, mutexes>>

Transmit(e) ==
    /\ Goto(e, "transmit", "unlock")
    /\ sent' = Append(sent, e)
    /\ UNCHANGED <<event, lost, mutexes>>

\* bridge.WriteJSON fails; the error is logged and the packet is gone.
TransmitFails(e) ==
    /\ Goto(e, "transmit", "unlock")
    /\ lost' = lost \cup {e}
    /\ UNCHANGED <<event, sent, mutexes>>

\* defer c.mutex.UnlockKey(key)
Unlock(e) ==
    /\ Goto(e, "unlock", "done")
    /\ UnlockKey(getEventKey(e))
    /\ UNCHANGED <<event, sent, lost>>

handleEvent(e) ==
    \/ Lock(e)
    \/ Handle(e)
    \/ Transmit(e)
    \/ TransmitFails(e)
    \/ Unlock(e)

Terminated ==
    /\ \A e \in Events : pc[e] = "done"
    /\ UNCHANGED vars

Next == \/ \E e \in Events : ReadEvent(e) \/ handleEvent(e)
        \/ Terminated

\* The handler of a message asks for its media and downloads them, with no
\* timeout on a download; the other handlers only build what they return.
Downloads(e) == pc[e] = "handle" /\ event[e].type \in Messages

\* Every goroutine that can move does, writes to the bridge end, and a mutex
\* is handed to each of its waiters in turn.  Nothing makes a download end.
Fairness == \A e \in Events : WF_vars(~Downloads(e) /\ handleEvent(e))

Spec == Init /\ [][Next]_vars /\ Fairness
-----------------------------------------------------------------------------
(* Properties.                                                             *)

\* Every variable has its type, and every goroutine its event.
TypeOK ==
    /\ pc \in [Events -> {"unread", "lock", "handle", "transmit", "unlock",
                          "done"}]
    /\ event \in [Events -> [type : Types \cup {"none"}, chat : Keys,
                             target : Events \cup {Free}]]
    /\ \A e \in Events : event[e].type = "none" <=> pc[e] = "unread"
    /\ sent \in Seq(Events)
    /\ lost \subseteq Events
    /\ mutexes \in [Buckets -> Events \cup {Free}]

Holding(e) == pc[e] \in {"handle", "transmit", "unlock"}

\* A mutex is held by the goroutine that locked it until that goroutine
\* unlocks it, whichever keys share the mutex.
BucketInv ==
    /\ \A e \in Events : Holding(e) => mutexes[hash[getEventKey(e)]] = e
    /\ \A b \in Buckets :
           mutexes[b] # Free => /\ Holding(mutexes[b])
                                /\ hash[getEventKey(mutexes[b])] = b

\* An event that was read is transmitted once, unless the write failed or
\* the event is a lifecycle event; nothing else is transmitted.
TransmittedOnce ==
    /\ \A j, k \in DOMAIN sent : sent[j] = sent[k] => j = k
    /\ \A e \in Events :
           (\E k \in DOMAIN sent : sent[k] = e) <=>
               /\ pc[e] \in {"unlock", "done"}
               /\ e \notin lost
               /\ event[e].type # "lifecycle"

Holders == {<<getEventKey(e), e>> : e \in {e \in Events : Holding(e)}}

Chat == INSTANCE ChatLock WITH Goroutines <- Events, holders <- Holders

\* Two events of a chat are never handled at the same time: the buckets
\* implement a lock per chat.
Implements == Chat!Spec

\* An event is held up by the download of a message, its own or one whose
\* chat, the same or another, has the same mutex.
HeldUp(e) ==
    \E f \in Events : Downloads(f) /\ hash[getEventKey(f)] = hash[getEventKey(e)]

\* Every event that was read is handled to the end, or is held up for ever by
\* a download: goroutines never wait for each other's mutexes in a circle,
\* and a chat with a mutex of its own is not touched by others' downloads.
EventsHandled ==
    \A e \in Events : pc[e] = "lock" ~> (pc[e] = "done" \/ []HeldUp(e))

\* The bridge learns of a message before it learns of its recall
\* (README.md "Redaction").
RecallAfterMessage ==
    \A i \in DOMAIN sent :
        event[sent[i]].type \in Recalls =>
            \/ event[sent[i]].target \in lost
            \/ \E j \in 1..i : sent[j] = event[sent[i]].target
=============================================================================
