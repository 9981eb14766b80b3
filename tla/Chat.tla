-------------------------------- MODULE Chat --------------------------------
(***************************************************************************)
(* Conversations about a booking or with the owner of a venue: find or     *)
(* create, send over REST or over the socket, join the room, read.  Every  *)
(* awaited statement is an action of its own, with what the handler then   *)
(* computes for the next one, a new Date() included.  The check that the   *)
(* caller is a participant goes with the statement after it: participants  *)
(* never change.                                                           *)
(***************************************************************************)
EXTENDS Requests, FiniteSets

CONSTANTS Users,             \* each with one socket of the /chat namespace
          Subjects,          \* bookings and venues to talk about
          MaxConversations,  \* bound: rows of conversations
          MaxMessages,       \* bound: rows of messages
          Lapses,            \* milliseconds that may pass between two stamps
          PageSize           \* messages to a page

ASSUME ChatBounds ==
    /\ {MaxConversations, MaxMessages} \subseteq Nat
    /\ PageSize \in Nat \ {0}
    /\ Lapses \subseteq Nat

\* A venue inquiry is about a venue and one customer of it.
ASSUME SubjectsAssumption ==
    \A s \in Subjects : /\ s.type \in {"BOOKING", "VENUE_INQUIRY"}
                        /\ {s.customer, s.owner} \subseteq Users

VARIABLES conversations,  \* conversations[v]: row v, or None
          messages,       \* messages[m]: row m, in order of insertion, or None
          room,           \* room[v]: users whose socket is in the room of v
          heard,          \* heard[u]: messages u's socket was sent
          clock,          \* what new Date() gives; 0 is the null of a stamp
          known,          \* history: per user and conversation, what was read
          spoken,         \* history: messages sent over the socket
          raced,          \* history: subjects two requests started at once
          overlapped      \* history: conversations two sends were at work in

talked == <<known, spoken, raced, overlapped>>

chatVars == <<conversations, messages, room, heard, clock, talked>>

ConversationIds == 1..MaxConversations
MessageIds == 1..MaxMessages

Conversation ==
    [about : Subjects, participants : SUBSET Users,
     lastMessage : MessageIds \cup {0}, lastMessageAt : Nat,
     lastReadAt : [Users -> Nat]]

Message == [conversation : ConversationIds]

ASSUME NoRowAssumption == None \notin Conversation \cup Message

ChatCall ==
    [at : {"start.create"}, about : Subjects]
    \cup [at : {"send.update", "send.emit"}, user : Users,
          conversation : ConversationIds, socket : BOOLEAN,
          message : MessageIds, stamp : Nat]
    \cup [at : {"read.mark", "read.find"}, user : Users,
          conversation : ConversationIds, page : {0, 1}, stamp : Nat]

\* What a user knows of a conversation: the first page was read in the room,
\* and from which message on; a later page was asked for; messages fetched.
Knowledge == [live : BOOLEAN, from : MessageIds \cup {0}, turned : BOOLEAN,
              seen : SUBSET MessageIds]

Ignorant == [live |-> FALSE, from |-> 0, turned |-> FALSE, seen |-> {}]

ChatTypeOK ==
    /\ conversations \in [ConversationIds -> Conversation \cup {None}]
    /\ messages \in [MessageIds -> Message \cup {None}]
    /\ room \in [ConversationIds -> SUBSET Users]
    /\ heard \in [Users -> SUBSET MessageIds]
    /\ RequestsTypeOK(ChatCall)
    /\ clock \in Nat
    /\ known \in [Users \X ConversationIds -> Knowledge]
    /\ spoken \subseteq MessageIds
    /\ raced \subseteq Subjects /\ overlapped \subseteq ConversationIds

ChatInit ==
    /\ conversations = [v \in ConversationIds |-> None]
    /\ messages = [m \in MessageIds |-> None]
    /\ room = [v \in ConversationIds |-> {}]
    /\ heard = [u \in Users |-> {}]
    /\ clock = 1
    /\ known = [uv \in Users \X ConversationIds |-> Ignorant]
    /\ spoken = {} /\ raced = {} /\ overlapped = {}

-----------------------------------------------------------------------------
Opened == {v \in ConversationIds : conversations[v] # None}
Stored == {m \in MessageIds : messages[m] # None}

MessagesOf(v) == {m \in Stored : messages[m].conversation = v}

isParticipant(u, v) == v \in Opened /\ u \in conversations[v].participants

\* new Date(): not before the last one.
NewDate == \E d \in Lapses : clock' = clock + d

-----------------------------------------------------------------------------
(* POST /conversations/booking/:id *)

MayStartBookingChat(u, s) ==
    s.type = "BOOKING" /\ u \in {s.customer, s.owner}

\* Only the conversations in which something was said are looked at.
BookingChats_WithMessages(s) ==
    {v \in Opened : /\ conversations[v].about.type = "BOOKING"
                    /\ conversations[v].about.of = s.of
                    /\ conversations[v].lastMessage # 0}

BookingChats(s) ==
    {v \in Opened : /\ conversations[v].about.type = "BOOKING"
                    /\ conversations[v].about.of = s.of}

(* POST /conversations/venue/:id/inquiry *)

MayStartVenueInquiry(u, s) ==
    s.type = "VENUE_INQUIRY" /\ u = s.customer /\ u # s.owner

VenueInquiries(s) ==
    {v \in Opened : /\ conversations[v].about.type = "VENUE_INQUIRY"
                    /\ conversations[v].about.of = s.of
                    /\ s.customer \in conversations[v].participants}

Starting(d, s) == At(d, "start.create") /\ call[d].about = s

\* A conversation that is found is the answer.
StartFind(c, s, found) ==
    /\ IF found # {}
       THEN Begin(c, Idle) /\ UNCHANGED raced
       ELSE /\ Begin(c, [at |-> "start.create", about |-> s])
            /\ raced' = IF \E d \in Clients : Starting(d, s)
                        THEN raced \cup {s} ELSE raced
    /\ UNCHANGED <<conversations, messages, room, heard, clock, known, spoken,
                   overlapped>>

StartBookingChat(c, u, s) ==
    MayStartBookingChat(u, s) /\ StartFind(c, s, BookingChats(s))

StartVenueInquiry(c, u, s) ==
    MayStartVenueInquiry(u, s) /\ StartFind(c, s, VenueInquiries(s))

\* One participant row each: a user who books at his own venue would get two,
\* and the unique index refuses them.
TwoParticipants(s) == s.customer # s.owner

Create(s) ==
    \E v \in ConversationIds :
        /\ IsNextRow(v, Opened)
        /\ conversations' = [conversations EXCEPT ![v] =
               [about |-> s, participants |-> {s.customer, s.owner},
                lastMessage |-> 0, lastMessageAt |-> 0,
                lastReadAt |-> [u \in Users |-> 0]]]

StartCreate(c) ==
    /\ At(c, "start.create")
    /\ IF TwoParticipants(call[c].about)
       THEN Create(call[c].about)
       ELSE UNCHANGED conversations
    /\ Finish(c)
    /\ UNCHANGED <<messages, room, heard, clock, talked>>

-----------------------------------------------------------------------------
(* send_message over the socket, POST /conversations/:id/messages over REST *)

Sending(v) == {d \in Clients : At(d, "send.update") /\ call[d].conversation = v}

\* The row is in; the stamp of the update is taken before the update is sent.
InsertMessage(c, u, v, socket) ==
    /\ isParticipant(u, v)
    /\ NewDate
    /\ \E m \in MessageIds :
        /\ IsNextRow(m, Stored)
        /\ messages' = [messages EXCEPT ![m] = [conversation |-> v]]
        /\ Begin(c, [at |-> "send.update", user |-> u, conversation |-> v,
                     socket |-> socket, message |-> m, stamp |-> clock'])
        /\ spoken' = IF socket THEN spoken \cup {m} ELSE spoken
    /\ overlapped' = IF Sending(v) # {} THEN overlapped \cup {v} ELSE overlapped
    /\ UNCHANGED <<conversations, room, heard, known, raced>>

\* Only the first message makes it to the preview.
UpdatePreview_Once(c) ==
    /\ At(c, "send.update")
    /\ conversations' = [conversations EXCEPT ![call[c].conversation] =
           [@ EXCEPT !.lastMessage = IF @ = 0 THEN call[c].message ELSE @,
                     !.lastMessageAt = call[c].stamp]]
    /\ IF call[c].socket THEN Goto(c, "send.emit") ELSE Finish(c)
    /\ UNCHANGED <<messages, room, heard, clock, talked>>

\* The text is replaced, the stamp of the first message stays.
UpdatePreview_OldStamp(c) ==
    /\ At(c, "send.update")
    /\ conversations' = [conversations EXCEPT ![call[c].conversation] =
           [@ EXCEPT !.lastMessage = call[c].message,
                     !.lastMessageAt = IF @ = 0 THEN call[c].stamp ELSE @]]
    /\ IF call[c].socket THEN Goto(c, "send.emit") ELSE Finish(c)
    /\ UNCHANGED <<messages, room, heard, clock, talked>>

UpdatePreview(c) ==
    /\ At(c, "send.update")
    /\ conversations' = [conversations EXCEPT ![call[c].conversation] =
           [@ EXCEPT !.lastMessage = call[c].message,
                     !.lastMessageAt = call[c].stamp]]
    /\ IF call[c].socket THEN Goto(c, "send.emit") ELSE Finish(c)
    /\ UNCHANGED <<messages, room, heard, clock, talked>>

\* The sender's own socket is left out, as it is for "typing".
Broadcast_ToOthers(c) ==
    /\ At(c, "send.emit")
    /\ heard' = [u \in Users |->
           IF u \in room[call[c].conversation] \ {call[c].user}
           THEN heard[u] \cup {call[c].message} ELSE heard[u]]
    /\ Finish(c)
    /\ UNCHANGED <<conversations, messages, room, clock, talked>>

\* new_message to everyone in the room; a REST message is told to nobody.
Broadcast(c) ==
    /\ At(c, "send.emit")
    /\ heard' = [u \in Users |-> IF u \in room[call[c].conversation]
                                 THEN heard[u] \cup {call[c].message}
                                 ELSE heard[u]]
    /\ Finish(c)
    /\ UNCHANGED <<conversations, messages, room, clock, talked>>

-----------------------------------------------------------------------------
(* join_conversation, leave_conversation, and a socket that disconnects *)

JoinRoom(c, u, v) ==
    /\ isParticipant(u, v)
    /\ Begin(c, Idle)
    /\ room' = [room EXCEPT ![v] = @ \cup {u}]
    /\ UNCHANGED <<conversations, messages, heard, clock, talked>>

\* Out of the room, u is no longer up to date.
LeaveRoom(u, v) ==
    /\ u \in room[v]
    /\ room' = [room EXCEPT ![v] = @ \ {u}]
    /\ known' = [known EXCEPT ![<<u, v>>].live = FALSE]
    /\ UNCHANGED <<conversations, messages, heard, clock, spoken, raced, overlapped>>

-----------------------------------------------------------------------------
(* GET /conversations/:id/messages: mark as read, then fetch one page *)

\* The caller is a participant; the stamp is taken before the update is sent.
BeginRead(c, u, v, page) ==
    /\ isParticipant(u, v)
    /\ NewDate
    /\ Begin(c, [at |-> "read.mark", user |-> u, conversation |-> v, page |-> page,
                 stamp |-> clock'])
    /\ known' = [known EXCEPT ![<<u, v>>].turned = @ \/ page > 0]
    /\ UNCHANGED <<conversations, messages, room, heard, spoken, raced, overlapped>>

markAsRead(u, v, stamp) ==
    conversations' = [conversations EXCEPT ![v] = [@ EXCEPT !.lastReadAt[u] = stamp]]

ReadMark(c) ==
    /\ At(c, "read.mark")
    /\ markAsRead(call[c].user, call[c].conversation, call[c].stamp)
    /\ Goto(c, "read.find")
    /\ UNCHANGED <<messages, room, heard, clock, talked>>

Newer(m, v) == Cardinality({n \in MessagesOf(v) : n > m})

\* The newest message first: page p skips p pages of them.
findMessages(v, page) ==
    {m \in MessagesOf(v) : Newer(m, v) \div PageSize = page}

Oldest(found) == IF found = {} THEN 0 ELSE CHOOSE m \in found : \A n \in found : m <= n

Learns(k, page, joined, found) ==
    IF page = 0
    THEN [k EXCEPT !.live = joined, !.from = Oldest(found), !.seen = @ \cup found]
    ELSE [k EXCEPT !.seen = @ \cup found]

ReadFind(c) ==
    /\ At(c, "read.find")
    /\ LET u == call[c].user
           v == call[c].conversation
       IN known' = [known EXCEPT ![<<u, v>>] =
                       Learns(known[<<u, v>>], call[c].page, u \in room[v],
                              findMessages(v, call[c].page))]
    /\ Finish(c)
    /\ UNCHANGED <<conversations, messages, room, heard, clock, spoken, raced,
                   overlapped>>

-----------------------------------------------------------------------------
ChatBegins(c, u) ==
    \/ \E s \in Subjects : StartBookingChat(c, u, s) \/ StartVenueInquiry(c, u, s)
    \/ \E v \in ConversationIds :
          \/ JoinRoom(c, u, v)
          \/ \E socket \in BOOLEAN : InsertMessage(c, u, v, socket)
          \/ \E page \in {0, 1} : BeginRead(c, u, v, page)

ChatStep(c) ==
    \/ StartCreate(c) \/ UpdatePreview(c) \/ Broadcast(c)
    \/ ReadMark(c) \/ ReadFind(c)

ChatNext ==
    \/ \E u \in Users, v \in ConversationIds :
            LeaveRoom(u, v) /\ UNCHANGED requestVars
    \/ \E c \in Clients : \/ ChatStep(c)
                          \/ \E u \in Users : ChatBegins(c, u)
                          \/ Reject(c) /\ UNCHANGED chatVars

-----------------------------------------------------------------------------
(***************************************************************************)
(* A booking has one chat, a customer one inquiry at a venue, unless       *)
(* two requests that start it both looked before either created it.        *)
(***************************************************************************)
OneConversationPerSubject ==
    \A v, w \in Opened :
        v # w /\ conversations[v].about = conversations[w].about
            => conversations[v].about \in raced

(***************************************************************************)
(* The preview in the list of conversations is the newest message, unless  *)
(* two sends overlapped or a statement failed.                             *)
(***************************************************************************)
PreviewIsNewest ==
    Quiescent /\ faults = 0 =>
        \A v \in Opened \ overlapped :
            \A m \in MessagesOf(v) : m <= conversations[v].lastMessage

(***************************************************************************)
(* A participant whose lastReadAt is after lastMessageAt has been given    *)
(* the newest page up to the previewed message, although both stamps are   *)
(* taken before their statements are sent, the statements of several       *)
(* requests arrive in any order, and marking and fetching are two of them; *)
(* unless he asked for a later page, which marks the conversation read as  *)
(* well, or something failed.                                              *)
(***************************************************************************)
ReadMeansSeen ==
    Quiescent /\ faults = 0 =>
        \A v \in Opened : \A u \in conversations[v].participants :
            /\ conversations[v].lastMessageAt < conversations[v].lastReadAt[u]
            /\ ~known[<<u, v>>].turned
            => \A m \in MessagesOf(v) :
                   m <= conversations[v].lastMessage /\ Newer(m, v) < PageSize
                       => m \in known[<<u, v>>].seen

(***************************************************************************)
(* Who joins the room first and then reads the first page misses nothing   *)
(* that is sent over the socket until he leaves.                           *)
(***************************************************************************)
NoGapInTheRoom ==
    Quiescent /\ faults = 0 =>
        \A u \in Users, v \in Opened :
            known[<<u, v>>].live =>
                \A m \in MessagesOf(v) \cap spoken :
                    m > known[<<u, v>>].from => m \in known[<<u, v>>].seen \cup heard[u]
=============================================================================
