-------------------------- MODULE IncomingMessages --------------------------
(***************************************************************************)
(* Numbered messages that one remote station sends to this one             *)
(* (services/messages.py, process_incoming_tnc2_message and                *)
(* store_incoming_message).  The remote station repeats a message until it *)
(* hears an acknowledgement; a copy comes over RF, over APRS-IS or both.   *)
(*                                                                         *)
(* A copy from RF is handled on the event loop, one from APRS-IS in the    *)
(* thread of the side-effect dispatcher, both against one database and     *)
(* with no transaction around the whole.  Each SELECT, which sqlite3 runs  *)
(* in autocommit, and each transaction that writes is a step.              *)
(***************************************************************************)
EXTENDS Integers, FiniteSets

CONSTANTS
    Messages,      \* messages of the remote station, each with its own number
    Receivers,     \* "rf": the event loop; "aprsis": the side-effect thread
    MaxAcks,       \* bound: jobs with an acknowledgement of one message
    MaxDeletes,    \* bound: deletions of a conversation
    MaxCrashes     \* bound: crashes of the core process

ASSUME IncomingAssumption ==
    /\ IsFiniteSet(Messages) /\ Receivers \subseteq {"rf", "aprsis"}
    /\ MaxAcks \in Nat /\ MaxDeletes \in Nat /\ MaxCrashes \in Nat

VARIABLES
    remote,        \* "new", "sending" or "acked", for each message
    conversations, \* aprs_message_conversations with the remote station: ids
    lastId,        \* the last id given to a conversation
    rows,          \* rows[m][c]: rows of aprs_messages for m in conversation c
    acks,          \* outbound_jobs: waiting acknowledgements of each message
    rx,            \* the copy that each receiver handles, and how far it is
    ever,          \* history: messages that have been stored
    deletes, crashes

vars == <<remote, conversations, lastId, rows, acks, rx, ever, deletes, crashes>>

\* A deletion removes at most one conversation, a receiver creates at most one
\* while there is none.
Ids == 1..(MaxDeletes + 1) * Cardinality(Receivers)
Idle == [at |-> "idle"]
Copies(m) == Cardinality(UNION {{c} \X (1..rows[m][c]) : c \in Ids})

\* The messages that a receiver is handling.
Handled(r) == IF rx[r] = Idle THEN {} ELSE {rx[r].message}

At(r, place) == rx[r].at = place
Goto(r, place) == rx' = [rx EXCEPT ![r].at = place]

-----------------------------------------------------------------------------
(* The remote station and the channels, which lose, delay and repeat.      *)

RemoteSends(m) ==
    /\ remote[m] = "new"
    /\ remote' = [remote EXCEPT ![m] = "sending"]
    /\ UNCHANGED <<conversations, lastId, rows, acks, rx, ever, deletes, crashes>>

RoomForAcks(m) == acks[m] + 2 * Cardinality({r \in Receivers : m \in Handled(r)}) + 2 <= MaxAcks

Arrive(r, m) ==
    /\ remote[m] # "new" /\ rx[r] = Idle /\ RoomForAcks(m)
    /\ rx' = [rx EXCEPT ![r] = [at |-> "find", message |-> m, conversation |-> 0]]
    /\ UNCHANGED <<remote, conversations, lastId, rows, acks, ever, deletes, crashes>>

-----------------------------------------------------------------------------
(* store_incoming_message                                                  *)

\* create_or_update_conversation: the SELECT, which names no order
FindConversation(r) ==
    /\ At(r, "find")
    /\ IF conversations = {} THEN Goto(r, "create")
       ELSE \E c \in conversations :
                rx' = [rx EXCEPT ![r].at = "look", ![r].conversation = c]
    /\ UNCHANGED <<remote, conversations, lastId, rows, acks, ever, deletes, crashes>>

\* its INSERT: station_id is NULL, so that UNIQUE forbids nothing
CreateConversation(r) ==
    /\ At(r, "create")
    /\ lastId' = lastId + 1
    /\ conversations' = conversations \cup {lastId'}
    /\ rx' = [rx EXCEPT ![r].at = "look", ![r].conversation = lastId']
    /\ UNCHANGED <<remote, rows, acks, ever, deletes, crashes>>

\* Variants: any message of the sender is taken for this one; none is.
KnownSender(m) == \E n \in Messages, c \in Ids : rows[n][c] > 0
KnownNever(m) == FALSE

\* SELECT by direction, sender and number, in any conversation
Known(m) == \E c \in Ids : rows[m][c] > 0

\* Variant: a message that is known is not acknowledged again.
AfterLookOnce(m) == IF Known(m) THEN "end" ELSE "insert"

AfterLook(m) == IF Known(m) THEN "ack" ELSE "insert"

Look(r) ==
    /\ At(r, "look")
    /\ Goto(r, AfterLook(rx[r].message))
    /\ UNCHANGED <<remote, conversations, lastId, rows, acks, ever, deletes, crashes>>

\* Variant: no foreign key.
HasAnyId(r) == rx[r].conversation \in Ids

HasConversation(r) == rx[r].conversation \in conversations

Insert(r) ==
    /\ At(r, "insert") /\ HasConversation(r)
    /\ rows' = [rows EXCEPT ![rx[r].message][rx[r].conversation] = @ + 1]
    /\ ever' = ever \cup {rx[r].message}
    /\ Goto(r, "ack")
    /\ UNCHANGED <<remote, conversations, lastId, acks, deletes, crashes>>

\* The conversation is gone: KeyError or IntegrityError.  The dispatcher logs
\* it; the runtime of the TNC closes the link and opens it again.
InsertFails(r) ==
    /\ At(r, "insert") /\ ~HasConversation(r)
    /\ rx' = [rx EXCEPT ![r] = Idle]
    /\ UNCHANGED <<remote, conversations, lastId, rows, acks, ever, deletes, crashes>>

\* enqueue_ack_job, with the trigger ack-now and then ack-delayed
QueueAck(r) ==
    /\ \/ At(r, "ack") /\ Goto(r, "delayed")
       \/ At(r, "delayed") /\ rx' = [rx EXCEPT ![r] = Idle]
    /\ acks' = [acks EXCEPT ![rx[r].message] = @ + 1]
    /\ UNCHANGED <<remote, conversations, lastId, rows, ever, deletes, crashes>>

Handle(r) ==
    \/ FindConversation(r) \/ CreateConversation(r) \/ Look(r)
    \/ Insert(r) \/ InsertFails(r) \/ QueueAck(r)

-----------------------------------------------------------------------------
(* The worker of the outbound runtime (module DirectMessage), which shares *)
(* the event loop with the handling of RF, the web process and a crash.    *)

LoopIsFree == "rf" \in Receivers => rx["rf"] = Idle

SendAck(m) ==
    /\ acks[m] > 0 /\ LoopIsFree
    /\ acks' = [acks EXCEPT ![m] = @ - 1]
    /\ UNCHANGED <<conversations, lastId, rows, rx, ever, deletes, crashes>>

AckHeard(m) == SendAck(m) /\ remote' = [remote EXCEPT ![m] = "acked"]
AckLost(m) == SendAck(m) /\ UNCHANGED remote

\* delete_conversation: ON DELETE CASCADE takes the messages along.
DeleteConversation(c) ==
    /\ c \in conversations /\ deletes < MaxDeletes
    /\ conversations' = conversations \ {c}
    /\ rows' = [m \in Messages |-> [rows[m] EXCEPT ![c] = 0]]
    /\ deletes' = deletes + 1
    /\ UNCHANGED <<remote, lastId, acks, rx, ever, crashes>>

CoreCrash ==
    /\ crashes < MaxCrashes
    /\ crashes' = crashes + 1
    /\ rx' = [r \in Receivers |-> Idle]
    /\ UNCHANGED <<remote, conversations, lastId, rows, acks, ever, deletes>>

Init ==
    /\ remote = [m \in Messages |-> "new"]
    /\ conversations = {} /\ lastId = 0
    /\ rows = [m \in Messages |-> [c \in Ids |-> 0]]
    /\ acks = [m \in Messages |-> 0]
    /\ rx = [r \in Receivers |-> Idle]
    /\ ever = {} /\ deletes = 0 /\ crashes = 0

Next ==
    \/ \E m \in Messages :
           \/ RemoteSends(m) \/ AckHeard(m) \/ AckLost(m)
           \/ \E r \in Receivers : Arrive(r, m)
    \/ \E r \in Receivers : Handle(r)
    \/ \E c \in conversations : DeleteConversation(c)
    \/ CoreCrash

\* The remote station repeats, and the channels do not lose every copy and
\* every acknowledgement; a handler that has begun goes on.
Fairness ==
    /\ \A r \in Receivers : WF_vars(Handle(r))
    /\ \A m \in Messages :
           /\ SF_vars(\E r \in Receivers : Arrive(r, m))
           /\ SF_vars(AckHeard(m))
           /\ WF_vars(AckLost(m))

Spec == Init /\ [][Next]_vars
FairSpec == Spec /\ Fairness

-----------------------------------------------------------------------------
\* Types; rows belong to conversations that exist (the foreign key).
TypeOK ==
    /\ remote \in [Messages -> {"new", "sending", "acked"}]
    /\ conversations \subseteq 1..lastId /\ lastId \in {0} \cup Ids
    /\ rows \in [Messages -> [Ids -> Nat]]
    /\ \A m \in Messages, c \in Ids \ conversations : rows[m][c] = 0
    /\ acks \in [Messages -> 0..MaxAcks]
    /\ rx \in [Receivers -> {Idle} \cup
           [at : {"find", "create", "look", "insert", "ack", "delayed"},
            message : Messages, conversation : {0} \cup Ids]]
    /\ ever \subseteq Messages
    /\ deletes \in 0..MaxDeletes /\ crashes \in 0..MaxCrashes

\* The remote station stops repeating when it hears an acknowledgement, so one
\* is only queued or heard for a message that has been stored: whatever the
\* other receiver, a deletion or a crash has done between the steps.
AckedWasStored ==
    \A m \in Messages : acks[m] > 0 \/ remote[m] = "acked" => m \in ever

\* A message that is repeated is not stored again (changelog.en.md:105), but by
\* receivers that looked before either wrote: with RF and APRS-IS at work on it at
\* once, a second copy and a second conversation are allowed. There are never more
\* than one for each receiver, however often the message is repeated.
FewCopies ==
    /\ Cardinality(conversations) <= Cardinality(Receivers)
    /\ \A m \in Messages : Copies(m) <= Cardinality(Receivers)

\* A message that the remote station keeps repeating is at last acknowledged:
\* known messages are acknowledged again, and neither a crash after the insert
\* nor a conversation deleted under the handler leaves it repeating for ever.
Delivered == \A m \in Messages : remote[m] = "sending" ~> remote[m] = "acked"
=============================================================================
