----------------------- MODULE IncomingMessages_proofs -----------------------
(***************************************************************************)
(* For all messages, receivers and bounds: an acknowledgement is queued or *)
(* heard only for a message that has been stored, and neither rows nor     *)
(* conversations multiply beyond one for each receiver.                    *)
(***************************************************************************)
EXTENDS IncomingMessages, FiniteSetTheorems, TLAPS

InHand == [at : {"find", "create", "look", "insert", "ack", "delayed"},
           message : Messages, conversation : Nat]

\* The part of TypeOK that the proof needs.
Types ==
    /\ remote \in [Messages -> {"new", "sending", "acked"}]
    /\ conversations \subseteq Nat /\ lastId \in Nat
    /\ rows \in [Messages -> [Ids -> Nat]]
    /\ acks \in [Messages -> Nat]
    /\ rx \in [Receivers -> {Idle} \cup InHand]

\* Whoever relies on a message's being stored is right: the rows that a receiver
\* may find, and a receiver that is about to acknowledge.
RowsWereStored == \A m \in Messages, c \in Ids : rows[m][c] > 0 => m \in ever

AckersStored ==
    \A r \in Receivers : rx[r].at \in {"ack", "delayed"} => rx[r].message \in ever

IndInv == Types /\ RowsWereStored /\ AckersStored /\ AckedWasStored

-----------------------------------------------------------------------------
\* In a receiver's hand is a message, wherever the handler is.
LEMMA HandlerHasMessage ==
    ASSUME Types, NEW r \in Receivers, rx[r].at # "idle"
    PROVE  rx[r] \in InHand /\ rx[r].message \in Messages
BY DEF Types, InHand, Idle

\* At the start nothing is stored, and nothing acknowledged.
LEMMA InitEstablishes == Init => IndInv
BY DEF Init, IndInv, Types, RowsWereStored, AckersStored, AckedWasStored, Idle, InHand

\* The remote station and the channels change no row and no handler under way.
LEMMA EnvironmentPreserves ==
    ASSUME IndInv, NEW m \in Messages,
           RemoteSends(m) \/ AckHeard(m) \/ AckLost(m) \/ \E r \in Receivers : Arrive(r, m)
    PROVE  IndInv'
<1> USE DEF IndInv
<1>1. CASE RemoteSends(m)
    BY <1>1 DEF RemoteSends, Types, RowsWereStored, AckersStored, AckedWasStored
<1>2. CASE AckHeard(m) \/ AckLost(m)
    <2>0. SendAck(m) BY <1>2 DEF AckHeard, AckLost
    <2>1. Types'
        <3>1. acks[m] - 1 \in Nat BY <2>0 DEF SendAck, Types
        <3>2. acks' \in [Messages -> Nat] BY <2>0, <3>1 DEF SendAck, Types
        <3>3. remote' \in [Messages -> {"new", "sending", "acked"}]
            BY <1>2 DEF AckHeard, AckLost, Types
        <3> QED BY <2>0, <3>2, <3>3 DEF SendAck, Types
    <2>2. RowsWereStored' /\ AckersStored'
        BY <1>2 DEF AckHeard, AckLost, SendAck, RowsWereStored, AckersStored
    <2>3. AckedWasStored' BY <1>2 DEF AckHeard, AckLost, SendAck, Types, AckedWasStored
    <2> QED BY <2>1, <2>2, <2>3
<1>3. ASSUME NEW r \in Receivers, Arrive(r, m) PROVE IndInv'
    <2>1. rx' \in [Receivers -> {Idle} \cup InHand] BY <1>3 DEF Arrive, Types, InHand
    <2>2. Types' BY <1>3, <2>1 DEF Arrive, Types
    <2>3. AckersStored' BY <1>3 DEF Arrive, Types, AckersStored
    <2>4. RowsWereStored' /\ AckedWasStored'
        BY <1>3 DEF Arrive, RowsWereStored, AckedWasStored
    <2> QED BY <2>2, <2>3, <2>4
<1> QED BY <1>1, <1>2, <1>3

\* A handler acknowledges what it has found or stored.
LEMMA HandlerPreserves ==
    ASSUME IndInv, NEW r \in Receivers, Handle(r)
    PROVE  IndInv'
<1> USE DEF IndInv
<1> DEFINE m == rx[r].message
<1>0. rx[r] \in InHand /\ m \in Messages
    BY HandlerHasMessage DEF Handle, FindConversation, CreateConversation, Look, Insert,
       InsertFails, QueueAck, At
<1>1. CASE FindConversation(r) \/ CreateConversation(r)
    <2>1. rx' \in [Receivers -> {Idle} \cup InHand]
        BY <1>0, <1>1 DEF FindConversation, CreateConversation, Goto, Types, InHand
    <2>2. Types' BY <1>1, <2>1 DEF FindConversation, CreateConversation, Types
    <2>3. AckersStored'
        <3>1. rx'[r].at \in {"create", "look"}
            BY <1>0, <1>1 DEF FindConversation, CreateConversation, Goto, Types, InHand
        <3>2. \A q \in Receivers \ {r} : rx'[q] = rx[q]
            BY <1>1 DEF FindConversation, CreateConversation, Goto, Types
        <3>3. ever' = ever BY <1>1 DEF FindConversation, CreateConversation
        <3> QED BY <3>1, <3>2, <3>3 DEF AckersStored
    <2>4. RowsWereStored' /\ AckedWasStored'
        BY <1>1 DEF FindConversation, CreateConversation, RowsWereStored, AckedWasStored
    <2> QED BY <2>2, <2>3, <2>4
<1>2. CASE Look(r)
    <2>1. Known(m) => m \in ever BY <1>0 DEF Known, RowsWereStored, Types
    <2>2. rx' \in [Receivers -> {Idle} \cup InHand]
        BY <1>0, <1>2 DEF Look, Goto, AfterLook, Types, InHand
    <2>3. Types' BY <1>2, <2>2 DEF Look, Types
    <2>4. AckersStored'
        <3>1. rx'[r].at = AfterLook(m) /\ rx'[r].message = m
            BY <1>0, <1>2 DEF Look, Goto, Types, InHand
        <3>2. \A q \in Receivers \ {r} : rx'[q] = rx[q] BY <1>2 DEF Look, Goto, Types
        <3>3. ever' = ever BY <1>2 DEF Look
        <3> QED BY <2>1, <3>1, <3>2, <3>3 DEF AfterLook, AckersStored
    <2>5. RowsWereStored' /\ AckedWasStored' BY <1>2 DEF Look, RowsWereStored, AckedWasStored
    <2> QED BY <2>3, <2>4, <2>5
<1>3. CASE Insert(r)
    <2>1. rx' \in [Receivers -> {Idle} \cup InHand] BY <1>0, <1>3 DEF Insert, Goto, Types, InHand
    <2>2. rows' \in [Messages -> [Ids -> Nat]]
        <3> DEFINE c == rx[r].conversation
        <3> DEFINE row == [rows[m] EXCEPT ![c] = rows[m][c] + 1]
        <3>1. row \in [Ids -> Nat]
            <4>1. rows[m] \in [Ids -> Nat] BY <1>0 DEF Types
            <4>2. CASE c \in Ids
                <5>1. rows[m][c] + 1 \in Nat BY <4>1, <4>2
                <5> QED BY <4>1, <5>1
            <4>3. CASE c \notin Ids
                <5>1. row = rows[m] BY <4>1, <4>3
                <5> QED BY <4>1, <5>1
            <4> QED BY <4>2, <4>3
        <3>2. rows' = [rows EXCEPT ![m] = row] BY <1>3 DEF Insert
        <3> HIDE DEF row
        <3> QED BY <1>0, <3>1, <3>2 DEF Types
    <2>3. Types' BY <1>3, <2>1, <2>2 DEF Insert, Types
    <2>4. RowsWereStored'
        <3> SUFFICES ASSUME NEW n \in Messages, NEW c \in Ids, rows'[n][c] > 0
                     PROVE  n \in ever'
            BY DEF RowsWereStored
        <3>1. CASE n = m BY <1>3, <3>1 DEF Insert
        <3>2. CASE n # m
            <4>1. rows'[n] = rows[n] BY <1>3, <3>2 DEF Insert, Types
            <4> QED BY <1>3, <4>1 DEF Insert, RowsWereStored
        <3> QED BY <3>1, <3>2
    <2>5. AckersStored' BY <1>0, <1>3 DEF Insert, Goto, Types, InHand, AckersStored
    <2>6. AckedWasStored' BY <1>3 DEF Insert, AckedWasStored
    <2> QED BY <2>3, <2>4, <2>5, <2>6
<1>4. CASE InsertFails(r)
    <2>1. Types' BY <1>4 DEF InsertFails, Types
    <2>2. AckersStored' BY <1>4 DEF InsertFails, Types, AckersStored, Idle
    <2>3. RowsWereStored' /\ AckedWasStored' BY <1>4 DEF InsertFails, RowsWereStored, AckedWasStored
    <2> QED BY <2>1, <2>2, <2>3
<1>5. CASE QueueAck(r)
    <2>1. m \in ever BY <1>5 DEF QueueAck, At, AckersStored
    <2>2. rx' \in [Receivers -> {Idle} \cup InHand]
        <3>1. CASE At(r, "ack") /\ Goto(r, "delayed")
            <4>1. [rx[r] EXCEPT !.at = "delayed"] \in InHand BY <1>0 DEF InHand
            <4>2. rx' = [rx EXCEPT ![r] = [rx[r] EXCEPT !.at = "delayed"]] BY <3>1 DEF Goto
            <4> QED BY <4>1, <4>2 DEF Types
        <3>2. CASE rx' = [rx EXCEPT ![r] = Idle] BY <3>2 DEF Types
        <3> QED BY <1>5, <3>1, <3>2 DEF QueueAck
    <2>3. Types' BY <1>0, <1>5, <2>2 DEF QueueAck, Types
    <2>4. AckersStored'
        BY <1>0, <1>5, <2>1 DEF QueueAck, Goto, Types, InHand, AckersStored, Idle
    <2>5. AckedWasStored' BY <1>0, <1>5, <2>1 DEF QueueAck, Types, AckedWasStored
    <2>6. RowsWereStored' BY <1>5 DEF QueueAck, RowsWereStored
    <2> QED BY <2>3, <2>4, <2>5, <2>6
<1> QED BY <1>1, <1>2, <1>3, <1>4, <1>5 DEF Handle

\* A deletion takes rows away and a crash the handlers; what has been stored stays
\* known to have been.
LEMMA FaultsPreserve ==
    ASSUME IndInv, CoreCrash \/ \E c \in conversations : DeleteConversation(c)
    PROVE  IndInv'
<1> USE DEF IndInv
<1>1. CASE CoreCrash
    BY <1>1 DEF CoreCrash, Types, RowsWereStored, AckersStored, AckedWasStored, Idle
<1>2. ASSUME NEW c \in conversations, DeleteConversation(c) PROVE IndInv'
    <2>1. rows' \in [Messages -> [Ids -> Nat]] BY <1>2 DEF DeleteConversation, Types
    <2>2. Types' BY <1>2, <2>1 DEF DeleteConversation, Types
    <2>3. RowsWereStored'
        <3> SUFFICES ASSUME NEW n \in Messages, NEW d \in Ids, rows'[n][d] > 0
                     PROVE  n \in ever'
            BY DEF RowsWereStored
        <3>1. rows'[n] = [rows[n] EXCEPT ![c] = 0] BY <1>2 DEF DeleteConversation
        <3>2. rows[n][d] > 0 BY <3>1 DEF Types
        <3> QED BY <1>2, <3>2 DEF DeleteConversation, RowsWereStored
    <2>4. AckersStored' /\ AckedWasStored'
        BY <1>2 DEF DeleteConversation, AckersStored, AckedWasStored
    <2> QED BY <2>2, <2>3, <2>4
<1> QED BY <1>1, <1>2

\* No step of the system leaves the invariant.
LEMMA NextPreserves == IndInv /\ [Next]_vars => IndInv'
<1> SUFFICES ASSUME IndInv, [Next]_vars PROVE IndInv'
    OBVIOUS
<1>1. CASE UNCHANGED vars
    BY <1>1 DEF vars, IndInv, Types, RowsWereStored, AckersStored, AckedWasStored
<1>2. CASE Next
    BY <1>2, EnvironmentPreserves, HandlerPreserves, FaultsPreserve DEF Next
<1> QED BY <1>1, <1>2

-----------------------------------------------------------------------------
\* An acknowledgement is queued or heard only for a message that this station has
\* stored (store_incoming_message): for any number of messages and with both
\* receivers, deletions and crashes between the steps.
THEOREM OnlyStoredAcknowledged == Spec => []AckedWasStored
<1>1. IndInv => AckedWasStored BY DEF IndInv
<1> QED BY InitEstablishes, NextPreserves, <1>1, PTL DEF Spec

-----------------------------------------------------------------------------
(* The bounds on conversations, copies and acknowledgements.  Each counts  *)
(* what there is together with what the handlers under way may still add.  *)

Creating == {r \in Receivers : rx[r].at = "create"}
Inserting(m) == {r \in Receivers : rx[r].at = "insert" /\ rx[r].message = m}
Handling(m) == {r \in Receivers : rx[r].at # "idle" /\ rx[r].message = m}
Early(m) == {r \in Handling(m) : rx[r].at # "delayed"}
Stored(m) == UNION {{c} \X (1..rows[m][c]) : c \in Ids}

Faults == deletes \in 0..MaxDeletes /\ crashes \in 0..MaxCrashes /\ ever \subseteq Messages

\* Every conversation has had an id of its own; only deletions take one away.
Numbered ==
    /\ IsFiniteSet(conversations) /\ conversations \subseteq 1..lastId
    /\ lastId = Cardinality(conversations) + deletes
    /\ lastId # 0 => Receivers # {}

\* A receiver goes to open a conversation only when there was none.
RoomToCreate == Cardinality(conversations) + Cardinality(Creating) <= Cardinality(Receivers)

RowsHaveConversations == \A m \in Messages, c \in Ids \ conversations : rows[m][c] = 0

HandsKnowIds == \A r \in Receivers : rx[r] # Idle => rx[r].conversation \in 0..lastId

\* A receiver goes to store a message only when there was no copy.
RoomToInsert ==
    \A m \in Messages :
        /\ IsFiniteSet(Stored(m))
        /\ Cardinality(Stored(m)) + Cardinality(Inserting(m)) <= Cardinality(Receivers)

\* Each handler has its two acknowledgements to queue, or the second one.
RoomToAck ==
    \A m \in Messages :
        acks[m] + Cardinality(Handling(m)) + Cardinality(Early(m)) <= MaxAcks

Bounded ==
    /\ Faults /\ Numbered /\ RoomToCreate /\ RowsHaveConversations /\ HandsKnowIds
    /\ RoomToInsert /\ RoomToAck

-----------------------------------------------------------------------------
\* There are two receivers at most, and so every set of them is finite.
LEMMA TwoReceivers ==
    /\ IsFiniteSet(Receivers) /\ Cardinality(Receivers) \in 0..2
    /\ Receivers # {} => Cardinality(Receivers) >= 1
    /\ \A S \in SUBSET Receivers :
           IsFiniteSet(S) /\ Cardinality(S) \in Nat /\ Cardinality(S) <= Cardinality(Receivers)
<1>1. IsFiniteSet({"rf"}) /\ Cardinality({"rf"}) = 1
    BY FS_Singleton
<1>2. IsFiniteSet({"rf"} \cup {"aprsis"}) /\ Cardinality({"rf"} \cup {"aprsis"}) <= 2
    BY <1>1, FS_AddElement
<1>3. Receivers \in SUBSET ({"rf"} \cup {"aprsis"})
    BY IncomingAssumption
<1>4. IsFiniteSet(Receivers) /\ Cardinality(Receivers) <= Cardinality({"rf"} \cup {"aprsis"})
    BY <1>2, <1>3, FS_Subset
<1>5. Cardinality(Receivers) \in Nat /\ Cardinality({"rf"} \cup {"aprsis"}) \in Nat
    BY <1>2, <1>4, FS_CardinalityType
<1>6. Receivers # {} => Cardinality(Receivers) # 0
    BY <1>4, FS_EmptySet
<1>7. \A S \in SUBSET Receivers :
          IsFiniteSet(S) /\ Cardinality(S) \in Nat /\ Cardinality(S) <= Cardinality(Receivers)
    BY <1>4, FS_Subset, FS_CardinalityType
<1> QED BY <1>2, <1>4, <1>5, <1>6, <1>7

\* When one receiver moves, a set of receivers gains or loses that one at most.
LEMMA OneMoves ==
    ASSUME NEW r \in Receivers, NEW S \in SUBSET Receivers, NEW T \in SUBSET Receivers,
           \A q \in Receivers \ {r} : q \in T <=> q \in S
    PROVE  /\ Cardinality(S) \in Nat /\ Cardinality(T) \in Nat
           /\ Cardinality(T) = Cardinality(S) + (IF r \in T THEN 1 ELSE 0)
                                             - (IF r \in S THEN 1 ELSE 0)
<1>1. IsFiniteSet(S) /\ IsFiniteSet(T) /\ Cardinality(S) \in Nat /\ Cardinality(T) \in Nat
    BY TwoReceivers
<1>2. CASE r \in T <=> r \in S
    <2>1. T = S BY <1>2
    <2> QED BY <1>1, <1>2, <2>1
<1>3. CASE r \in T /\ r \notin S
    <2>1. T = S \cup {r} BY <1>3
    <2> QED BY <1>1, <1>3, <2>1, FS_AddElement
<1>4. CASE r \notin T /\ r \in S
    <2>1. T = S \ {r} BY <1>4
    <2> QED BY <1>1, <1>4, <2>1, FS_RemoveElement
<1> QED BY <1>1, <1>2, <1>3, <1>4

OnlyMoves(r) == rx \in [Receivers -> {Idle} \cup InHand] /\ \A q \in Receivers \ {r} : rx'[q] = rx[q]

\* What the move of one receiver does to the sets that the bounds count.
Creators(r) ==
    /\ Cardinality(Creating) \in Nat
    /\ Cardinality(Creating)' = Cardinality(Creating) + (IF rx'[r].at = "create" THEN 1 ELSE 0)
                                                      - (IF rx[r].at = "create" THEN 1 ELSE 0)
Inserters(r, m) ==
    /\ Cardinality(Inserting(m)) \in Nat
    /\ Cardinality(Inserting(m))' = Cardinality(Inserting(m))
           + (IF rx'[r].at = "insert" /\ rx'[r].message = m THEN 1 ELSE 0)
           - (IF rx[r].at = "insert" /\ rx[r].message = m THEN 1 ELSE 0)
Handlers(r, m) ==
    /\ Cardinality(Handling(m)) \in Nat
    /\ Cardinality(Handling(m))' = Cardinality(Handling(m))
           + (IF rx'[r].at # "idle" /\ rx'[r].message = m THEN 1 ELSE 0)
           - (IF rx[r].at # "idle" /\ rx[r].message = m THEN 1 ELSE 0)
EarlyOnes(r, m) ==
    /\ Cardinality(Early(m)) \in Nat
    /\ Cardinality(Early(m))' = Cardinality(Early(m))
           + (IF rx'[r].at \notin {"idle", "delayed"} /\ rx'[r].message = m THEN 1 ELSE 0)
           - (IF rx[r].at \notin {"idle", "delayed"} /\ rx[r].message = m THEN 1 ELSE 0)

\* When one receiver moves, each set counts one more or less.
LEMMA CreatorsMove ==
    ASSUME NEW r \in Receivers, OnlyMoves(r)
    PROVE  Creators(r)
<1> USE DEF OnlyMoves
<1>1. \A q \in Receivers \ {r} : q \in Creating' <=> q \in Creating BY DEF Creating
<1>2. /\ r \in Creating <=> rx[r].at = "create"
      /\ r \in Creating' <=> rx'[r].at = "create"
    BY DEF Creating
<1>3. Creating \in SUBSET Receivers /\ Creating' \in SUBSET Receivers BY DEF Creating
<1> HIDE DEF OnlyMoves
<1>4. /\ Cardinality(Creating) \in Nat
      /\ Cardinality(Creating') = Cardinality(Creating) + (IF r \in Creating' THEN 1 ELSE 0)
             - (IF r \in Creating THEN 1 ELSE 0)
    BY <1>1, <1>3, OneMoves
<1> QED BY <1>2, <1>4 DEF Creators

\* The sets that belong to a message, in the same way.
LEMMA Moves ==
    ASSUME NEW r \in Receivers, OnlyMoves(r), NEW m \in Messages
    PROVE  Inserters(r, m) /\ Handlers(r, m) /\ EarlyOnes(r, m)
<1> USE DEF OnlyMoves
<1>1. Inserters(r, m)
    <2>1. \A q \in Receivers \ {r} : q \in Inserting(m)' <=> q \in Inserting(m) BY DEF Inserting
    <2>2. /\ r \in Inserting(m) <=> rx[r].at = "insert" /\ rx[r].message = m
          /\ r \in Inserting(m)' <=> rx'[r].at = "insert" /\ rx'[r].message = m
        BY DEF Inserting
    <2>3. Inserting(m) \in SUBSET Receivers /\ Inserting(m)' \in SUBSET Receivers BY DEF Inserting
    <2> HIDE DEF OnlyMoves
    <2>4. /\ Cardinality(Inserting(m)) \in Nat
          /\ Cardinality(Inserting(m)') =
                 Cardinality(Inserting(m)) + (IF r \in Inserting(m)' THEN 1 ELSE 0)
                 - (IF r \in Inserting(m) THEN 1 ELSE 0)
        BY <2>1, <2>3, OneMoves
    <2> QED BY <2>2, <2>4 DEF Inserters
<1>2. Handlers(r, m)
    <2>1. \A q \in Receivers \ {r} : q \in Handling(m)' <=> q \in Handling(m) BY DEF Handling
    <2>2. /\ r \in Handling(m) <=> rx[r].at # "idle" /\ rx[r].message = m
          /\ r \in Handling(m)' <=> rx'[r].at # "idle" /\ rx'[r].message = m
        BY DEF Handling
    <2>3. Handling(m) \in SUBSET Receivers /\ Handling(m)' \in SUBSET Receivers BY DEF Handling
    <2> HIDE DEF OnlyMoves
    <2>4. /\ Cardinality(Handling(m)) \in Nat
          /\ Cardinality(Handling(m)') =
                 Cardinality(Handling(m)) + (IF r \in Handling(m)' THEN 1 ELSE 0)
                 - (IF r \in Handling(m) THEN 1 ELSE 0)
        BY <2>1, <2>3, OneMoves
    <2> QED BY <2>2, <2>4 DEF Handlers
<1>3. EarlyOnes(r, m)
    <2>1. \A q \in Receivers \ {r} : q \in Early(m)' <=> q \in Early(m) BY DEF Early, Handling
    <2>2. /\ r \in Early(m) <=> rx[r].at \notin {"idle", "delayed"} /\ rx[r].message = m
          /\ r \in Early(m)' <=> rx'[r].at \notin {"idle", "delayed"} /\ rx'[r].message = m
        BY DEF Early, Handling
    <2>3. Early(m) \in SUBSET Receivers /\ Early(m)' \in SUBSET Receivers BY DEF Early, Handling
    <2> HIDE DEF OnlyMoves
    <2>4. /\ Cardinality(Early(m)) \in Nat
          /\ Cardinality(Early(m)') = Cardinality(Early(m)) + (IF r \in Early(m)' THEN 1 ELSE 0)
                 - (IF r \in Early(m) THEN 1 ELSE 0)
        BY <2>1, <2>3, OneMoves
    <2> QED BY <2>2, <2>4 DEF EarlyOnes
<1> QED BY <1>1, <1>2, <1>3

-----------------------------------------------------------------------------
\* There are ids for all conversations that may ever be opened.
LEMMA IdsSuffice ==
    ASSUME Faults, Numbered, RoomToCreate
    PROVE  /\ lastId \in Nat /\ 0..lastId \subseteq {0} \cup Ids
           /\ conversations \subseteq Ids /\ Cardinality(conversations) \in Nat
           /\ Cardinality(conversations) <= Cardinality(Receivers)
<1> DEFINE k == Cardinality(Receivers)
<1>1. Cardinality(conversations) \in Nat
    BY FS_CardinalityType DEF Numbered
<1>2. Cardinality(Creating) \in Nat
    BY TwoReceivers DEF Creating
<1>3. k \in 0..2 BY TwoReceivers
<1>4. Cardinality(conversations) <= k
    BY <1>1, <1>2, <1>3 DEF RoomToCreate
<1>5. MaxDeletes \in Nat /\ deletes \in 0..MaxDeletes
    BY IncomingAssumption DEF Faults
<1>6. lastId \in Nat /\ lastId <= k + MaxDeletes
    BY <1>1, <1>3, <1>4, <1>5 DEF Numbered
<1>7. lastId <= (MaxDeletes + 1) * k /\ (MaxDeletes + 1) * k \in Nat
    <2>1. CASE k = 0
        <3>1. lastId = 0 BY <2>1, TwoReceivers DEF Numbered
        <3>2. (MaxDeletes + 1) * 0 = 0 BY <1>5
        <3> QED BY <2>1, <3>1, <3>2
    <2>2. CASE k = 1
        <3>1. (MaxDeletes + 1) * 1 = MaxDeletes + 1 BY <1>5
        <3> QED BY <1>5, <1>6, <2>2, <3>1
    <2>3. CASE k = 2
        <3>1. (MaxDeletes + 1) * 2 = MaxDeletes + MaxDeletes + 2 BY <1>5
        <3> QED BY <1>5, <1>6, <2>3, <3>1
    <2> QED BY <1>3, <2>1, <2>2, <2>3
<1>8. 1..lastId \subseteq Ids BY <1>6, <1>7 DEF Ids
<1>9. conversations \subseteq Ids BY <1>8 DEF Numbered
<1>10. 0..lastId \subseteq {0} \cup Ids
    <2>1. 0..lastId \subseteq {0} \cup 1..lastId BY <1>6
    <2> QED BY <1>8, <2>1
<1> QED BY <1>1, <1>4, <1>6, <1>9, <1>10

\* The copies of a message, one by one.
LEMMA CopiesOneByOne ==
    \A m, x : x \in Stored(m) <=> \E c \in Ids : \E k \in 1..rows[m][c] : x = <<c, k>>
BY DEF Stored

\* The same after a step.
LEMMA CopiesAfterwards ==
    \A m, x : x \in Stored(m)' <=> \E c \in Ids : \E k \in 1..rows'[m][c] : x = <<c, k>>
BY DEF Stored

\* A message that is not known has no copy.
LEMMA UnknownHasNoCopy ==
    ASSUME Types, NEW m \in Messages, ~Known(m)
    PROVE  Stored(m) = {}
<1> SUFFICES \A c \in Ids : 1..rows[m][c] = {}
    BY CopiesOneByOne
<1> TAKE c \in Ids
<1>1. rows[m][c] \in Nat /\ ~(rows[m][c] > 0) BY DEF Known, Types
<1> QED BY <1>1

\* An insert adds one copy, and one of its message only.
LEMMA InsertAddsOne ==
    ASSUME Types, NEW r \in Receivers, Insert(r), rx[r].message \in Messages,
           rx[r].conversation \in Ids, NEW n \in Messages, IsFiniteSet(Stored(n))
    PROVE  /\ IsFiniteSet(Stored(n)')
           /\ Cardinality(Stored(n)') =
                  Cardinality(Stored(n)) + (IF rx[r].message = n THEN 1 ELSE 0)
           /\ Cardinality(Stored(n)) \in Nat
<1> DEFINE m == rx[r].message
           c == rx[r].conversation
           new == <<c, rows[n][c] + 1>>
<1>0. Cardinality(Stored(n)) \in Nat BY FS_CardinalityType
<1>1. rows' = [rows EXCEPT ![m][c] = rows[m][c] + 1] BY DEF Insert
<1>2. rows[m] \in [Ids -> Nat] /\ rows[m][c] \in Nat BY DEF Types
<1>3. CASE n # m
    <2>1. rows'[n] = rows[n] BY <1>1, <1>3 DEF Types
    <2>2. Stored(n)' = Stored(n) BY <2>1 DEF Stored
    <2> QED BY <1>0, <1>3, <2>2
<1>4. CASE n = m
    <2>1. /\ rows'[n][c] = rows[n][c] + 1
          /\ \A d \in Ids \ {c} : rows'[n][d] = rows[n][d]
        BY <1>1, <1>2, <1>4 DEF Types
    <2>2. 1..rows'[n][c] = (1..rows[n][c]) \cup {rows[n][c] + 1}
        BY <1>2, <1>4, <2>1
    <2>3. \A x : x \in Stored(n)' <=> x \in Stored(n) \cup {new}
        <3> TAKE x
        <3>1. CASE x \in Stored(n)'
            <4>0. PICK d \in Ids : \E k \in 1..rows'[n][d] : x = <<d, k>> BY <3>1, CopiesAfterwards
            <4>1. PICK k \in 1..rows'[n][d] : x = <<d, k>> BY <4>0
            <4>2. d = c \/ k \in 1..rows[n][d] BY <2>1, <4>1
            <4>3. k \in 1..rows[n][d] \/ (d = c /\ k = rows[n][c] + 1) BY <2>2, <4>1, <4>2
            <4> QED BY <3>1, <4>1, <4>3, CopiesOneByOne
        <3>2. CASE x \in Stored(n)
            <4>0. PICK d \in Ids : \E k \in 1..rows[n][d] : x = <<d, k>> BY <3>2, CopiesOneByOne
            <4>1. PICK k \in 1..rows[n][d] : x = <<d, k>> BY <4>0
            <4>2. k \in 1..rows'[n][d] BY <2>1, <2>2, <4>1
            <4> QED BY <3>2, <4>1, <4>2, CopiesAfterwards
        <3>3. CASE x = new
            <4>1. rows[n][c] + 1 \in 1..rows'[n][c] BY <2>2
            <4> QED BY <3>3, <4>1, CopiesAfterwards
        <3> QED BY <3>1, <3>2, <3>3
    <2>4. Stored(n)' = Stored(n) \cup {new} BY <2>3
    <2>5. new \notin Stored(n)
        <3> SUFFICES \A d \in Ids : \A k \in 1..rows[n][d] : new # <<d, k>>
            BY CopiesOneByOne
        <3> TAKE d \in Ids
        <3> TAKE k \in 1..rows[n][d]
        <3>1. CASE d = c
            <4>1. k # rows[n][c] + 1 BY <1>2, <1>4, <3>1
            <4> QED BY <4>1
        <3>2. CASE d # c BY <3>2
        <3> QED BY <3>1, <3>2
    <2> HIDE DEF new
    <2> QED BY <1>0, <1>4, <2>4, <2>5, FS_AddElement
<1> QED BY <1>3, <1>4

\* A deletion adds no copy.
LEMMA DeleteAddsNone ==
    ASSUME Types, NEW c, DeleteConversation(c), NEW n \in Messages, IsFiniteSet(Stored(n))
    PROVE  /\ IsFiniteSet(Stored(n)') /\ Cardinality(Stored(n)') <= Cardinality(Stored(n))
           /\ Cardinality(Stored(n)) \in Nat /\ Cardinality(Stored(n)') \in Nat
<1>1. rows'[n] = [rows[n] EXCEPT ![c] = 0] BY DEF DeleteConversation
<1>2. Stored(n)' \in SUBSET Stored(n)
    <2> SUFFICES \A d \in Ids : \A k \in 1..rows'[n][d] : <<d, k>> \in Stored(n)
        BY CopiesAfterwards
    <2> TAKE d \in Ids
    <2> TAKE k \in 1..rows'[n][d]
    <2>1. rows[n] \in [Ids -> Nat] BY DEF Types
    <2>2. d # c BY <1>1, <2>1
    <2>3. rows'[n][d] = rows[n][d] BY <1>1, <2>1, <2>2
    <2> QED BY <2>3, CopiesOneByOne
<1> QED BY <1>2, FS_Subset, FS_CardinalityType

-----------------------------------------------------------------------------
\* At the start there is nothing, and nobody at work.
LEMMA InitBounded == Init => Bounded
<1> SUFFICES ASSUME Init PROVE Bounded
    OBVIOUS
<1> USE DEF Init
<1>0. IsFiniteSet({}) /\ Cardinality({}) = 0 BY FS_EmptySet
<1>1. Faults BY IncomingAssumption DEF Faults
<1>2. Numbered BY <1>0 DEF Numbered
<1>3. \A r \in Receivers : rx[r] = Idle /\ rx[r].at = "idle" BY DEF Idle
<1>4. RoomToCreate
    <2>1. Creating = {} BY <1>3 DEF Creating
    <2> QED BY <1>0, <2>1, TwoReceivers DEF RoomToCreate
<1>5. RowsHaveConversations BY DEF RowsHaveConversations
<1>6. HandsKnowIds BY <1>3 DEF HandsKnowIds
<1>7. RoomToInsert
    <2> SUFFICES ASSUME NEW m \in Messages
                 PROVE  /\ IsFiniteSet(Stored(m))
                        /\ Cardinality(Stored(m)) + Cardinality(Inserting(m)) <= Cardinality(Receivers)
        BY DEF RoomToInsert
    <2>1. Inserting(m) = {} BY <1>3 DEF Inserting
    <2>2. Stored(m) = {}
        <3>1. \A c \in Ids : 1..rows[m][c] = {} OBVIOUS
        <3> QED BY <3>1, CopiesOneByOne
    <2> QED BY <1>0, <2>1, <2>2, TwoReceivers
<1>8. RoomToAck
    <2> SUFFICES ASSUME NEW m \in Messages
                 PROVE  acks[m] + Cardinality(Handling(m)) + Cardinality(Early(m)) <= MaxAcks
        BY DEF RoomToAck
    <2>1. Handling(m) = {} /\ Early(m) = {} BY <1>3 DEF Handling, Early
    <2> QED BY <1>0, <2>1, IncomingAssumption
<1> QED BY <1>1, <1>2, <1>4, <1>5, <1>6, <1>7, <1>8 DEF Bounded

\* The bounds do not depend on what the remote station knows.
LEMMA RemoteIsFree ==
    ASSUME Bounded,
           UNCHANGED <<conversations, lastId, rows, acks, rx, ever, deletes, crashes>>
    PROVE  Bounded'
BY DEF Bounded, Faults, Numbered, RoomToCreate, Creating, RowsHaveConversations, HandsKnowIds,
   RoomToInsert, Stored, Inserting, RoomToAck, Handling, Early

\* A receiver is idle, or has a copy in its hands.
LEMMA IdleOrNot ==
    ASSUME Types, NEW r \in Receivers
    PROVE  /\ rx[r] = Idle <=> rx[r].at = "idle"
           /\ rx[r] # Idle => rx[r] \in InHand
BY DEF Types, Idle, InHand

\* RoomForAcks counts these receivers.
LEMMA HandlingIsHandled ==
    ASSUME Types, NEW m \in Messages
    PROVE  Handling(m) = {r \in Receivers : m \in Handled(r)}
BY IdleOrNot DEF Handling, Handled

\* Who has two acknowledgements to queue has one to queue.
LEMMA EarlyAreHandling ==
    ASSUME NEW m \in Messages
    PROVE  /\ Cardinality(Early(m)) \in Nat /\ Cardinality(Handling(m)) \in Nat
           /\ Cardinality(Early(m)) <= Cardinality(Handling(m))
<1>1. Handling(m) \in SUBSET Receivers /\ Early(m) \in SUBSET Handling(m)
    BY DEF Handling, Early
<1>2. Early(m) \in SUBSET Receivers BY <1>1
<1>3. IsFiniteSet(Handling(m)) BY <1>1, TwoReceivers
<1>4. Cardinality(Early(m)) <= Cardinality(Handling(m)) BY <1>1, <1>3, FS_Subset
<1> QED BY <1>1, <1>2, <1>4, TwoReceivers

\* A copy is taken only when there is room for its acknowledgements.
LEMMA ArriveBounded ==
    ASSUME Types, Bounded, NEW r \in Receivers, NEW m \in Messages, Arrive(r, m)
    PROVE  Bounded'
<1> USE DEF Arrive, Bounded
<1>1. /\ rx[r].at = "idle" /\ rx'[r].at = "find" /\ rx'[r].message = m
      /\ rx'[r].conversation = 0 /\ OnlyMoves(r)
    BY DEF Types, Idle, OnlyMoves
<1>2. Faults' BY DEF Faults
<1>3. Numbered' BY DEF Numbered
<1>4. RowsHaveConversations' BY DEF RowsHaveConversations
<1>5. HandsKnowIds'
    <2>1. lastId \in Nat BY DEF Types
    <2> QED BY <1>1, <2>1 DEF HandsKnowIds, OnlyMoves
<1>6. RoomToCreate'
    <2>1. Creators(r) BY <1>1, CreatorsMove
    <2>2. Cardinality(conversations) \in Nat BY FS_CardinalityType DEF Numbered
    <2> QED BY <1>1, <2>1, <2>2 DEF Creators, RoomToCreate
<1>7. RoomToInsert'
    <2> SUFFICES ASSUME NEW n \in Messages
                 PROVE  /\ IsFiniteSet(Stored(n))'
                        /\ Cardinality(Stored(n)') + Cardinality(Inserting(n)') <= Cardinality(Receivers)
        BY DEF RoomToInsert
    <2>1. Inserters(r, n) BY <1>1, Moves
    <2>2. Stored(n)' = Stored(n) BY DEF Stored
    <2> QED BY <1>1, <2>1, <2>2 DEF Inserters, RoomToInsert
<1>8. RoomToAck'
    <2> SUFFICES ASSUME NEW n \in Messages
                 PROVE  acks[n] + Cardinality(Handling(n)') + Cardinality(Early(n)') <= MaxAcks
        BY DEF RoomToAck
    <2>1. Handlers(r, n) /\ EarlyOnes(r, n) BY <1>1, Moves
    <2>2. acks[n] \in Nat /\ MaxAcks \in Nat BY IncomingAssumption DEF Types
    <2>3. CASE n # m BY <1>1, <2>1, <2>2, <2>3 DEF Handlers, EarlyOnes, RoomToAck
    <2>4. CASE n = m
        <3>1. acks[n] + 2 * Cardinality(Handling(n)) + 2 <= MaxAcks
            BY <2>4, HandlingIsHandled DEF RoomForAcks
        <3>2. /\ Cardinality(Handling(n)') = Cardinality(Handling(n)) + 1
              /\ Cardinality(Early(n)') = Cardinality(Early(n)) + 1
            BY <1>1, <2>1, <2>4 DEF Handlers, EarlyOnes
        <3> QED BY <2>2, <3>1, <3>2, EarlyAreHandling
    <2> QED BY <2>3, <2>4
<1> QED BY <1>2, <1>3, <1>4, <1>5, <1>6, <1>7, <1>8

\* The parts of a handler's step that only look change no bound but those of places.
LEMMA LooksOnly ==
    ASSUME Types, Bounded, NEW r \in Receivers, OnlyMoves(r), rx[r] \in InHand,
           rx'[r].message = rx[r].message,
           rx[r].at \in {"find", "look"}, rx'[r].at \in {"create", "look", "insert", "ack"},
           UNCHANGED <<conversations, lastId, rows, acks, ever, deletes, crashes>>,
           rx'[r].conversation \in 0..lastId,
           rx'[r].at = "create" => conversations = {},
           rx'[r].at = "insert" => Stored(rx[r].message) = {}
    PROVE  Bounded'
<1> USE DEF Bounded
<1>1. Faults' /\ Numbered' /\ RowsHaveConversations'
    BY DEF Faults, Numbered, RowsHaveConversations
<1>2. HandsKnowIds'
    BY DEF HandsKnowIds, OnlyMoves
<1>3. RoomToCreate'
    <2>1. Creators(r) BY CreatorsMove
    <2>2. Cardinality(conversations) \in Nat BY FS_CardinalityType DEF Numbered
    <2>3. CASE rx'[r].at = "create"
        <3>1. Cardinality(conversations) = 0 BY <2>3, FS_EmptySet
        <3>2. Creating' \in SUBSET Receivers BY DEF Creating
        <3>3. Cardinality(Creating') <= Cardinality(Receivers) /\ Cardinality(Creating') \in Nat
            BY <3>2, TwoReceivers
        <3> QED BY <3>1, <3>3 DEF RoomToCreate
    <2>4. CASE rx'[r].at # "create"
        BY <2>1, <2>2, <2>4 DEF Creators, RoomToCreate
    <2> QED BY <2>3, <2>4
<1>4. RoomToInsert'
    <2> SUFFICES ASSUME NEW n \in Messages
                 PROVE  /\ IsFiniteSet(Stored(n)')
                        /\ Cardinality(Stored(n)') + Cardinality(Inserting(n)') <= Cardinality(Receivers)
        BY DEF RoomToInsert
    <2>1. Inserters(r, n) BY Moves
    <2>2. Stored(n)' = Stored(n) BY DEF Stored
    <2>3. CASE rx'[r].at = "insert" /\ rx[r].message = n
        <3>1. Cardinality(Stored(n)') = 0 BY <2>2, <2>3, FS_EmptySet
        <3>2. Inserting(n)' \in SUBSET Receivers BY DEF Inserting
        <3>3. /\ Cardinality(Inserting(n)') <= Cardinality(Receivers)
              /\ Cardinality(Inserting(n)') \in Nat
            BY <3>2, TwoReceivers
        <3>4. IsFiniteSet(Stored(n)') BY <2>2 DEF RoomToInsert
        <3> QED BY <3>1, <3>3, <3>4
    <2>4. CASE ~(rx'[r].at = "insert" /\ rx[r].message = n)
        BY <2>1, <2>2, <2>4 DEF Inserters, RoomToInsert
    <2> QED BY <2>3, <2>4
<1>5. RoomToAck'
    <2> SUFFICES ASSUME NEW n \in Messages
                 PROVE  acks[n] + Cardinality(Handling(n)') + Cardinality(Early(n)') <= MaxAcks
        BY DEF RoomToAck
    <2>1. Handlers(r, n) /\ EarlyOnes(r, n) BY Moves
    <2> QED BY <2>1 DEF Handlers, EarlyOnes, RoomToAck
<1> QED BY <1>1, <1>2, <1>3, <1>4, <1>5

\* Looking for the conversation, and for the message.
LEMMA FindBounded ==
    ASSUME Types, Bounded, NEW r \in Receivers, FindConversation(r) \/ Look(r)
    PROVE  Bounded'
<1>1. rx[r].at \in {"find", "look"} BY DEF FindConversation, Look, At
<1>2. rx[r] # Idle /\ rx[r] \in InHand /\ lastId \in Nat
    BY <1>1, IdleOrNot DEF Types
<1>3. OnlyMoves(r) BY DEF FindConversation, Look, Goto, OnlyMoves, Types
<1>4. UNCHANGED <<conversations, lastId, rows, acks, ever, deletes, crashes>>
    BY DEF FindConversation, Look
<1>5. rx[r].conversation \in 0..lastId BY <1>2 DEF Bounded, HandsKnowIds
<1>6. CASE FindConversation(r) /\ conversations = {}
    <2>1. rx'[r] = [rx[r] EXCEPT !.at = "create"] BY <1>6 DEF FindConversation, Goto, Types
    <2>2. rx'[r].at = "create" /\ rx'[r].message = rx[r].message
          /\ rx'[r].conversation = rx[r].conversation
        BY <1>2, <2>1 DEF InHand
    <2> QED BY <1>1, <1>2, <1>3, <1>4, <1>5, <1>6, <2>2, LooksOnly
<1>7. CASE FindConversation(r) /\ conversations # {}
    <2>1. PICK c \in conversations : rx' = [rx EXCEPT ![r].at = "look", ![r].conversation = c]
        BY <1>7 DEF FindConversation
    <2>2. rx'[r].at = "look" /\ rx'[r].message = rx[r].message /\ rx'[r].conversation = c
        BY <1>2, <2>1 DEF InHand, Types
    <2>3. c \in 0..lastId BY <1>2 DEF Bounded, Numbered
    <2> QED BY <1>1, <1>2, <1>3, <1>4, <2>2, <2>3, LooksOnly
<1>8. CASE Look(r)
    <2>1. rx'[r] = [rx[r] EXCEPT !.at = AfterLook(rx[r].message)] BY <1>8 DEF Look, Goto, Types
    <2>2. rx'[r].at = AfterLook(rx[r].message) /\ rx'[r].message = rx[r].message
          /\ rx'[r].conversation = rx[r].conversation
        BY <1>2, <2>1 DEF InHand
    <2>3. rx[r].message \in Messages BY <1>2 DEF InHand
    <2>4. rx'[r].at \in {"ack", "insert"} BY <2>2 DEF AfterLook
    <2>5. rx'[r].at = "insert" => Stored(rx[r].message) = {}
        BY <2>2, <2>3, UnknownHasNoCopy DEF AfterLook
    <2> QED BY <1>1, <1>2, <1>3, <1>4, <1>5, <2>2, <2>4, <2>5, LooksOnly
<1> QED BY <1>6, <1>7, <1>8

\* A conversation takes the place of a receiver that was to open one.
LEMMA CreateBounded ==
    ASSUME Types, Bounded, NEW r \in Receivers, CreateConversation(r)
    PROVE  Bounded'
<1> USE DEF Bounded
<1>1. rx[r].at = "create" /\ rx[r] \in InHand /\ rx[r] # Idle
    BY IdleOrNot DEF CreateConversation, At
<1>2. rx'[r].at = "look" /\ rx'[r].message = rx[r].message /\ rx'[r].conversation = lastId + 1
    BY <1>1 DEF CreateConversation, Types, InHand
<1>3. OnlyMoves(r) BY DEF CreateConversation, OnlyMoves, Types
<1>4. /\ lastId' = lastId + 1 /\ conversations' = conversations \cup {lastId + 1}
      /\ UNCHANGED <<remote, rows, acks, ever, deletes, crashes>>
    BY DEF CreateConversation
<1>5. lastId \in Nat /\ lastId + 1 \notin conversations
    BY IdsSuffice DEF Numbered
<1>6. /\ IsFiniteSet(conversations') /\ Cardinality(conversations) \in Nat
      /\ Cardinality(conversations') = Cardinality(conversations) + 1
    BY <1>4, <1>5, IdsSuffice, FS_AddElement DEF Numbered
<1>7. Numbered'
    <2>1. conversations' \subseteq 1..lastId'
        <3>1. 1..lastId \subseteq 1..(lastId + 1) /\ lastId + 1 \in 1..(lastId + 1) BY <1>5
        <3>2. conversations \subseteq 1..lastId BY DEF Numbered
        <3> QED BY <1>4, <3>1, <3>2
    <2>2. deletes \in Nat BY IncomingAssumption DEF Faults
    <2>3. lastId' = Cardinality(conversations') + deletes'
        BY <1>4, <1>6, <2>2 DEF Numbered
    <2> QED BY <1>6, <2>1, <2>3 DEF Numbered
<1>8. RoomToCreate'
    <2>1. Creators(r) BY <1>3, CreatorsMove
    <2>2. Cardinality(Receivers) \in Nat BY TwoReceivers
    <2> QED BY <1>1, <1>2, <1>6, <2>1, <2>2 DEF Creators, RoomToCreate
<1>9. RowsHaveConversations' BY <1>4 DEF RowsHaveConversations
<1>10. HandsKnowIds'
    BY <1>2, <1>3, <1>4, <1>5 DEF HandsKnowIds, OnlyMoves
<1>11. RoomToInsert'
    <2> SUFFICES ASSUME NEW n \in Messages
                 PROVE  /\ IsFiniteSet(Stored(n)')
                        /\ Cardinality(Stored(n)') + Cardinality(Inserting(n)') <= Cardinality(Receivers)
        BY DEF RoomToInsert
    <2>1. Inserters(r, n) BY <1>3, Moves
    <2>2. Stored(n)' = Stored(n) BY <1>4 DEF Stored
    <2> QED BY <1>1, <1>2, <2>1, <2>2 DEF Inserters, RoomToInsert
<1>12. RoomToAck'
    <2> SUFFICES ASSUME NEW n \in Messages
                 PROVE  acks[n] + Cardinality(Handling(n)') + Cardinality(Early(n)') <= MaxAcks
        BY <1>4 DEF RoomToAck
    <2>1. Handlers(r, n) /\ EarlyOnes(r, n) BY <1>3, Moves
    <2> QED BY <1>1, <1>2, <2>1 DEF Handlers, EarlyOnes, RoomToAck
<1>13. Faults' BY <1>4 DEF Faults
<1> QED BY <1>7, <1>8, <1>9, <1>10, <1>11, <1>12, <1>13

\* A copy takes the place of a receiver that was to store one.
LEMMA InsertBounded ==
    ASSUME Types, Bounded, NEW r \in Receivers, Insert(r)
    PROVE  Bounded'
<1> USE DEF Bounded
<1>1. rx[r].at = "insert" /\ rx[r] \in InHand /\ rx[r] # Idle /\ rx[r].message \in Messages
    BY IdleOrNot DEF Insert, At, InHand
<1>2. rx'[r] = [rx[r] EXCEPT !.at = "ack"] BY DEF Insert, Goto, Types
<1>3. rx'[r].at = "ack" /\ rx'[r].message = rx[r].message
      /\ rx'[r].conversation = rx[r].conversation
    BY <1>1, <1>2 DEF InHand
<1>4. OnlyMoves(r) BY DEF Insert, Goto, OnlyMoves, Types
<1>5. /\ UNCHANGED <<remote, conversations, lastId, acks, deletes, crashes>>
      /\ ever' = ever \cup {rx[r].message} /\ rx[r].conversation \in conversations
    BY DEF Insert, HasConversation
<1>6. Faults' BY <1>1, <1>5 DEF Faults
<1>7. Numbered' BY <1>5 DEF Numbered
<1>8. RoomToCreate'
    <2>1. Creators(r) BY <1>4, CreatorsMove
    <2> QED BY <1>1, <1>3, <1>5, <2>1 DEF Creators, RoomToCreate
<1>9. RowsHaveConversations'
    <2> SUFFICES ASSUME NEW n \in Messages, NEW c \in Ids \ conversations
                 PROVE  rows'[n][c] = 0
        BY <1>5 DEF RowsHaveConversations
    <2>1. rows' = [rows EXCEPT ![rx[r].message][rx[r].conversation] = @ + 1] BY DEF Insert
    <2>2. rows[n][c] = 0 /\ rows[n] \in [Ids -> Nat] BY DEF RowsHaveConversations, Types
    <2>3. c # rx[r].conversation BY <1>5
    <2>4. rows'[n][c] = rows[n][c] BY <2>1, <2>2, <2>3 DEF Types
    <2> QED BY <2>2, <2>4
<1>10. HandsKnowIds' BY <1>1, <1>3, <1>4, <1>5 DEF HandsKnowIds, OnlyMoves
<1>11. RoomToInsert'
    <2> SUFFICES ASSUME NEW n \in Messages
                 PROVE  /\ IsFiniteSet(Stored(n)')
                        /\ Cardinality(Stored(n)') + Cardinality(Inserting(n)') <= Cardinality(Receivers)
        BY DEF RoomToInsert
    <2>1. Inserters(r, n) BY <1>4, Moves
    <2>2. rx[r].conversation \in Ids BY <1>5, IdsSuffice
    <2>3. /\ IsFiniteSet(Stored(n)') /\ Cardinality(Stored(n)) \in Nat
          /\ Cardinality(Stored(n)') =
                 Cardinality(Stored(n)) + (IF rx[r].message = n THEN 1 ELSE 0)
        BY <1>1, <2>2, InsertAddsOne DEF RoomToInsert
    <2>4. /\ Cardinality(Stored(n)) + Cardinality(Inserting(n)) <= Cardinality(Receivers)
          /\ Cardinality(Receivers) \in Nat
        BY TwoReceivers DEF RoomToInsert
    <2>5. CASE rx[r].message = n
        BY <1>1, <1>3, <2>1, <2>3, <2>4, <2>5 DEF Inserters
    <2>6. CASE rx[r].message # n
        BY <1>1, <1>3, <2>1, <2>3, <2>4, <2>6 DEF Inserters
    <2> QED BY <2>5, <2>6
<1>12. RoomToAck'
    <2> SUFFICES ASSUME NEW n \in Messages
                 PROVE  acks'[n] + Cardinality(Handling(n)') + Cardinality(Early(n)') <= MaxAcks
        BY DEF RoomToAck
    <2>1. Handlers(r, n) /\ EarlyOnes(r, n) BY <1>4, Moves
    <2> QED BY <1>1, <1>3, <1>5, <2>1 DEF Handlers, EarlyOnes, RoomToAck
<1> QED BY <1>6, <1>7, <1>8, <1>9, <1>10, <1>11, <1>12

\* A handler that gives up leaves its places free.
LEMMA FailureBounded ==
    ASSUME Types, Bounded, NEW r \in Receivers, InsertFails(r)
    PROVE  Bounded'
<1> USE DEF Bounded
<1>1. rx[r].at = "insert" /\ rx[r] \in InHand /\ rx[r] # Idle
    BY IdleOrNot DEF InsertFails, At
<1>2. rx'[r] = Idle /\ rx'[r].at = "idle" BY DEF InsertFails, Idle, Types
<1>3. OnlyMoves(r) BY DEF InsertFails, OnlyMoves, Types
<1>4. UNCHANGED <<remote, conversations, lastId, rows, acks, ever, deletes, crashes>>
    BY DEF InsertFails
<1>5. Faults' /\ Numbered' /\ RowsHaveConversations'
    BY <1>4 DEF Faults, Numbered, RowsHaveConversations
<1>6. HandsKnowIds' BY <1>2, <1>3, <1>4 DEF HandsKnowIds, OnlyMoves
<1>7. RoomToCreate'
    <2>1. Creators(r) BY <1>3, CreatorsMove
    <2> QED BY <1>1, <1>2, <1>4, <2>1 DEF Creators, RoomToCreate
<1>8. RoomToInsert'
    <2> SUFFICES ASSUME NEW n \in Messages
                 PROVE  /\ IsFiniteSet(Stored(n)')
                        /\ Cardinality(Stored(n)') + Cardinality(Inserting(n)') <= Cardinality(Receivers)
        BY DEF RoomToInsert
    <2>1. Inserters(r, n) BY <1>3, Moves
    <2>2. Stored(n)' = Stored(n) BY <1>4 DEF Stored
    <2>3. Cardinality(Stored(n)) \in Nat /\ Cardinality(Receivers) \in Nat
        BY FS_CardinalityType, TwoReceivers DEF RoomToInsert
    <2> QED BY <1>1, <1>2, <2>1, <2>2, <2>3 DEF Inserters, RoomToInsert
<1>9. RoomToAck'
    <2> SUFFICES ASSUME NEW n \in Messages
                 PROVE  acks'[n] + Cardinality(Handling(n)') + Cardinality(Early(n)') <= MaxAcks
        BY DEF RoomToAck
    <2>1. Handlers(r, n) /\ EarlyOnes(r, n) BY <1>3, Moves
    <2>2. acks[n] \in Nat /\ MaxAcks \in Nat BY IncomingAssumption DEF Types
    <2> QED BY <1>1, <1>2, <1>4, <2>1, <2>2 DEF Handlers, EarlyOnes, RoomToAck
<1> QED BY <1>5, <1>6, <1>7, <1>8, <1>9

\* An acknowledgement takes the place that was kept for it.
LEMMA QueueAckBounded ==
    ASSUME Types, Bounded, NEW r \in Receivers, QueueAck(r)
    PROVE  Bounded'
<1> USE DEF Bounded
<1>1. /\ rx[r].at \in {"ack", "delayed"} /\ rx[r] \in InHand /\ rx[r] # Idle
      /\ rx[r].message \in Messages
    BY IdleOrNot DEF QueueAck, At, InHand
<1>2. \/ /\ rx[r].at = "ack" /\ rx'[r].at = "delayed" /\ rx'[r].message = rx[r].message
         /\ rx'[r].conversation = rx[r].conversation
      \/ rx[r].at = "delayed" /\ rx'[r] = Idle /\ rx'[r].at = "idle"
    <2>1. CASE At(r, "ack") /\ Goto(r, "delayed")
        <3>1. rx'[r] = [rx[r] EXCEPT !.at = "delayed"] BY <2>1 DEF Goto, Types
        <3> QED BY <1>1, <2>1, <3>1 DEF At, InHand
    <2>2. CASE At(r, "delayed") /\ rx' = [rx EXCEPT ![r] = Idle]
        BY <2>2 DEF At, Types, Idle
    <2> QED BY <2>1, <2>2 DEF QueueAck
<1>3. OnlyMoves(r) BY DEF QueueAck, Goto, OnlyMoves, Types
<1>4. /\ UNCHANGED <<remote, conversations, lastId, rows, ever, deletes, crashes>>
      /\ acks' = [acks EXCEPT ![rx[r].message] = @ + 1]
    BY DEF QueueAck
<1>5. Faults' /\ Numbered' /\ RowsHaveConversations'
    BY <1>4 DEF Faults, Numbered, RowsHaveConversations
<1>6. HandsKnowIds' BY <1>1, <1>2, <1>3, <1>4 DEF HandsKnowIds, OnlyMoves
<1>7. RoomToCreate'
    <2>1. Creators(r) BY <1>3, CreatorsMove
    <2> QED BY <1>2, <1>4, <2>1 DEF Creators, RoomToCreate
<1>8. RoomToInsert'
    <2> SUFFICES ASSUME NEW n \in Messages
                 PROVE  /\ IsFiniteSet(Stored(n)')
                        /\ Cardinality(Stored(n)') + Cardinality(Inserting(n)') <= Cardinality(Receivers)
        BY DEF RoomToInsert
    <2>1. Inserters(r, n) BY <1>3, Moves
    <2>2. Stored(n)' = Stored(n) BY <1>4 DEF Stored
    <2> QED BY <1>2, <2>1, <2>2 DEF Inserters, RoomToInsert
<1>9. RoomToAck'
    <2> SUFFICES ASSUME NEW n \in Messages
                 PROVE  acks'[n] + Cardinality(Handling(n)') + Cardinality(Early(n)') <= MaxAcks
        BY DEF RoomToAck
    <2>1. Handlers(r, n) /\ EarlyOnes(r, n) BY <1>3, Moves
    <2>2. acks[n] \in Nat /\ MaxAcks \in Nat BY IncomingAssumption DEF Types
    <2>3. CASE rx[r].message # n
        <3>1. acks'[n] = acks[n] BY <1>4, <2>3 DEF Types
        <3>2. Cardinality(Handling(n)') = Cardinality(Handling(n))
              /\ Cardinality(Early(n)') = Cardinality(Early(n))
            BY <1>2, <2>1, <2>3 DEF Handlers, EarlyOnes
        <3> QED BY <3>1, <3>2 DEF RoomToAck
    <2>4. CASE rx[r].message = n
        <3>1. acks'[n] = acks[n] + 1 BY <1>4, <2>4 DEF Types
        <3>2. Cardinality(Handling(n)') + Cardinality(Early(n)') =
                  Cardinality(Handling(n)) + Cardinality(Early(n)) - 1
            BY <1>2, <2>1, <2>4 DEF Handlers, EarlyOnes
        <3>3. Cardinality(Handling(n)') \in Int /\ Cardinality(Early(n)') \in Int
            BY <2>1 DEF Handlers, EarlyOnes
        <3> QED BY <2>1, <2>2, <3>1, <3>2, <3>3 DEF Handlers, EarlyOnes, RoomToAck
    <2> QED BY <2>3, <2>4
<1> QED BY <1>5, <1>6, <1>7, <1>8, <1>9

\* The worker makes room.
LEMMA SendAckBounded ==
    ASSUME Types, Bounded, NEW m \in Messages, SendAck(m)
    PROVE  Bounded'
<1> USE DEF Bounded
<1>1. /\ UNCHANGED <<conversations, lastId, rows, rx, ever, deletes, crashes>>
      /\ acks' = [acks EXCEPT ![m] = @ - 1]
    BY DEF SendAck
<1>2. Faults' /\ Numbered' /\ RowsHaveConversations' /\ HandsKnowIds' /\ RoomToCreate'
    BY <1>1 DEF Faults, Numbered, RowsHaveConversations, HandsKnowIds, RoomToCreate, Creating
<1>3. RoomToInsert' BY <1>1 DEF RoomToInsert, Stored, Inserting
<1>4. RoomToAck'
    <2> SUFFICES ASSUME NEW n \in Messages
                 PROVE  acks'[n] + Cardinality(Handling(n)') + Cardinality(Early(n)') <= MaxAcks
        BY DEF RoomToAck
    <2>1. Handling(n)' = Handling(n) /\ Early(n)' = Early(n) BY <1>1 DEF Handling, Early
    <2>2. acks[n] \in Nat /\ MaxAcks \in Nat BY IncomingAssumption DEF Types
    <2>3. acks'[n] = acks[n] \/ acks'[n] = acks[n] - 1 BY <1>1 DEF Types
    <2> QED BY <2>1, <2>2, <2>3, EarlyAreHandling DEF RoomToAck
<1> QED BY <1>2, <1>3, <1>4

\* A deletion takes a conversation and its rows, and no receiver's id.
LEMMA DeleteBounded ==
    ASSUME Types, Bounded, NEW c \in conversations, DeleteConversation(c)
    PROVE  Bounded'
<1> USE DEF Bounded
<1>1. /\ UNCHANGED <<remote, lastId, acks, rx, ever, crashes>>
      /\ conversations' = conversations \ {c} /\ deletes' = deletes + 1 /\ deletes < MaxDeletes
      /\ rows' = [m \in Messages |-> [rows[m] EXCEPT ![c] = 0]]
    BY DEF DeleteConversation
<1>2. deletes \in Nat /\ MaxDeletes \in Nat BY IncomingAssumption DEF Faults
<1>3. /\ IsFiniteSet(conversations') /\ Cardinality(conversations) \in Nat
      /\ Cardinality(conversations') = Cardinality(conversations) - 1
    BY <1>1, IdsSuffice, FS_RemoveElement DEF Numbered
<1>4. Faults' BY <1>1, <1>2 DEF Faults
<1>5. Numbered' BY <1>1, <1>2, <1>3 DEF Numbered
<1>6. RoomToCreate'
    <2>1. Creating' = Creating BY <1>1 DEF Creating
    <2>2. Creating \in SUBSET Receivers BY DEF Creating
    <2>3. Cardinality(Creating) \in Nat /\ Cardinality(Receivers) \in Nat BY <2>2, TwoReceivers
    <2> QED BY <1>3, <2>1, <2>3 DEF RoomToCreate
<1>7. RowsHaveConversations'
    <2> SUFFICES ASSUME NEW n \in Messages, NEW d \in Ids \ conversations'
                 PROVE  rows'[n][d] = 0
        BY DEF RowsHaveConversations
    <2>1. rows'[n] = [rows[n] EXCEPT ![c] = 0] /\ rows[n] \in [Ids -> Nat] BY <1>1 DEF Types
    <2>2. CASE d = c BY <2>1, <2>2
    <2>3. CASE d # c
        <3>1. rows[n][d] = 0 BY <1>1, <2>3 DEF RowsHaveConversations
        <3> QED BY <2>1, <2>3, <3>1
    <2> QED BY <2>2, <2>3
<1>8. HandsKnowIds' BY <1>1 DEF HandsKnowIds
<1>9. RoomToInsert'
    <2> SUFFICES ASSUME NEW n \in Messages
                 PROVE  /\ IsFiniteSet(Stored(n)')
                        /\ Cardinality(Stored(n)') + Cardinality(Inserting(n)') <= Cardinality(Receivers)
        BY DEF RoomToInsert
    <2>1. Inserting(n)' = Inserting(n) BY <1>1 DEF Inserting
    <2>2. Inserting(n) \in SUBSET Receivers BY DEF Inserting
    <2>3. Cardinality(Inserting(n)) \in Nat /\ Cardinality(Receivers) \in Nat
        BY <2>2, TwoReceivers
    <2>4. IsFiniteSet(Stored(n)) BY DEF RoomToInsert
    <2>5. /\ IsFiniteSet(Stored(n)') /\ Cardinality(Stored(n)') <= Cardinality(Stored(n))
          /\ Cardinality(Stored(n)) \in Nat /\ Cardinality(Stored(n)') \in Nat
        BY <2>4, DeleteAddsNone
    <2> QED BY <2>1, <2>3, <2>5 DEF RoomToInsert
<1>10. RoomToAck' BY <1>1 DEF RoomToAck, Handling, Early
<1> QED BY <1>4, <1>5, <1>6, <1>7, <1>8, <1>9, <1>10

\* A crash makes room everywhere.
LEMMA CrashBounded ==
    ASSUME Types, Bounded, CoreCrash
    PROVE  Bounded'
<1> USE DEF Bounded
<1>0. IsFiniteSet({}) /\ Cardinality({}) = 0 BY FS_EmptySet
<1>1. /\ UNCHANGED <<remote, conversations, lastId, rows, acks, ever, deletes>>
      /\ crashes' = crashes + 1 /\ crashes < MaxCrashes
    BY DEF CoreCrash
<1>2. \A r \in Receivers : rx'[r] = Idle /\ rx'[r].at = "idle" BY DEF CoreCrash, Idle
<1>3. Faults' BY <1>1, IncomingAssumption DEF Faults
<1>4. Numbered' /\ RowsHaveConversations' BY <1>1 DEF Numbered, RowsHaveConversations
<1>5. HandsKnowIds' BY <1>2 DEF HandsKnowIds
<1>6. RoomToCreate'
    <2>1. Creating' = {} BY <1>2 DEF Creating
    <2>2. Cardinality(Receivers) \in Nat BY TwoReceivers
    <2> QED BY <1>0, <1>1, <2>1, <2>2, IdsSuffice DEF RoomToCreate
<1>7. RoomToInsert'
    <2> SUFFICES ASSUME NEW n \in Messages
                 PROVE  /\ IsFiniteSet(Stored(n)')
                        /\ Cardinality(Stored(n)') + Cardinality(Inserting(n)') <= Cardinality(Receivers)
        BY DEF RoomToInsert
    <2>1. Inserting(n)' = {} BY <1>2 DEF Inserting
    <2>2. Stored(n)' = Stored(n) BY <1>1 DEF Stored
    <2>3. Inserting(n) \in SUBSET Receivers BY DEF Inserting
    <2>4. /\ Cardinality(Inserting(n)) \in Nat /\ Cardinality(Receivers) \in Nat
          /\ IsFiniteSet(Stored(n)) /\ Cardinality(Stored(n)) \in Nat
        BY <2>3, TwoReceivers, FS_CardinalityType DEF RoomToInsert
    <2> QED BY <1>0, <2>1, <2>2, <2>4 DEF RoomToInsert
<1>8. RoomToAck'
    <2> SUFFICES ASSUME NEW n \in Messages
                 PROVE  acks'[n] + Cardinality(Handling(n)') + Cardinality(Early(n)') <= MaxAcks
        BY DEF RoomToAck
    <2>1. Handling(n)' = {} /\ Early(n)' = {} BY <1>2 DEF Handling, Early
    <2>2. acks[n] \in Nat /\ MaxAcks \in Nat BY IncomingAssumption DEF Types
    <2> QED BY <1>0, <1>1, <2>1, <2>2, EarlyAreHandling DEF RoomToAck
<1> QED BY <1>3, <1>4, <1>5, <1>6, <1>7, <1>8

\* No step of the system exceeds the bounds.
LEMMA NextBounded == Types /\ Bounded /\ [Next]_vars => Bounded'
<1> SUFFICES ASSUME Types, Bounded, [Next]_vars PROVE Bounded'
    OBVIOUS
<1>1. CASE UNCHANGED vars
    BY <1>1, RemoteIsFree DEF vars
<1>2. ASSUME NEW m \in Messages, RemoteSends(m) PROVE Bounded'
    BY <1>2, RemoteIsFree DEF RemoteSends
<1>3. ASSUME NEW m \in Messages, AckHeard(m) \/ AckLost(m) PROVE Bounded'
    BY <1>3, SendAckBounded DEF AckHeard, AckLost
<1>4. ASSUME NEW m \in Messages, NEW r \in Receivers, Arrive(r, m) PROVE Bounded'
    BY <1>4, ArriveBounded
<1>5. ASSUME NEW r \in Receivers, Handle(r) PROVE Bounded'
    BY <1>5, FindBounded, CreateBounded, InsertBounded, FailureBounded, QueueAckBounded DEF Handle
<1>6. ASSUME NEW c \in conversations, DeleteConversation(c) PROVE Bounded'
    BY <1>6, DeleteBounded
<1>7. CASE CoreCrash
    BY <1>7, CrashBounded
<1> QED BY <1>1, <1>2, <1>3, <1>4, <1>5, <1>6, <1>7 DEF Next

\* The two invariants together are inductive.
LEMMA AlwaysBounded == Spec => [](IndInv /\ Bounded)
<1>1. IndInv => Types BY DEF IndInv
<1> QED BY InitEstablishes, InitBounded, NextPreserves, NextBounded, <1>1, PTL DEF Spec

\* Every reachable state is type-correct: in particular no receiver holds the id of a
\* conversation that was never opened, and no row is left of one that was deleted.
THEOREM TypeCorrect == Spec => []TypeOK
<1>1. IndInv /\ Bounded => TypeOK
    <2> SUFFICES ASSUME IndInv, Bounded PROVE TypeOK
        OBVIOUS
    <2> USE DEF IndInv, Bounded
    <2>1. 0..lastId \subseteq {0} \cup Ids /\ lastId \in 0..lastId BY IdsSuffice
    <2>2. acks \in [Messages -> 0..MaxAcks]
        <3>1. ASSUME NEW m \in Messages PROVE acks[m] \in 0..MaxAcks
            <4>1. acks[m] \in Nat /\ MaxAcks \in Nat BY IncomingAssumption DEF Types
            <4> QED BY <4>1, EarlyAreHandling DEF RoomToAck
        <3> QED BY <3>1 DEF Types
    <2>3. rx \in [Receivers -> {Idle} \cup
              [at : {"find", "create", "look", "insert", "ack", "delayed"},
               message : Messages, conversation : {0} \cup Ids]]
        <3>1. ASSUME NEW r \in Receivers, rx[r] # Idle
              PROVE  rx[r] \in [at : {"find", "create", "look", "insert", "ack", "delayed"},
                                message : Messages, conversation : {0} \cup Ids]
            <4>1. rx[r] \in InHand BY <3>1, IdleOrNot
            <4>2. rx[r].conversation \in {0} \cup Ids BY <2>1, <3>1 DEF HandsKnowIds
            <4> QED BY <4>1, <4>2 DEF InHand
        <3> QED BY <3>1 DEF Types
    <2> QED BY <2>1, <2>2, <2>3 DEF TypeOK, Types, Numbered, Faults, RowsHaveConversations
<1> QED BY AlwaysBounded, <1>1, PTL

\* However many receivers look before one writes, and whatever is deleted meanwhile: a
\* station has no more conversations than there are receivers, a message no more rows.
THEOREM NoCopyTooMany == Spec => []FewCopies
<1>1. IndInv /\ Bounded => FewCopies
    <2> SUFFICES ASSUME IndInv, Bounded PROVE FewCopies
        OBVIOUS
    <2>1. Cardinality(conversations) <= Cardinality(Receivers) BY IdsSuffice DEF Bounded
    <2>2. ASSUME NEW m \in Messages PROVE Copies(m) <= Cardinality(Receivers)
        <3>1. Inserting(m) \in SUBSET Receivers BY DEF Inserting
        <3>2. /\ Cardinality(Inserting(m)) \in Nat /\ Cardinality(Receivers) \in Nat
              /\ Cardinality(Stored(m)) \in Nat
            BY <3>1, TwoReceivers, FS_CardinalityType DEF Bounded, RoomToInsert
        <3>3. Cardinality(Stored(m)) <= Cardinality(Receivers)
            BY <3>2 DEF Bounded, RoomToInsert
        <3> QED BY <3>3 DEF Copies, Stored
    <2> QED BY <2>1, <2>2 DEF FewCopies
<1> QED BY AlwaysBounded, <1>1, PTL
=============================================================================
