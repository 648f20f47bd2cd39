----------------------- MODULE ConnectionManagerProofs -----------------------
(***************************************************************************)
(* Proofs, for any sockets, users, channels and number of connection       *)
(* losses, of the invariants the runs of ConnectionManager check.          *)
(***************************************************************************)
EXTENDS ConnectionManager, TLAPS

-----------------------------------------------------------------------------
(***************************************************************************)
(* Types.                                                                  *)
(***************************************************************************)

LEMMA OwnerType ==
    /\ \A c \in Conn : Owner[c] \in User
    /\ \A u \in User : Members[u] \in SUBSET Channel
  BY ConfigAssumption

\* _ensure_pubsub keeps every variable it writes within its type.
LEMMA EnsurePubsubType ==
    ASSUME TypeOK, NEW c \in Conn, NEW STATE t, t \in Topic,
           NEW STATE alive, alive \in BOOLEAN, EnsurePubsub(c, t, alive)
    PROVE  /\ tracked' \in SUBSET Topic
           /\ opened' \in BOOLEAN
           /\ subscribed' \in SUBSET Topic
           /\ pc' \in [Conn -> Stage]
           /\ topic' \in [Conn -> Topic]
           /\ snapshot' \in [Conn -> SUBSET Topic]
  BY DEF EnsurePubsub, SubscribeDirectly, CloseDead, IssueSubscribe, TypeOK,
         Stage

\* So do the loops that subscribe.
LEMMA SubscribeChannelsType ==
    ASSUME TypeOK, NEW c \in Conn, NEW STATE roll, roll \in [Channel -> SUBSET User],
           NEW STATE chs, chs \in SUBSET Channel, NEW STATE alive, alive \in BOOLEAN,
           SubscribeChannels(c, roll, chs, alive)
    PROVE  /\ channelUsers' \in [Channel -> SUBSET User]
           /\ channelKeys' \in SUBSET Channel
           /\ tracked' \in SUBSET Topic
           /\ opened' \in BOOLEAN
           /\ subscribed' \in SUBSET Topic
           /\ pc' \in [Conn -> Stage]
           /\ looping' \in SUBSET Conn
           /\ topic' \in [Conn -> Topic]
           /\ pending' \in [Conn -> SUBSET Channel]
           /\ snapshot' \in [Conn -> SUBSET Topic]
<1> USE OwnerType
<1>1. CASE chs \subseteq channelKeys /\ channelUsers' = AddTo(Owner[c], roll, chs)
           /\ pc' = [pc EXCEPT ![c] = "receiving"]
           /\ looping' = looping \cup {c}
           /\ pending' = [pending EXCEPT ![c] = {}]
           /\ UNCHANGED <<channelKeys, tracked, opened, subscribed, topic,
                          snapshot>>
  BY <1>1 DEF AddTo, TypeOK, Stage
<1>2. CASE \E ch \in chs \ channelKeys, before \in SUBSET (chs \cap channelKeys) :
             /\ channelUsers' = [AddTo(Owner[c], roll, before) EXCEPT ![ch] = {}]
             /\ channelKeys' = channelKeys \cup {ch}
             /\ pending' = [pending EXCEPT ![c] = chs \ (before \cup {ch})]
             /\ EnsurePubsub(c, ch, alive)
             /\ UNCHANGED looping
  <2>1. PICK ch \in chs \ channelKeys, before \in SUBSET (chs \cap channelKeys) :
             /\ channelUsers' = [AddTo(Owner[c], roll, before) EXCEPT ![ch] = {}]
             /\ channelKeys' = channelKeys \cup {ch}
             /\ pending' = [pending EXCEPT ![c] = chs \ (before \cup {ch})]
             /\ EnsurePubsub(c, ch, alive)
             /\ UNCHANGED looping
    BY <1>2
  <2>2. ch \in Channel /\ ch \in Topic
    BY DEF Topic
  <2>3. channelUsers' \in [Channel -> SUBSET User]
    BY <2>1 DEF AddTo
  <2>4. QED
    BY <2>1, <2>2, <2>3, EnsurePubsubType DEF TypeOK
<1>3. QED
  BY <1>1, <1>2 DEF SubscribeChannels

\* So does the loop of disconnect.
LEMMA SweepType ==
    ASSUME TypeOK, NEW c \in Conn, NEW STATE chs, chs \in SUBSET Channel, Sweep(c, chs)
    PROVE  /\ channelUsers' \in [Channel -> SUBSET User]
           /\ channelKeys' \in SUBSET Channel
           /\ tracked' \in SUBSET Topic
           /\ opened' \in BOOLEAN
           /\ subscribed' \in SUBSET Topic
           /\ listening' \in BOOLEAN
           /\ orphans' \in SUBSET SUBSET Topic
           /\ superseded' \in SUBSET Conn
           /\ pc' \in [Conn -> Stage]
           /\ topic' \in [Conn -> Topic]
           /\ pending' \in [Conn -> SUBSET Channel]
  BY OwnerType
  DEF Sweep, RemoveFrom, Unsubscribe, TypeOK, Topic, Stage, redis

\* And the exception handling of an endpoint.
LEMMA RaiseType ==
    ASSUME TypeOK, NEW c \in Conn, Raise(c) \/ BeginDisconnect(c)
    PROVE  /\ sockets' \in [User -> SUBSET Conn]
           /\ online' \in SUBSET User
           /\ pc' \in [Conn -> Stage]
  BY OwnerType DEF Raise, BeginDisconnect, TypeOK, Stage, registry

\* And a broken connection.
LEMMA BreakConnectionType ==
    ASSUME TypeOK, BreakConnection
    PROVE  /\ subscribed' \in SUBSET Topic
           /\ listening' \in BOOLEAN
           /\ torn' \in BOOLEAN
           /\ faults' \in Nat
<1>1. torn' \in BOOLEAN
  BY Zenon DEF BreakConnection
<1>2. faults' \in Nat
  BY DEF BreakConnection, TypeOK
<1>3. QED
  BY <1>1, <1>2 DEF BreakConnection, TypeOK

LEMMA InitType == Init => TypeOK
<1> SUFFICES ASSUME Init PROVE TypeOK
  OBVIOUS
<1>1. topic \in [Conn -> Topic]
  BY OwnerType DEF Init, Topic
<1>2. QED
  BY <1>1 DEF Init, TypeOK, Stage

LEMMA NextType == TypeOK /\ [Next]_vars => TypeOK'
<1> SUFFICES ASSUME TypeOK, [Next]_vars PROVE TypeOK'
  OBVIOUS
<1> USE OwnerType
<1>1. ASSUME NEW c \in Conn, Connect(c) PROVE TypeOK'
  BY <1>1 DEF Connect, TypeOK, Stage, roster, redis, history
<1>2. ASSUME NEW c \in Conn, SetPresence(c) PROVE TypeOK'
  <2>1. Owner[c] \in Topic /\ listening \in BOOLEAN
    BY DEF Topic, TypeOK
  <2>2. QED
    BY <1>2, <2>1, EnsurePubsubType
    DEF SetPresence, TypeOK, registry, roster, history
<1>3. ASSUME NEW c \in Conn, Recreate(c) PROVE TypeOK'
  <2>1. orphans' \in SUBSET SUBSET Topic
    BY <1>3 DEF Recreate, TypeOK
  <2>2. superseded' \in SUBSET Conn
    BY <1>3 DEF Recreate, TypeOK
  <2>3. /\ tracked' \in SUBSET Topic
        /\ subscribed' \in SUBSET Topic
        /\ snapshot' \in [Conn -> SUBSET Topic]
        /\ pc' \in [Conn -> Stage]
    BY <1>3 DEF Recreate, IssueSubscribe, TypeOK, Stage
  <2>4. QED
    BY <1>3, <2>1, <2>2, <2>3 DEF Recreate, TypeOK, registry, roster, history
<1>4. ASSUME NEW c \in Conn, Resubscribe(c) PROVE TypeOK'
  BY <1>4 DEF Resubscribe, IssueSubscribe, TypeOK, Stage, registry, roster,
              history
<1>5. ASSUME NEW c \in Conn, UserTopicDone(c) PROVE TypeOK'
  BY <1>5 DEF UserTopicDone, TypeOK, Stage, registry, roster, history
<1>6. ASSUME NEW c \in Conn, ChannelDone(c) PROVE TypeOK'
  <2> DEFINE roll == AddTo(Owner[c], channelUsers, {topic[c]})
  <2>1. roll \in [Channel -> SUBSET User]
    BY DEF TypeOK, AddTo
  <2>2. CASE c \in looping
    BY <1>6, <2>1, <2>2 DEF ChannelDone, TypeOK, Stage, registry, history
  <2>3. CASE c \notin looping
    <3>1. SubscribeChannels(c, roll, pending[c], TRUE)
      BY <1>6, <2>3 DEF ChannelDone
    <3>2. pending[c] \in SUBSET Channel
      BY DEF TypeOK
    <3> HIDE DEF roll
    <3>3. QED
      BY <1>6, <2>1, <3>1, <3>2, SubscribeChannelsType
      DEF ChannelDone, TypeOK, registry, history
  <2>4. QED
    BY <2>2, <2>3
<1>7. ASSUME NEW c \in Conn, ChannelEntryGone(c) PROVE TypeOK'
  BY <1>7, RaiseType DEF ChannelEntryGone, TypeOK, roster, history
<1>8. ASSUME NEW c \in Conn, LoadMembership(c) PROVE TypeOK'
  <2>1. /\ Members[Owner[c]] \in SUBSET Channel
        /\ channelUsers \in [Channel -> SUBSET User]
        /\ listening \in BOOLEAN
    BY DEF TypeOK
  <2>2. SubscribeChannels(c, channelUsers, Members[Owner[c]], listening)
    BY <1>8 DEF LoadMembership
  <2>3. /\ channelUsers' \in [Channel -> SUBSET User]
        /\ channelKeys' \in SUBSET Channel
        /\ tracked' \in SUBSET Topic
        /\ opened' \in BOOLEAN
        /\ subscribed' \in SUBSET Topic
        /\ pc' \in [Conn -> Stage]
        /\ looping' \in SUBSET Conn
        /\ topic' \in [Conn -> Topic]
        /\ pending' \in [Conn -> SUBSET Channel]
        /\ snapshot' \in [Conn -> SUBSET Topic]
    BY <2>1, <2>2, SubscribeChannelsType
  <2>4. QED
    BY <1>8, <2>3 DEF LoadMembership, TypeOK, registry, history
<1>9. ASSUME NEW c \in Conn, NEW ch \in Channel, ReceiveSubscribe(c, ch)
      PROVE  TypeOK'
  <2>1. ch \in Topic /\ listening \in BOOLEAN
    BY DEF Topic, TypeOK
  <2>2. channelUsers' \in [Channel -> SUBSET User]
    BY <1>9 DEF ReceiveSubscribe, AddTo, TypeOK
  <2>3. CASE ch \in channelKeys
    BY <1>9, <2>2, <2>3 DEF ReceiveSubscribe, TypeOK, registry, history
  <2>4. CASE ch \notin channelKeys
    BY <1>9, <2>1, <2>2, <2>4, EnsurePubsubType
    DEF ReceiveSubscribe, TypeOK, registry, history
  <2>5. QED
    BY <2>3, <2>4
<1>10. ASSUME NEW c \in Conn, ReceivePresence(c) PROVE TypeOK'
  BY <1>10 DEF ReceivePresence, TypeOK, registry, roster, redis, history
<1>11. ASSUME NEW c \in Conn, Disconnect(c) PROVE TypeOK'
  BY <1>11, RaiseType DEF Disconnect, TypeOK, roster, redis, history
<1>21. ASSUME NEW c \in Conn, CommandFails(c) PROVE TypeOK'
  <2>1. presence' \in SUBSET User /\ faults' \in Nat
    BY <1>21 DEF CommandFails, CommandLost, TypeOK
  <2>2. QED
    BY <1>21, <2>1, RaiseType DEF CommandFails, TypeOK, roster, redis
<1>22. ASSUME NEW c \in Conn, ClearPresenceFails(c) PROVE TypeOK'
  BY <1>22 DEF ClearPresenceFails, CommandLost, TypeOK, Stage, registry, roster,
               redis
<1>12. ASSUME NEW c \in Conn, ClearPresence(c) PROVE TypeOK'
  BY <1>12 DEF ClearPresence, Unsubscribe, TypeOK, Topic, Stage, registry,
               roster, history
<1>13. ASSUME NEW c \in Conn, SweepChannels(c) PROVE TypeOK'
  <2>1. (IF topic[c] \in User THEN channelKeys ELSE pending[c]) \in SUBSET Channel
    BY DEF TypeOK
  <2>2. QED
    BY <1>13, <2>1, SweepType DEF SweepChannels, TypeOK, registry, history
<1>14. ASSUME NEW c \in Conn, SendFails(c) PROVE TypeOK'
  BY <1>14 DEF SendFails, TypeOK, roster, redis
<1>15. ASSUME NEW c \in Conn, SubscribeFails(c) PROVE TypeOK'
  <2>1. BreakConnection
    BY <1>15 DEF SubscribeFails
  <2>2. QED
    BY <1>15, <2>1, RaiseType, BreakConnectionType
    DEF SubscribeFails, BreakConnection, TypeOK, roster
<1>16. ASSUME NEW u \in User, PresenceExpires(u) PROVE TypeOK'
  BY <1>16 DEF PresenceExpires, TypeOK, registry, roster, redis, history
<1>17. ASSUME ListenerEnds PROVE TypeOK'
  BY <1>17 DEF ListenerEnds, TypeOK, registry, roster, history
<1>18. ASSUME ConnectionBreaks PROVE TypeOK'
  <2>1. BreakConnection
    BY <1>18 DEF ConnectionBreaks
  <2>2. QED
    BY <1>18, <2>1, BreakConnectionType
    DEF ConnectionBreaks, BreakConnection, TypeOK, registry, roster
<1>19. ASSUME UNCHANGED vars PROVE TypeOK'
  BY <1>19 DEF vars, registry, roster, redis, history, TypeOK
<1>20. QED
  BY <1>1, <1>2, <1>3, <1>4, <1>5, <1>6, <1>7, <1>8, <1>9, <1>10, <1>11, <1>12,
     <1>13, <1>14, <1>15, <1>16, <1>17, <1>18, <1>19, <1>21, <1>22
  DEF Next, Endpoint

\* Every variable of the connection manager keeps its type.
THEOREM TypeInvariant == Spec => []TypeOK
<1>1. QED
  BY InitType, NextType, PTL DEF Spec

-----------------------------------------------------------------------------
(***************************************************************************)
(* Recovery of the pubsub.  TrackedIsServed is inductive but for the first *)
(* subscription, made with no pubsub: nothing is tracked before it.        *)
(***************************************************************************)

NothingTrackedYet ==
    ~opened => /\ tracked = {}
               /\ \A c \in Conn : pc[c] \notin {"closing", "resubscribing"}

ServedInv == TypeOK /\ NothingTrackedYet /\ TrackedIsServed

\* The subscription of t by coroutine c, where the listener is known to run or
\* there is no pubsub, leaves every other topic as well covered as it was.
LEMMA EnsurePubsubServed ==
    ASSUME ServedInv, NEW c \in Conn, NEW STATE t, t \in Topic,
           NEW STATE alive, alive \in BOOLEAN, EnsurePubsub(c, t, alive),
           alive => (listening \/ pc[c] = "subscribing"),
           torn' = torn, pc[c] # "closing", pc[c] # "resubscribing"
    PROVE  (NothingTrackedYet /\ TrackedIsServed)'
<1>1. CASE CloseDead(c, alive)
  BY <1>1 DEF CloseDead, ServedInv, TypeOK, NothingTrackedYet, TrackedIsServed,
              Recovering
<1>2. CASE SubscribeDirectly(c, t, alive)
  <2>1. NothingTrackedYet'
    BY <1>2 DEF SubscribeDirectly, NothingTrackedYet
  <2>2. SUFFICES ASSUME ~torn', NEW x \in tracked', x \notin subscribed'
                 PROVE  Recovering(x)'
    BY <2>1 DEF TrackedIsServed
  <2>3. x \in tracked /\ x \notin subscribed
    BY <1>2, <2>2 DEF SubscribeDirectly, IssueSubscribe
  <2>4. Recovering(x)
    BY <2>2, <2>3 DEF ServedInv, TrackedIsServed
  <2>5. opened
    BY <2>3 DEF ServedInv, NothingTrackedYet
  <2>6. listening \/ pc[c] = "subscribing"
    BY <1>2, <2>5 DEF SubscribeDirectly
  <2>7. PICK d \in Conn : pc[d] = "closing"
                          \/ (pc[d] = "resubscribing" /\ x \in snapshot[d])
    BY <2>4, <2>6 DEF Recovering, Subscribing
  <2>8. d # c
    BY <2>7
  <2>9. pc'[d] = pc[d] /\ snapshot'[d] = snapshot[d]
    BY <1>2, <2>8 DEF SubscribeDirectly, IssueSubscribe, ServedInv, TypeOK
  <2>10. QED
    BY <2>7, <2>9 DEF Recovering
<1>3. QED
  BY <1>1, <1>2 DEF EnsurePubsub

\* A step that leaves Redis alone and takes no coroutine into or out of a
\* subscription preserves the invariant.
LEMMA ServedFrame ==
    ASSUME ServedInv, UNCHANGED <<tracked, subscribed, opened, listening, snapshot, torn>>,
           \A d \in Conn : \/ pc'[d] = pc[d]
                           \/ /\ pc[d] \notin Subscribing \cup {"closing"}
                              /\ pc'[d] \notin Subscribing \cup {"closing"}
    PROVE  (NothingTrackedYet /\ TrackedIsServed)'
<1>1. NothingTrackedYet'
  BY DEF ServedInv, NothingTrackedYet, Subscribing
<1>2. SUFFICES ASSUME ~torn', NEW x \in tracked', x \notin subscribed'
               PROVE  Recovering(x)'
  BY <1>1 DEF TrackedIsServed
<1>3. Recovering(x)
  BY <1>2 DEF ServedInv, TrackedIsServed
<1>4. QED
  BY <1>3 DEF Recovering, Subscribing

\* A coroutine that ends its subscription was the reason why nobody could rely
\* on a later rebuild: another one covers whatever is not subscribed.
LEMMA ServedSettle ==
    ASSUME ServedInv, NEW c \in Conn, pc[c] = "subscribing",
           UNCHANGED <<tracked, subscribed, opened, snapshot, torn>>,
           pc'[c] \notin Subscribing \cup {"closing"},
           \A d \in Conn \ {c} : pc'[d] = pc[d]
    PROVE  (NothingTrackedYet /\ TrackedIsServed)'
<1>1. NothingTrackedYet'
  BY DEF ServedInv, NothingTrackedYet, Subscribing
<1>2. SUFFICES ASSUME ~torn', NEW x \in tracked', x \notin subscribed'
               PROVE  Recovering(x)'
  BY <1>1 DEF TrackedIsServed
<1>3. Recovering(x)
  BY <1>2 DEF ServedInv, TrackedIsServed
<1>4. PICK d \in Conn : pc[d] = "closing"
                        \/ (pc[d] = "resubscribing" /\ x \in snapshot[d])
  BY <1>3 DEF Recovering, Subscribing
<1>5. d # c /\ pc'[d] = pc[d]
  BY <1>4
<1>6. QED
  BY <1>4, <1>5 DEF Recovering

LEMMA UnsubscribeServed ==
    ASSUME ServedInv, NEW c \in Conn, NEW STATE t, Unsubscribe(c, t),
           UNCHANGED <<snapshot, torn>>,
           pc[c] \notin Subscribing \cup {"closing"}
    PROVE  (NothingTrackedYet /\ TrackedIsServed)'
<1>1. NothingTrackedYet'
  BY DEF ServedInv, NothingTrackedYet, Unsubscribe, TypeOK
<1>2. SUFFICES ASSUME ~torn', NEW x \in tracked', x \notin subscribed'
               PROVE  Recovering(x)'
  BY <1>1 DEF TrackedIsServed
<1>3. x \in tracked /\ x \notin subscribed
  BY <1>2 DEF Unsubscribe
<1>4. Recovering(x)
  BY <1>2, <1>3 DEF ServedInv, TrackedIsServed
<1>5. \A d \in Conn : \/ pc'[d] = pc[d]
                      \/ /\ pc[d] \notin Subscribing \cup {"closing"}
                         /\ pc'[d] \notin Subscribing \cup {"closing"}
  BY DEF Unsubscribe, ServedInv, TypeOK, Subscribing
<1>6. QED
  BY <1>4, <1>5 DEF Recovering, Unsubscribe, Subscribing

\* When the connection breaks outside any subscription nobody listens and
\* nobody subscribes: the next one to do so rebuilds.
LEMMA BreakConnectionServed ==
    ASSUME ServedInv, BreakConnection,
           \/ UNCHANGED pc
           \/ \E c \in Conn : pc[c] \in Subscribing
    PROVE  (NothingTrackedYet /\ TrackedIsServed)'
<1>1. NothingTrackedYet'
  BY DEF NothingTrackedYet, BreakConnection
<1>2. CASE \E c \in Conn : pc[c] \in Subscribing
  <2>1. torn'
    BY <1>2 DEF BreakConnection
  <2>2. QED
    BY <1>1, <2>1 DEF TrackedIsServed
<1>3. CASE UNCHANGED pc /\ ~ \E c \in Conn : pc[c] \in Subscribing
  BY <1>1, <1>3 DEF BreakConnection, TrackedIsServed, Recovering
<1>4. QED
  BY <1>2, <1>3

\* disconnect's first steps leave the subscriptions alone.
LEMMA RaiseStage ==
    ASSUME TypeOK, NEW c \in Conn, Raise(c) \/ BeginDisconnect(c)
    PROVE  /\ pc'[c] \in {"unpresence", "gone", "crashed"}
           /\ \A d \in Conn \ {c} : pc'[d] = pc[d]
  BY DEF Raise, BeginDisconnect, TypeOK

\* The loops that subscribe, entered from the membership query or from the
\* subscription of the previous channel.
LEMMA SubscribeChannelsServed ==
    ASSUME ServedInv, NEW c \in Conn, NEW STATE roll, NEW STATE chs, chs \in SUBSET Channel,
           NEW STATE alive, alive \in BOOLEAN, SubscribeChannels(c, roll, chs, alive),
           UNCHANGED torn,
           \/ pc[c] = "loading" /\ alive = listening /\ UNCHANGED listening
           \/ pc[c] = "subscribing"
    PROVE  (NothingTrackedYet /\ TrackedIsServed)'
<1>1. CASE pc' = [pc EXCEPT ![c] = "receiving"]
           /\ UNCHANGED <<tracked, opened, subscribed, snapshot>>
  <2>1. pc'[c] = "receiving" /\ \A d \in Conn \ {c} : pc'[d] = pc[d]
    BY <1>1 DEF ServedInv, TypeOK
  <2>2. CASE pc[c] = "subscribing"
    BY <1>1, <2>1, <2>2, ServedSettle DEF Subscribing
  <2>3. CASE pc[c] = "loading" /\ UNCHANGED listening
    BY <1>1, <2>1, <2>3, ServedFrame DEF Subscribing
  <2>4. QED
    BY <2>2, <2>3
<1>2. CASE \E ch \in chs : EnsurePubsub(c, ch, alive)
  <2>1. PICK ch \in chs : EnsurePubsub(c, ch, alive)
    BY <1>2
  <2>2. ch \in Topic
    BY DEF Topic
  <2>3. /\ alive => (listening \/ pc[c] = "subscribing")
        /\ pc[c] # "closing"
        /\ pc[c] # "resubscribing"
    OBVIOUS
  <2>4. QED
    BY <2>1, <2>2, <2>3, EnsurePubsubServed
<1>3. QED
  BY <1>1, <1>2 DEF SubscribeChannels

LEMMA ServedNext == ServedInv /\ [Next]_vars => (NothingTrackedYet /\ TrackedIsServed)'
<1> SUFFICES ASSUME ServedInv, [Next]_vars
             PROVE  (NothingTrackedYet /\ TrackedIsServed)'
  OBVIOUS
<1> DEFINE Goal == (NothingTrackedYet /\ TrackedIsServed)'
<1> USE OwnerType
<1>0. TypeOK
  BY DEF ServedInv
<1>1. ASSUME NEW c \in Conn, Connect(c) PROVE Goal
  BY <1>0, <1>1, ServedFrame DEF Connect, TypeOK, Subscribing, redis, history
<1>2. ASSUME NEW c \in Conn, SetPresence(c) PROVE Goal
  <2>1. Owner[c] \in Topic /\ listening \in BOOLEAN
    BY <1>0 DEF Topic, TypeOK
  <2>2. /\ EnsurePubsub(c, Owner[c], listening)
        /\ pc[c] # "closing"
        /\ pc[c] # "resubscribing"
        /\ torn' = torn
    BY <1>2 DEF SetPresence, history
  <2>3. QED
    BY <2>1, <2>2, EnsurePubsubServed
<1>3. ASSUME NEW c \in Conn, Recreate(c) PROVE Goal
  <2>1. NothingTrackedYet'
    BY <1>3 DEF Recreate, NothingTrackedYet, ServedInv
  <2>2. SUFFICES ASSUME NEW x \in tracked', x \notin subscribed'
                 PROVE  Recovering(x)'
    BY <2>1 DEF TrackedIsServed
  <2>3. PICK t \in tracked : /\ subscribed' = {t}
                             /\ snapshot' = [snapshot EXCEPT ![c] = tracked \ {t}]
                             /\ pc' = [pc EXCEPT ![c] = "resubscribing"]
                             /\ UNCHANGED tracked
    BY <1>3, <2>2 DEF Recreate, IssueSubscribe
  <2>4. pc'[c] = "resubscribing" /\ x \in snapshot'[c]
    BY <1>0, <2>2, <2>3 DEF TypeOK
  <2>5. QED
    BY <2>4 DEF Recovering
<1>4. ASSUME NEW c \in Conn, Resubscribe(c) PROVE Goal
  <2>1. NothingTrackedYet'
    BY <1>0, <1>4 DEF Resubscribe, NothingTrackedYet, ServedInv
  <2>2. SUFFICES ASSUME ~torn', NEW x \in tracked', x \notin subscribed'
                 PROVE  Recovering(x)'
    BY <2>1 DEF TrackedIsServed
  <2>3. x \in tracked /\ x \notin subscribed
    BY <1>4, <2>2 DEF Resubscribe, IssueSubscribe
  <2>4. Recovering(x)
    BY <1>4, <2>2, <2>3 DEF ServedInv, TrackedIsServed, Resubscribe, history
  <2>5. PICK d \in Conn : pc[d] = "closing"
                          \/ (pc[d] = "resubscribing" /\ x \in snapshot[d])
    BY <1>4, <2>4 DEF Recovering, Subscribing, Resubscribe
  <2>6. CASE d # c
    <3>1. pc'[d] = pc[d] /\ snapshot'[d] = snapshot[d]
      BY <1>0, <1>4, <2>6 DEF Resubscribe, IssueSubscribe, TypeOK
    <3>2. QED
      BY <2>5, <3>1 DEF Recovering
  <2>7. CASE d = c
    <3>1. x \in snapshot[c]
      BY <1>4, <2>5, <2>7 DEF Resubscribe
    <3>2. PICK t \in snapshot[c] : /\ subscribed' = subscribed \cup {t}
                                   /\ snapshot' = [snapshot EXCEPT ![c] = @ \ {t}]
                                   /\ UNCHANGED <<tracked, pc>>
      BY <1>4, <3>1 DEF Resubscribe
    <3>3. pc'[c] = "resubscribing" /\ x \in snapshot'[c]
      BY <1>0, <1>4, <2>2, <3>1, <3>2 DEF Resubscribe, TypeOK
    <3>4. QED
      BY <3>3 DEF Recovering
  <2>8. QED
    BY <2>6, <2>7
<1>5. ASSUME NEW c \in Conn, UserTopicDone(c) PROVE Goal
  <2>1. pc'[c] = "loading" /\ \A d \in Conn \ {c} : pc'[d] = pc[d]
    BY <1>0, <1>5 DEF UserTopicDone, TypeOK
  <2>2. QED
    BY <1>5, <2>1, ServedSettle DEF UserTopicDone, Subscribing, history
<1>6. ASSUME NEW c \in Conn, ChannelDone(c) PROVE Goal
  <2>1. CASE c \in looping
    <3>1. pc'[c] = "receiving" /\ \A d \in Conn \ {c} : pc'[d] = pc[d]
      BY <1>0, <1>6, <2>1 DEF ChannelDone, TypeOK
    <3>2. QED
      BY <1>6, <2>1, <3>1, ServedSettle DEF ChannelDone, Subscribing, history
  <2>2. CASE c \notin looping
    <3> DEFINE roll == AddTo(Owner[c], channelUsers, {topic[c]})
    <3>1. SubscribeChannels(c, roll, pending[c], TRUE)
      BY <1>6, <2>2 DEF ChannelDone
    <3>2. pending[c] \in SUBSET Channel
      BY <1>0 DEF TypeOK
    <3>3. UNCHANGED torn /\ pc[c] = "subscribing"
      BY <1>6 DEF ChannelDone, history
    <3> HIDE DEF roll
    <3>4. QED
      BY <3>1, <3>2, <3>3, SubscribeChannelsServed
  <2>3. QED
    BY <2>1, <2>2
<1>7. ASSUME NEW c \in Conn, ChannelEntryGone(c) PROVE Goal
  BY <1>0, <1>7, RaiseStage, ServedSettle
  DEF ChannelEntryGone, Subscribing, history
<1>8. ASSUME NEW c \in Conn, LoadMembership(c) PROVE Goal
  <2>1. Members[Owner[c]] \in SUBSET Channel /\ listening \in BOOLEAN
    BY <1>0 DEF TypeOK
  <2>2. /\ SubscribeChannels(c, channelUsers, Members[Owner[c]], listening)
        /\ UNCHANGED <<torn, listening>>
        /\ pc[c] = "loading"
    BY <1>8 DEF LoadMembership, history
  <2>3. QED
    BY <2>1, <2>2, SubscribeChannelsServed
<1>9. ASSUME NEW c \in Conn, NEW ch \in Channel, ReceiveSubscribe(c, ch)
      PROVE  Goal
  <2>1. CASE ch \in channelKeys
    BY <1>9, <2>1, ServedFrame DEF ReceiveSubscribe, history
  <2>2. CASE ch \notin channelKeys
    <3>1. ch \in Topic /\ listening \in BOOLEAN
      BY <1>0 DEF Topic, TypeOK
    <3>2. /\ EnsurePubsub(c, ch, listening)
          /\ pc[c] # "closing"
          /\ pc[c] # "resubscribing"
          /\ torn' = torn
      BY <1>9, <2>2 DEF ReceiveSubscribe, history
    <3>3. QED
      BY <3>1, <3>2, EnsurePubsubServed
  <2>3. QED
    BY <2>1, <2>2
<1>10. ASSUME NEW c \in Conn, ReceivePresence(c) PROVE Goal
  BY <1>10, ServedFrame DEF ReceivePresence, redis, history
<1>11. ASSUME NEW c \in Conn, Disconnect(c) PROVE Goal
  <2>1. \A d \in Conn : \/ pc'[d] = pc[d]
                        \/ /\ pc[d] \notin Subscribing \cup {"closing"}
                           /\ pc'[d] \notin Subscribing \cup {"closing"}
    BY <1>0, <1>11, RaiseStage DEF Disconnect, Subscribing
  <2>2. QED
    BY <1>11, <2>1, ServedFrame DEF Disconnect, redis, history
<1>21. ASSUME NEW c \in Conn, CommandFails(c) PROVE Goal
  <2>1. \A d \in Conn : \/ pc'[d] = pc[d]
                        \/ /\ pc[d] \notin Subscribing \cup {"closing"}
                           /\ pc'[d] \notin Subscribing \cup {"closing"}
    BY <1>0, <1>21, RaiseStage DEF CommandFails, Subscribing
  <2>2. QED
    BY <1>21, <2>1, ServedFrame DEF CommandFails, redis
<1>22. ASSUME NEW c \in Conn, ClearPresenceFails(c) PROVE Goal
  <2>1. \A d \in Conn : \/ pc'[d] = pc[d]
                        \/ /\ pc[d] \notin Subscribing \cup {"closing"}
                           /\ pc'[d] \notin Subscribing \cup {"closing"}
    BY <1>0, <1>22 DEF ClearPresenceFails, TypeOK, Subscribing
  <2>2. QED
    BY <1>22, <2>1, ServedFrame DEF ClearPresenceFails, redis
<1>12. ASSUME NEW c \in Conn, ClearPresence(c) PROVE Goal
  <2>1. /\ Unsubscribe(c, Owner[c])
        /\ UNCHANGED <<snapshot, torn>>
        /\ pc[c] \notin Subscribing \cup {"closing"}
    BY <1>12 DEF ClearPresence, Subscribing, history
  <2>2. QED
    BY <2>1, UnsubscribeServed
<1>13. ASSUME NEW c \in Conn, SweepChannels(c) PROVE Goal
  <2>1. /\ UNCHANGED <<snapshot, torn>>
        /\ pc[c] \notin Subscribing \cup {"closing"}
    BY <1>13 DEF SweepChannels, Subscribing, history
  <2>2. CASE \E ch : Unsubscribe(c, ch)
    <3>1. PICK ch : Unsubscribe(c, ch)
      BY <2>2
    <3>2. QED
      BY <2>1, <3>1, UnsubscribeServed
  <2>3. CASE pc' = [pc EXCEPT ![c] = "gone"] /\ UNCHANGED redis
    <3>1. \A d \in Conn : \/ pc'[d] = pc[d]
                          \/ /\ pc[d] \notin Subscribing \cup {"closing"}
                             /\ pc'[d] \notin Subscribing \cup {"closing"}
      BY <1>0, <2>1, <2>3 DEF TypeOK, Subscribing
    <3>2. QED
      BY <2>1, <2>3, <3>1, ServedFrame DEF redis
  <2>4. QED
    BY <1>13, <2>2, <2>3 DEF SweepChannels, Sweep
<1>14. ASSUME NEW c \in Conn, SendFails(c) PROVE Goal
  BY <1>14, ServedFrame DEF SendFails, redis
<1>15. ASSUME NEW c \in Conn, SubscribeFails(c) PROVE Goal
  BY <1>15, BreakConnectionServed DEF SubscribeFails
<1>16. ASSUME NEW u \in User, PresenceExpires(u) PROVE Goal
  BY <1>16, ServedFrame DEF PresenceExpires, redis, history
<1>17. ASSUME ListenerEnds PROVE Goal
  <2>1. NothingTrackedYet'
    BY <1>17 DEF ListenerEnds, ServedInv, NothingTrackedYet
  <2>2. \A x : Recovering(x) => Recovering(x)'
    BY <1>17 DEF ListenerEnds, Recovering
  <2>3. QED
    BY <1>17, <2>1, <2>2
    DEF ListenerEnds, ServedInv, TrackedIsServed, history
<1>18. ASSUME ConnectionBreaks PROVE Goal
  BY <1>18, BreakConnectionServed DEF ConnectionBreaks
<1>19. ASSUME UNCHANGED vars PROVE Goal
  BY <1>19, ServedFrame DEF vars, redis, history
<1>20. QED
  BY <1>1, <1>2, <1>3, <1>4, <1>5, <1>6, <1>7, <1>8, <1>9, <1>10, <1>11, <1>12,
     <1>13, <1>14, <1>15, <1>16, <1>17, <1>18, <1>19, <1>21, <1>22
  DEF Next, Endpoint

\* However many coroutines race to replace a dead pubsub, no tracked topic is
\* forgotten, unless a subscription in progress was torn by a connection loss.
THEOREM TrackedIsAlwaysServed == Spec => []TrackedIsServed
<1>1. Init => ServedInv
  BY InitType DEF Init, ServedInv, NothingTrackedYet, TrackedIsServed
<1>2. ServedInv /\ [Next]_vars => ServedInv'
  BY NextType, ServedNext DEF ServedInv
<1>3. ServedInv => TrackedIsServed
  BY DEF ServedInv
<1>4. QED
  BY <1>1, <1>2, <1>3, PTL DEF Spec

-----------------------------------------------------------------------------
(***************************************************************************)
(* The registry and the roster.                                            *)
(***************************************************************************)

\* A coroutine past connect and not disconnecting is registered, or a failed
\* send has dropped its socket.
Registered ==
    \A c \in Conn :
        pc[c] \notin Leaving \cup {"new"} =>
            c \in sockets[Owner[c]] \/ c \in dropped

\* _connections holds a user's own sockets, under a key of its own.
OwnSockets ==
    \A u \in User : \A c \in sockets[u] : Owner[c] = u /\ u \in online

\* The users listed for a channel are listed under a key of _channel_users.
RosterKeyed ==
    \A ch \in Channel : channelUsers[ch] # {} => ch \in channelKeys

RegistryInv ==
    /\ TypeOK
    /\ Registered
    /\ OwnSockets
    /\ NoGhostSocket
    /\ PresenceHasCause

\* disconnect's first steps hand the user's entries over to another registered
\* socket or to their own cleanup.
LEMMA BeginDisconnectRegistry ==
    ASSUME RegistryInv, NEW c \in Conn, BeginDisconnect(c),
           pc[c] \notin Leaving \cup {"new"}, UNCHANGED <<dropped, skipped>>,
           presence' \subseteq presence \cup {Owner[c]}
    PROVE  (Registered /\ OwnSockets /\ NoGhostSocket /\ PresenceHasCause)'
<1> USE OwnerType
<1> DEFINE u == Owner[c]
           left == sockets[u] \ {c}
           last == u \in online /\ left = {}
<1>1. /\ sockets' = [sockets EXCEPT ![u] = left]
      /\ online' = IF last THEN online \ {u} ELSE online
      /\ pc' = [pc EXCEPT ![c] = IF last THEN "unpresence" ELSE "gone"]
  BY DEF BeginDisconnect
<1>2. /\ sockets'[u] = left
      /\ \A v \in User \ {u} : sockets'[v] = sockets[v]
      /\ pc'[c] \in {"unpresence", "gone"}
      /\ \A d \in Conn \ {c} : pc'[d] = pc[d]
  BY <1>1 DEF RegistryInv, TypeOK
<1>3. Registered'
  BY <1>2 DEF RegistryInv, Registered, Leaving
<1>4. OwnSockets'
  BY <1>1, <1>2 DEF RegistryInv, OwnSockets
<1>5. NoGhostSocket'
  BY <1>2 DEF RegistryInv, NoGhostSocket
<1>6. PresenceHasCause'
  <2>1. SUFFICES ASSUME NEW v \in presence', v \notin skipped
                 PROVE  \E d \in Conn : /\ Owner[d] = v
                                        /\ \/ d \in sockets'[v]
                                           \/ d \in dropped
                                           \/ pc'[d] = "unpresence"
    BY DEF PresenceHasCause
  <2>2. PICK d \in Conn : /\ Owner[d] = v
                          /\ \/ d \in sockets[v]
                             \/ d \in dropped
                             \/ pc[d] = "unpresence"
    <3>1. CASE v \in presence
      BY <2>1, <3>1 DEF RegistryInv, PresenceHasCause
    <3>2. CASE v = Owner[c]
      BY <3>2 DEF RegistryInv, Registered
    <3>3. QED
      BY <2>1, <3>1, <3>2
  <2>3. CASE d # c
    BY <1>2, <2>2, <2>3
  <2>4. CASE d = c /\ d \in dropped
    BY <2>2, <2>4
  <2>5. CASE d = c /\ d \in sockets[v]
    <3>1. v = u /\ u \in online
      BY <2>2, <2>5 DEF RegistryInv, OwnSockets
    <3>2. CASE left = {}
      <4>1. pc'[c] = "unpresence"
        BY <1>1, <3>1, <3>2 DEF RegistryInv, TypeOK
      <4>2. QED
        BY <2>2, <2>5, <4>1
    <3>3. CASE left # {}
      <4>1. PICK e \in left : TRUE
        BY <3>3
      <4>2. e \in Conn /\ Owner[e] = u /\ e \in sockets'[u]
        BY <1>2, <4>1 DEF RegistryInv, TypeOK, OwnSockets
      <4>3. QED
        BY <3>1, <4>2
    <3>4. QED
      BY <3>2, <3>3
  <2>6. CASE d = c /\ pc[d] = "unpresence" /\ d \notin sockets[v] /\ d \notin dropped
    BY <2>6 DEF Leaving
  <2>7. QED
    BY <2>2, <2>3, <2>4, <2>5, <2>6
<1>7. QED
  BY <1>3, <1>4, <1>5, <1>6

\* An exception outside the receive loop only marks the coroutine as crashed.
LEMMA RaiseRegistry ==
    ASSUME RegistryInv, NEW c \in Conn, Raise(c),
           pc[c] \notin Leaving \cup {"new"}, UNCHANGED <<dropped, skipped>>,
           presence' \subseteq presence \cup {Owner[c]}
    PROVE  (Registered /\ OwnSockets /\ NoGhostSocket /\ PresenceHasCause)'
<1>1. CASE BeginDisconnect(c)
  BY <1>1, BeginDisconnectRegistry
<1>2. CASE pc' = [pc EXCEPT ![c] = "crashed"] /\ UNCHANGED registry
  <2>1. /\ pc'[c] = "crashed"
        /\ \A d \in Conn \ {c} : pc'[d] = pc[d]
        /\ UNCHANGED <<sockets, online>>
    BY <1>2 DEF RegistryInv, TypeOK, registry
  <2>2. Registered'
    BY <2>1 DEF RegistryInv, Registered, Leaving
  <2>3. OwnSockets' /\ NoGhostSocket'
    BY <2>1 DEF RegistryInv, OwnSockets, NoGhostSocket, Leaving
  <2>4. PresenceHasCause'
    BY <2>1, OwnerType
    DEF RegistryInv, Registered, PresenceHasCause, Leaving
  <2>5. QED
    BY <2>2, <2>3, <2>4
<1>3. QED
  BY <1>1, <1>2 DEF Raise

\* A step of c that neither registers nor disconnects: it stays on its side of
\* Leaving, and is not about to delete a presence key that outlives the step.
LEMMA RegistryFrame ==
    ASSUME RegistryInv, NEW c \in Conn, UNCHANGED <<sockets, online, dropped>>,
           skipped \ {Owner[c]} \subseteq skipped',
           Owner[c] \notin presence' \/ skipped \subseteq skipped',
           pc[c] # "new", pc[c] \in Leaving <=> pc'[c] \in Leaving,
           \A d \in Conn \ {c} : pc'[d] = pc[d],
           \A u \in presence' :
                \/ u \in presence /\ (u # Owner[c] \/ pc[c] # "unpresence"
                                                  \/ pc'[c] = "unpresence")
                \/ u \in skipped'
                \/ u = Owner[c] /\ pc[c] \notin Leaving
    PROVE  (Registered /\ OwnSockets /\ NoGhostSocket /\ PresenceHasCause)'
<1>1. Registered'
  BY DEF RegistryInv, Registered
<1>2. OwnSockets' /\ NoGhostSocket'
  BY DEF RegistryInv, OwnSockets, NoGhostSocket
<1>3. PresenceHasCause'
  <2>1. SUFFICES ASSUME NEW v \in presence', v \notin skipped'
                 PROVE  \E d \in Conn : /\ Owner[d] = v
                                        /\ \/ d \in sockets[v]
                                           \/ d \in dropped
                                           \/ pc'[d] = "unpresence"
    BY DEF PresenceHasCause
  <2>2. CASE v \in presence /\ (v # Owner[c] \/ pc[c] # "unpresence"
                                             \/ pc'[c] = "unpresence")
    <3>0. v \notin skipped
      BY <2>1
    <3>1. PICK d \in Conn : /\ Owner[d] = v
                            /\ \/ d \in sockets[v]
                               \/ d \in dropped
                               \/ pc[d] = "unpresence"
      BY <2>2, <3>0 DEF RegistryInv, PresenceHasCause
    <3>2. CASE d = c
      BY <2>2, <3>1, <3>2
    <3>3. CASE d # c
      BY <3>1, <3>3
    <3>4. QED
      BY <3>2, <3>3
  <2>3. CASE v = Owner[c] /\ pc[c] \notin Leaving
    BY <2>3 DEF RegistryInv, Registered
  <2>4. QED
    BY <2>1, <2>2, <2>3
<1>4. QED
  BY <1>1, <1>2, <1>3

\* The stage a subscription leads to is still before any disconnect.
LEMMA SubscribeStage ==
    ASSUME TypeOK, NEW c \in Conn, NEW STATE t, NEW STATE alive,
           EnsurePubsub(c, t, alive)
    PROVE  pc'[c] \notin Leaving /\ \A d \in Conn \ {c} : pc'[d] = pc[d]
  BY DEF EnsurePubsub, SubscribeDirectly, CloseDead, IssueSubscribe, TypeOK,
         Leaving

LEMMA SubscribeChannelsStage ==
    ASSUME TypeOK, NEW c \in Conn, NEW STATE roll, NEW STATE chs,
           NEW STATE alive, SubscribeChannels(c, roll, chs, alive)
    PROVE  pc'[c] \notin Leaving /\ \A d \in Conn \ {c} : pc'[d] = pc[d]
<1>1. CASE pc' = [pc EXCEPT ![c] = "receiving"]
  BY <1>1 DEF TypeOK, Leaving
<1>2. CASE \E t : EnsurePubsub(c, t, alive)
  <2>1. PICK t : EnsurePubsub(c, t, alive)
    BY <1>2
  <2>2. QED
    BY <2>1, SubscribeStage
<1>3. QED
  BY <1>1, <1>2 DEF SubscribeChannels

LEMMA RegistryNext == RegistryInv /\ [Next]_vars => RegistryInv'
<1> SUFFICES ASSUME RegistryInv, [Next]_vars PROVE RegistryInv'
  OBVIOUS
<1> DEFINE Goal == (Registered /\ OwnSockets /\ NoGhostSocket /\ PresenceHasCause)'
<1> USE OwnerType
<1>0. TypeOK /\ TypeOK'
  BY NextType DEF RegistryInv
<1>1. ASSUME NEW c \in Conn, Connect(c) PROVE Goal
  <2>1. /\ pc'[c] = "presence" /\ pc[c] = "new"
        /\ \A d \in Conn \ {c} : pc'[d] = pc[d]
        /\ sockets'[Owner[c]] = sockets[Owner[c]] \cup {c}
        /\ \A v \in User \ {Owner[c]} : sockets'[v] = sockets[v]
        /\ online' = online \cup {Owner[c]}
        /\ UNCHANGED <<dropped, skipped, presence>>
    BY <1>0, <1>1 DEF Connect, TypeOK, history
  <2>2. Registered'
    BY <2>1 DEF RegistryInv, Registered
  <2>3. OwnSockets'
    BY <2>1 DEF RegistryInv, OwnSockets
  <2>4. NoGhostSocket'
    BY <2>1 DEF RegistryInv, NoGhostSocket, Leaving
  <2>5. PresenceHasCause'
    BY <1>0, <2>1 DEF RegistryInv, PresenceHasCause, TypeOK
  <2>6. QED
    BY <2>2, <2>3, <2>4, <2>5
<1>2. ASSUME NEW c \in Conn, SetPresence(c) PROVE Goal
  <2>1. pc'[c] \notin Leaving /\ \A d \in Conn \ {c} : pc'[d] = pc[d]
    BY <1>0, <1>2, SubscribeStage DEF SetPresence
  <2>2. QED
    BY <1>2, <2>1, RegistryFrame DEF SetPresence, registry, history, Leaving
<1>3. ASSUME NEW c \in Conn, Recreate(c) PROVE Goal
  <2>1. pc'[c] \notin Leaving /\ \A d \in Conn \ {c} : pc'[d] = pc[d]
    BY <1>0, <1>3 DEF Recreate, IssueSubscribe, TypeOK, Leaving
  <2>2. QED
    BY <1>3, <2>1, RegistryFrame DEF Recreate, registry, history, Leaving
<1>4. ASSUME NEW c \in Conn, Resubscribe(c) PROVE Goal
  <2>1. pc'[c] \notin Leaving /\ \A d \in Conn \ {c} : pc'[d] = pc[d]
    BY <1>0, <1>4 DEF Resubscribe, IssueSubscribe, TypeOK, Leaving
  <2>2. QED
    BY <1>4, <2>1, RegistryFrame DEF Resubscribe, registry, history, Leaving
<1>5. ASSUME NEW c \in Conn, UserTopicDone(c) PROVE Goal
  <2>1. pc'[c] \notin Leaving /\ \A d \in Conn \ {c} : pc'[d] = pc[d]
    BY <1>0, <1>5 DEF UserTopicDone, TypeOK, Leaving
  <2>2. QED
    BY <1>5, <2>1, RegistryFrame DEF UserTopicDone, registry, history, Leaving
<1>6. ASSUME NEW c \in Conn, ChannelDone(c) PROVE Goal
  <2>1. pc'[c] \notin Leaving /\ \A d \in Conn \ {c} : pc'[d] = pc[d]
    <3>1. CASE c \in looping
      BY <1>0, <1>6, <3>1 DEF ChannelDone, TypeOK, Leaving
    <3>2. CASE c \notin looping
      <4>1. SubscribeChannels(c, AddTo(Owner[c], channelUsers, {topic[c]}),
                              pending[c], TRUE)
        BY <1>6, <3>2 DEF ChannelDone
      <4>2. QED
        BY <1>0, <4>1, SubscribeChannelsStage
    <3>3. QED
      BY <3>1, <3>2
  <2>2. QED
    BY <1>6, <2>1, RegistryFrame DEF ChannelDone, registry, history, Leaving
<1>7. ASSUME NEW c \in Conn, ChannelEntryGone(c) PROVE Goal
  BY <1>7, RaiseRegistry DEF ChannelEntryGone, Leaving, history
<1>8. ASSUME NEW c \in Conn, LoadMembership(c) PROVE Goal
  <2>1. SubscribeChannels(c, channelUsers, Members[Owner[c]], listening)
    BY <1>8 DEF LoadMembership
  <2>2. pc'[c] \notin Leaving /\ \A d \in Conn \ {c} : pc'[d] = pc[d]
    BY <1>0, <2>1, SubscribeChannelsStage
  <2>3. QED
    BY <1>8, <2>2, RegistryFrame DEF LoadMembership, registry, history, Leaving
<1>9. ASSUME NEW c \in Conn, NEW ch \in Channel, ReceiveSubscribe(c, ch)
      PROVE  Goal
  <2>1. pc'[c] \notin Leaving /\ \A d \in Conn \ {c} : pc'[d] = pc[d]
    <3>1. CASE UNCHANGED pc
      BY <1>9, <3>1 DEF ReceiveSubscribe, Leaving
    <3>2. CASE EnsurePubsub(c, ch, listening)
      BY <1>0, <3>2, SubscribeStage
    <3>3. QED
      BY <1>9, <3>1, <3>2 DEF ReceiveSubscribe
  <2>2. QED
    BY <1>9, <2>1, RegistryFrame
    DEF ReceiveSubscribe, registry, history, Leaving
<1>10. ASSUME NEW c \in Conn, ReceivePresence(c) PROVE Goal
  BY <1>10, RegistryFrame DEF ReceivePresence, registry, history, Leaving
<1>11. ASSUME NEW c \in Conn, Disconnect(c) PROVE Goal
  BY <1>11, BeginDisconnectRegistry DEF Disconnect, Leaving, history
<1>22. ASSUME NEW c \in Conn, CommandFails(c) PROVE Goal
  <2>1. /\ presence' \subseteq presence \cup {Owner[c]}
        /\ UNCHANGED <<dropped, skipped>>
        /\ pc[c] \notin Leaving \cup {"new"}
    BY <1>22 DEF CommandFails, Leaving
  <2>2. QED
    BY <1>22, <2>1, RaiseRegistry DEF CommandFails
<1>23. ASSUME NEW c \in Conn, ClearPresenceFails(c) PROVE Goal
  <2>1. pc'[c] = "gone" /\ \A d \in Conn \ {c} : pc'[d] = pc[d]
    BY <1>0, <1>23 DEF ClearPresenceFails, TypeOK
  <2>2. /\ UNCHANGED <<sockets, online, dropped>>
        /\ skipped' = skipped \cup {Owner[c]}
        /\ presence' \subseteq presence
        /\ pc[c] = "unpresence"
    BY <1>23 DEF ClearPresenceFails, registry
  <2>3. QED
    BY <2>1, <2>2, RegistryFrame DEF Leaving
<1>12. ASSUME NEW c \in Conn, ClearPresence(c) PROVE Goal
  <2>1. pc'[c] = "unsubscribing" /\ \A d \in Conn \ {c} : pc'[d] = pc[d]
    BY <1>0, <1>12 DEF ClearPresence, Unsubscribe, TypeOK
  <2>2. QED
    BY <1>12, <2>1, RegistryFrame DEF ClearPresence, registry, history, Leaving
<1>13. ASSUME NEW c \in Conn, SweepChannels(c) PROVE Goal
  <2>1. pc'[c] \in Leaving /\ \A d \in Conn \ {c} : pc'[d] = pc[d]
    BY <1>0, <1>13 DEF SweepChannels, Sweep, Unsubscribe, TypeOK, Leaving
  <2>2. QED
    BY <1>13, <2>1, RegistryFrame DEF SweepChannels, registry, history, Leaving
<1>14. ASSUME NEW c \in Conn, SendFails(c) PROVE Goal
  <2>1. /\ sockets'[Owner[c]] = sockets[Owner[c]] \ {c}
        /\ \A v \in User \ {Owner[c]} : sockets'[v] = sockets[v]
        /\ dropped' = dropped \cup {c}
        /\ UNCHANGED <<online, presence, pc, skipped>>
    BY <1>0, <1>14 DEF SendFails, TypeOK
  <2>2. Registered'
    BY <2>1 DEF RegistryInv, Registered
  <2>3. OwnSockets'
    BY <2>1 DEF RegistryInv, OwnSockets
  <2>4. NoGhostSocket'
    BY <2>1 DEF RegistryInv, NoGhostSocket
  <2>5. PresenceHasCause'
    BY <1>0, <2>1 DEF RegistryInv, PresenceHasCause, TypeOK
  <2>6. QED
    BY <2>2, <2>3, <2>4, <2>5
<1>15. ASSUME NEW c \in Conn, SubscribeFails(c) PROVE Goal
  BY <1>15, RaiseRegistry
  DEF SubscribeFails, BreakConnection, Subscribing, Leaving
<1>16. ASSUME UNCHANGED <<sockets, online, dropped, skipped, pc>>,
              presence' \subseteq presence
       PROVE  Goal
  BY <1>16
  DEF RegistryInv, Registered, OwnSockets, NoGhostSocket, PresenceHasCause
<1>17. ASSUME NEW u \in User, PresenceExpires(u) PROVE Goal
  BY <1>16, <1>17 DEF PresenceExpires, registry, history
<1>18. ASSUME ListenerEnds PROVE Goal
  BY <1>16, <1>18 DEF ListenerEnds, registry, history
<1>19. ASSUME ConnectionBreaks PROVE Goal
  BY <1>16, <1>19 DEF ConnectionBreaks, BreakConnection, registry
<1>20. ASSUME UNCHANGED vars PROVE Goal
  BY <1>16, <1>20 DEF vars, registry, history
<1>21. QED
  BY <1>0, <1>1, <1>2, <1>3, <1>4, <1>5, <1>6, <1>7, <1>8, <1>9, <1>10, <1>11,
     <1>12, <1>13, <1>14, <1>15, <1>17, <1>18, <1>19, <1>20, <1>22, <1>23
  DEF Next, Endpoint, RegistryInv

LEMMA RegistryInductive == Spec => []RegistryInv
<1>1. Init => RegistryInv
  BY InitType DEF Init, RegistryInv, Registered, OwnSockets, NoGhostSocket,
                  PresenceHasCause, Leaving
<1>2. QED
  BY <1>1, RegistryNext, PTL DEF Spec

\* No socket is registered once its disconnect has begun.
THEOREM NeverGhostSocket == Spec => []NoGhostSocket
<1>1. RegistryInv => NoGhostSocket
  BY DEF RegistryInv
<1>2. QED
  BY <1>1, RegistryInductive, PTL

\* A user shown online has a socket, a disconnect under way, or a failed send or
\* disconnect behind.
THEOREM PresenceAlwaysHasCause == Spec => []PresenceHasCause
<1>1. RegistryInv => PresenceHasCause
  BY DEF RegistryInv
<1>2. QED
  BY <1>1, RegistryInductive, PTL

\* What a step of c must show: it lists no user but its own, and somebody still
\* answers for its own user's entries.
LEMMA LeftoverStep ==
    ASSUME RegistryInv, LeftoverHasCause, NEW c \in Conn,
           TypeOK', dropped \subseteq dropped',
           skipped \ {Owner[c]} \subseteq skipped',
           \A d \in Conn \ {c} : /\ pc'[d] = pc[d]
                                 /\ topic'[d] = topic[d]
                                 /\ pending'[d] = pending[d],
           \A v \in User \ {Owner[c]} : sockets'[v] = sockets[v],
           \A ch \in Channel :
                channelUsers'[ch] \subseteq channelUsers[ch] \cup {Owner[c]},
           \A ch \in Channel : Owner[c] \in channelUsers'[ch] =>
                \/ Owner[c] \in skipped'
                \/ \E d \in Conn : Owner[d] = Owner[c] /\ Answers(d, ch)'
    PROVE  LeftoverHasCause'
<1>1. SUFFICES ASSUME NEW ch \in Channel, NEW v \in channelUsers'[ch],
                      v \notin skipped'
               PROVE  \E d \in Conn : Owner[d] = v /\ Answers(d, ch)'
  BY DEF LeftoverHasCause
<1>2. CASE v = Owner[c]
  BY <1>1, <1>2
<1>3. CASE v # Owner[c]
  <2>1. PICK d \in Conn : Owner[d] = v /\ Answers(d, ch)
    BY <1>1, <1>3 DEF LeftoverHasCause
  <2>2. d # c /\ v \in User
    BY <1>3, <2>1, OwnerType
  <2>3. Answers(d, ch)'
    BY <1>3, <2>1, <2>2 DEF Answers
  <2>4. QED
    BY <2>1, <2>3
<1>4. QED
  BY <1>2, <1>3

\* A coroutine that is registered, or whose socket a failed send dropped,
\* answers for whatever its step lists.
LEMMA LeftoverActive ==
    ASSUME RegistryInv, RegistryInv', LeftoverHasCause, NEW c \in Conn,
           UNCHANGED <<sockets, dropped, skipped>>,
           \A d \in Conn \ {c} : /\ pc'[d] = pc[d]
                                 /\ topic'[d] = topic[d]
                                 /\ pending'[d] = pending[d],
           pc'[c] \notin Leaving \cup {"new"},
           \A ch \in Channel :
                channelUsers'[ch] \subseteq channelUsers[ch] \cup {Owner[c]}
    PROVE  LeftoverHasCause'
<1>1. c \in sockets'[Owner[c]] \/ c \in dropped'
  BY DEF RegistryInv, Registered
<1>2. \A ch \in Channel : Answers(c, ch)'
  BY <1>1 DEF Answers
<1>3. TypeOK'
  BY DEF RegistryInv
<1>4. QED
  BY <1>2, <1>3, LeftoverStep

\* disconnect's first steps pass a user's entries on as they do its presence.
LEMMA BeginDisconnectLeftover ==
    ASSUME RegistryInv, RegistryInv', LeftoverHasCause, NEW c \in Conn,
           BeginDisconnect(c), pc[c] \notin Leaving \cup {"new"},
           UNCHANGED <<channelUsers, dropped, skipped, topic, pending>>
    PROVE  LeftoverHasCause'
<1> USE OwnerType
<1> DEFINE u == Owner[c]
           left == sockets[u] \ {c}
<1>1. /\ sockets'[u] = left
      /\ \A v \in User \ {u} : sockets'[v] = sockets[v]
      /\ \A d \in Conn \ {c} : pc'[d] = pc[d]
      /\ u \in online /\ left = {} => pc'[c] = "unpresence"
  BY DEF BeginDisconnect, RegistryInv, TypeOK
<1>2. TypeOK'
  BY DEF RegistryInv
<1>3. ASSUME NEW ch \in Channel, u \in channelUsers[ch], u \notin skipped
      PROVE  \E d \in Conn : Owner[d] = u /\ Answers(d, ch)'
  <2>1. PICK d \in Conn : Owner[d] = u /\ Answers(d, ch)
    BY <1>3 DEF LeftoverHasCause
  <2>2. CASE d # c
    BY <1>1, <2>1, <2>2 DEF Answers
  <2>3. CASE d = c /\ c \in dropped
    BY <2>1, <2>3 DEF Answers
  <2>4. CASE d = c /\ c \in sockets[u]
    <3>1. u \in online
      BY <2>4 DEF RegistryInv, OwnSockets
    <3>2. CASE left = {}
      BY <1>1, <2>1, <2>4, <3>1, <3>2 DEF Answers
    <3>3. CASE left # {}
      <4>1. PICK e \in left : TRUE
        BY <3>3
      <4>2. e \in Conn /\ Owner[e] = u /\ e \in sockets'[u]
        BY <1>1, <4>1 DEF RegistryInv, TypeOK, OwnSockets
      <4>3. QED
        BY <4>2 DEF Answers
    <3>4. QED
      BY <3>2, <3>3
  <2>5. QED
    BY <2>1, <2>2, <2>3, <2>4 DEF Answers, Leaving
<1>4. QED
  BY <1>1, <1>2, <1>3, LeftoverStep

\* The sweep keeps what it has not reached in pending.
LEMMA SweepLeftover ==
    ASSUME RegistryInv, RegistryInv', LeftoverHasCause, RosterKeyed,
           NEW c \in Conn, SweepChannels(c)
    PROVE  LeftoverHasCause' /\ RosterKeyed'
<1> USE OwnerType
<1> DEFINE u == Owner[c]
           chs == IF topic[c] \in User THEN channelKeys ELSE pending[c]
<1>1. TypeOK /\ TypeOK' /\ pc[c] = "unsubscribing"
     /\ UNCHANGED <<sockets, dropped, skipped>>
  BY DEF SweepChannels, RegistryInv, registry, history
<1>2. Sweep(c, chs)
  BY DEF SweepChannels
<1>3. chs \in SUBSET Channel
  BY <1>1 DEF TypeOK
<1>4. \A x \in channelKeys : topic[c] \in User \/ x \in pending[c] => x \in chs
  OBVIOUS
<1> HIDE DEF chs
<1>5. c \notin sockets[u]
  BY <1>1 DEF RegistryInv, NoGhostSocket, Leaving
<1>6. ASSUME NEW done \in SUBSET chs,
             channelUsers' = RemoveFrom(u, channelUsers, done),
             chs \ done # {} => pc'[c] = "unsubscribing" /\ pending'[c] = chs \ done,
             \A d \in Conn \ {c} : /\ pc'[d] = pc[d]
                                   /\ topic'[d] = topic[d]
                                   /\ pending'[d] = pending[d]
      PROVE  LeftoverHasCause'
  <2>1. \A x \in Channel : /\ channelUsers'[x] \subseteq channelUsers[x]
                           /\ x \in done => u \notin channelUsers'[x]
    BY <1>1, <1>6 DEF RemoveFrom, TypeOK
  <2>2. ASSUME NEW x \in Channel, u \in channelUsers'[x], u \notin skipped
        PROVE  \E d \in Conn : Owner[d] = u /\ Answers(d, x)'
    <3>1. x \notin done /\ u \in channelUsers[x]
      BY <2>1, <2>2
    <3>2. PICK d \in Conn : Owner[d] = u /\ Answers(d, x)
      BY <2>2, <3>1 DEF LeftoverHasCause
    <3>3. CASE d # c
      BY <1>1, <1>6, <3>2, <3>3 DEF Answers
    <3>4. CASE d = c /\ c \in dropped
      BY <1>1, <3>2, <3>4 DEF Answers
    <3>5. CASE d = c /\ c \notin dropped
      <4>1. topic[c] \in User \/ x \in pending[c]
        BY <1>1, <1>5, <3>2, <3>5 DEF Answers
      <4>2. x \in channelKeys
        BY <3>1 DEF RosterKeyed
      <4>3. x \in chs
        BY <1>4, <4>1, <4>2
      <4>4. QED
        BY <1>6, <3>1, <3>2, <3>5, <4>3 DEF Answers
    <3>6. QED
      BY <3>3, <3>4, <3>5
  <2>3. QED
    <3>1. \A x \in Channel : channelUsers'[x] \subseteq channelUsers[x] \cup {u}
      BY <2>1
    <3>2. QED
      BY <1>1, <1>6, <2>2, <3>1, LeftoverStep
<1> DEFINE emptied == {ch \in chs : channelUsers[ch] \subseteq {u}}
<1>7. CASE /\ emptied = {}
           /\ channelUsers' = RemoveFrom(u, channelUsers, chs)
           /\ pc' = [pc EXCEPT ![c] = "gone"]
           /\ pending' = [pending EXCEPT ![c] = {}]
           /\ UNCHANGED <<channelKeys, redis, topic>>
  <2>1. \A d \in Conn \ {c} : /\ pc'[d] = pc[d]
                              /\ topic'[d] = topic[d]
                              /\ pending'[d] = pending[d]
    BY <1>1, <1>7 DEF TypeOK
  <2>2. LeftoverHasCause'
    BY <1>6, <1>7, <2>1
  <2>3. RosterKeyed'
    BY <1>1, <1>7 DEF RosterKeyed, RemoveFrom, TypeOK
  <2>4. QED
    BY <2>2, <2>3
<1>8. CASE \E ch \in emptied, before \in SUBSET (chs \ emptied) :
              /\ channelUsers' = RemoveFrom(u, channelUsers, before \cup {ch})
              /\ channelKeys' = channelKeys \ {ch}
              /\ pending' = [pending EXCEPT ![c] = chs \ (before \cup {ch})]
              /\ Unsubscribe(c, ch)
  <2>1. PICK ch \in emptied, before \in SUBSET (chs \ emptied) :
              /\ channelUsers' = RemoveFrom(u, channelUsers, before \cup {ch})
              /\ channelKeys' = channelKeys \ {ch}
              /\ pending' = [pending EXCEPT ![c] = chs \ (before \cup {ch})]
              /\ Unsubscribe(c, ch)
    BY <1>8
  <2>2. /\ pc'[c] = "unsubscribing"
        /\ pending'[c] = chs \ (before \cup {ch})
        /\ \A d \in Conn \ {c} : /\ pc'[d] = pc[d]
                                 /\ topic'[d] = topic[d]
                                 /\ pending'[d] = pending[d]
    BY <1>1, <2>1 DEF Unsubscribe, TypeOK
  <2>3. before \cup {ch} \in SUBSET chs
    BY <2>1
  <2>4. LeftoverHasCause'
    BY <1>6, <2>1, <2>2, <2>3
  <2>5. ch \in Channel /\ channelUsers'[ch] = {}
    BY <1>1, <1>3, <2>1 DEF RemoveFrom, TypeOK
  <2>6. \A x \in Channel \ {ch} : channelUsers'[x] # {} => x \in channelKeys
    BY <1>1, <2>1 DEF RosterKeyed, RemoveFrom, TypeOK
  <2>7. RosterKeyed'
    BY <2>1, <2>5, <2>6 DEF RosterKeyed
  <2>8. QED
    BY <2>4, <2>7
<1>9. QED
  BY <1>2, <1>7, <1>8 DEF Sweep

\* The loops that subscribe list nobody but their own user, under keys.
LEMMA SubscribeChannelsRoster ==
    ASSUME RegistryInv, RosterKeyed, NEW c \in Conn,
           NEW STATE roll, roll \in [Channel -> SUBSET User],
           NEW STATE chs, chs \in SUBSET Channel, NEW STATE alive,
           \A ch \in Channel : roll[ch] # {} => ch \in channelKeys,
           SubscribeChannels(c, roll, chs, alive)
    PROVE  /\ RosterKeyed'
           /\ \A ch \in Channel : channelUsers'[ch] \subseteq roll[ch] \cup {Owner[c]}
           /\ \A d \in Conn \ {c} : /\ topic'[d] = topic[d]
                                    /\ pending'[d] = pending[d]
<1>0. TypeOK
  BY DEF RegistryInv
<1>1. CASE /\ chs \subseteq channelKeys
           /\ channelUsers' = AddTo(Owner[c], roll, chs)
           /\ pending' = [pending EXCEPT ![c] = {}]
           /\ UNCHANGED <<channelKeys, topic>>
  BY <1>0, <1>1 DEF AddTo, RosterKeyed, TypeOK
<1>2. CASE \E ch \in chs \ channelKeys, before \in SUBSET (chs \cap channelKeys) :
             /\ channelUsers' = [AddTo(Owner[c], roll, before) EXCEPT ![ch] = {}]
             /\ channelKeys' = channelKeys \cup {ch}
             /\ pending' = [pending EXCEPT ![c] = chs \ (before \cup {ch})]
             /\ EnsurePubsub(c, ch, alive)
  <2>1. PICK ch \in chs \ channelKeys, before \in SUBSET (chs \cap channelKeys) :
             /\ channelUsers' = [AddTo(Owner[c], roll, before) EXCEPT ![ch] = {}]
             /\ channelKeys' = channelKeys \cup {ch}
             /\ pending' = [pending EXCEPT ![c] = chs \ (before \cup {ch})]
             /\ EnsurePubsub(c, ch, alive)
    BY <1>2
  <2>2. topic' = [topic EXCEPT ![c] = ch]
    BY <2>1 DEF EnsurePubsub
  <2>3. \A x \in Channel :
          channelUsers'[x] = IF x = ch THEN {}
                             ELSE IF x \in before THEN roll[x] \cup {Owner[c]}
                             ELSE roll[x]
    BY <2>1 DEF AddTo
  <2>4. RosterKeyed'
    BY <2>1, <2>3 DEF RosterKeyed
  <2>5. QED
    BY <1>0, <2>1, <2>2, <2>3, <2>4 DEF TypeOK
<1>3. QED
  BY <1>1, <1>2 DEF SubscribeChannels

LeftoverInv == RegistryInv /\ RosterKeyed /\ LeftoverHasCause

LEMMA LeftoverNext ==
    LeftoverInv /\ RegistryInv' /\ [Next]_vars => (RosterKeyed /\ LeftoverHasCause)'
<1> SUFFICES ASSUME LeftoverInv, RegistryInv', [Next]_vars
             PROVE  (RosterKeyed /\ LeftoverHasCause)'
  OBVIOUS
<1> DEFINE Goal == (RosterKeyed /\ LeftoverHasCause)'
           Others(c) == \A d \in Conn \ {c} : /\ pc'[d] = pc[d]
                                              /\ topic'[d] = topic[d]
                                              /\ pending'[d] = pending[d]
<1> USE OwnerType
<1>0. TypeOK /\ TypeOK' /\ RegistryInv /\ RosterKeyed /\ LeftoverHasCause
  BY DEF LeftoverInv, RegistryInv
\* A step of a coroutine before its disconnect that lists nobody.
<1>1. ASSUME NEW c \in Conn, pc'[c] \notin Leaving \cup {"new"}, Others(c),
             UNCHANGED <<channelUsers, channelKeys, sockets, dropped, skipped>>
      PROVE  Goal
  <2>1. RosterKeyed'
    BY <1>0, <1>1 DEF RosterKeyed
  <2>2. QED
    BY <1>0, <1>1, <2>1, LeftoverActive
<1>2. ASSUME NEW c \in Conn, Connect(c) PROVE Goal
  <2>1. /\ UNCHANGED <<channelUsers, channelKeys, topic, pending, dropped, skipped>>
        /\ \A d \in Conn \ {c} : pc'[d] = pc[d]
        /\ \A v \in User \ {Owner[c]} : sockets'[v] = sockets[v]
        /\ c \in sockets'[Owner[c]]
    BY <1>0, <1>2 DEF Connect, TypeOK, roster, history
  <2>2. \A ch \in Channel : Answers(c, ch)'
    BY <2>1 DEF Answers
  <2>3. LeftoverHasCause'
    BY <1>0, <2>1, <2>2, LeftoverStep
  <2>4. QED
    BY <1>0, <2>1, <2>3 DEF RosterKeyed
<1>3. ASSUME NEW c \in Conn, SetPresence(c) PROVE Goal
  <2>1. pc'[c] \notin Leaving \cup {"new"} /\ Others(c)
    BY <1>0, <1>3 DEF SetPresence, EnsurePubsub, SubscribeDirectly, CloseDead,
                      IssueSubscribe, TypeOK, Leaving
  <2>2. QED
    BY <1>1, <1>3, <2>1 DEF SetPresence, registry, roster, history
<1>4. ASSUME NEW c \in Conn, Recreate(c) PROVE Goal
  <2>1. pc'[c] \notin Leaving \cup {"new"} /\ Others(c)
    BY <1>0, <1>4 DEF Recreate, IssueSubscribe, TypeOK, Leaving
  <2>2. QED
    BY <1>1, <1>4, <2>1 DEF Recreate, registry, roster, history
<1>5. ASSUME NEW c \in Conn, Resubscribe(c) PROVE Goal
  <2>1. pc'[c] \notin Leaving \cup {"new"} /\ Others(c)
    BY <1>0, <1>5 DEF Resubscribe, IssueSubscribe, TypeOK, Leaving
  <2>2. QED
    BY <1>1, <1>5, <2>1 DEF Resubscribe, registry, roster, history
<1>6. ASSUME NEW c \in Conn, UserTopicDone(c) PROVE Goal
  <2>1. pc'[c] \notin Leaving \cup {"new"} /\ Others(c)
    BY <1>0, <1>6 DEF UserTopicDone, TypeOK, Leaving
  <2>2. QED
    BY <1>1, <1>6, <2>1 DEF UserTopicDone, registry, roster, history
<1>7. ASSUME NEW c \in Conn, NEW STATE roll, roll \in [Channel -> SUBSET User],
             NEW STATE chs, chs \in SUBSET Channel, NEW STATE alive,
             \A ch \in Channel : /\ roll[ch] \subseteq channelUsers[ch] \cup {Owner[c]}
                                 /\ roll[ch] # {} => ch \in channelKeys,
             SubscribeChannels(c, roll, chs, alive),
             pc[c] # "new", UNCHANGED <<sockets, dropped, skipped>>
      PROVE  Goal
  <2>1. pc'[c] \notin Leaving /\ \A d \in Conn \ {c} : pc'[d] = pc[d]
    BY <1>0, <1>7, SubscribeChannelsStage
  <2>2. pc'[c] # "new"
    BY <1>0, <1>7 DEF SubscribeChannels, EnsurePubsub, SubscribeDirectly,
                      CloseDead, IssueSubscribe, TypeOK
  <2>3. /\ RosterKeyed'
        /\ \A ch \in Channel : channelUsers'[ch] \subseteq roll[ch] \cup {Owner[c]}
        /\ \A d \in Conn \ {c} : /\ topic'[d] = topic[d]
                                 /\ pending'[d] = pending[d]
    BY <1>0, <1>7, SubscribeChannelsRoster
  <2>4. \A ch \in Channel : channelUsers'[ch] \subseteq channelUsers[ch] \cup {Owner[c]}
    BY <1>7, <2>3
  <2>5. QED
    BY <1>0, <1>7, <2>1, <2>2, <2>3, <2>4, LeftoverActive
<1>8. ASSUME NEW c \in Conn, ChannelDone(c) PROVE Goal
  <2> DEFINE roll == AddTo(Owner[c], channelUsers, {topic[c]})
  <2>1. /\ roll \in [Channel -> SUBSET User]
        /\ \A ch \in Channel : /\ roll[ch] \subseteq channelUsers[ch] \cup {Owner[c]}
                               /\ roll[ch] # {} => ch \in channelKeys
    BY <1>0, <1>8 DEF ChannelDone, AddTo, TypeOK, RosterKeyed
  <2> HIDE DEF roll
  <2>2. CASE c \in looping
    <3>1. channelUsers' = roll /\ UNCHANGED channelKeys
      BY <1>8, <2>2 DEF ChannelDone, roll
    <3>2. pc'[c] = "receiving" /\ Others(c)
      BY <1>0, <1>8, <2>2 DEF ChannelDone, TypeOK
    <3>3. RosterKeyed'
      BY <2>1, <3>1 DEF RosterKeyed
    <3>4. UNCHANGED <<sockets, dropped, skipped>>
      BY <1>8 DEF ChannelDone, registry, history
    <3>5. LeftoverHasCause'
      BY <1>0, <2>1, <3>1, <3>2, <3>4, LeftoverActive DEF Leaving
    <3>6. QED
      BY <3>3, <3>5
  <2>3. CASE c \notin looping
    <3>1. SubscribeChannels(c, roll, pending[c], TRUE)
      BY <1>8, <2>3 DEF ChannelDone, roll
    <3>2. pending[c] \in SUBSET Channel /\ pc[c] # "new"
      BY <1>0, <1>8 DEF ChannelDone, TypeOK
    <3>3. UNCHANGED <<sockets, dropped, skipped>>
      BY <1>8 DEF ChannelDone, registry, history
    <3>4. QED
      BY <1>7, <2>1, <3>1, <3>2, <3>3
  <2>4. QED
    BY <2>2, <2>3
<1>9. ASSUME NEW c \in Conn, ChannelEntryGone(c) PROVE Goal
  <2>1. CASE BeginDisconnect(c)
    BY <1>0, <1>9, <2>1, BeginDisconnectLeftover
    DEF ChannelEntryGone, roster, history, Leaving, RosterKeyed
  <2>2. CASE pc' = [pc EXCEPT ![c] = "crashed"] /\ UNCHANGED registry
    <3>1. pc'[c] \notin Leaving \cup {"new"} /\ Others(c)
      BY <1>0, <1>9, <2>2 DEF ChannelEntryGone, TypeOK, Leaving
    <3>2. QED
      BY <1>1, <1>9, <2>2, <3>1 DEF ChannelEntryGone, registry, roster, history
  <2>3. QED
    BY <1>9, <2>1, <2>2 DEF ChannelEntryGone, Raise
<1>10. ASSUME NEW c \in Conn, LoadMembership(c) PROVE Goal
  <2>1. /\ SubscribeChannels(c, channelUsers, Members[Owner[c]], listening)
        /\ pc[c] # "new"
        /\ UNCHANGED <<sockets, dropped, skipped>>
    BY <1>10 DEF LoadMembership, registry, history
  <2>2. /\ Members[Owner[c]] \in SUBSET Channel
        /\ channelUsers \in [Channel -> SUBSET User]
    BY <1>0 DEF TypeOK
  <2>3. \A ch \in Channel : channelUsers[ch] # {} => ch \in channelKeys
    BY <1>0 DEF RosterKeyed
  <2>4. QED
    BY <1>7, <2>1, <2>2, <2>3
<1>11. ASSUME NEW c \in Conn, NEW ch \in Channel, ReceiveSubscribe(c, ch)
       PROVE  Goal
  <2>1. pc'[c] \notin Leaving \cup {"new"} /\ Others(c)
    BY <1>0, <1>11 DEF ReceiveSubscribe, EnsurePubsub, SubscribeDirectly,
                       CloseDead, IssueSubscribe, TypeOK, Leaving
  <2>2. /\ \A x \in Channel : channelUsers'[x] \subseteq channelUsers[x] \cup {Owner[c]}
        /\ RosterKeyed'
    BY <1>0, <1>11 DEF ReceiveSubscribe, AddTo, RosterKeyed, TypeOK
  <2>3. UNCHANGED <<sockets, dropped, skipped>>
    BY <1>11 DEF ReceiveSubscribe, registry, history
  <2>4. QED
    BY <1>0, <2>1, <2>2, <2>3, LeftoverActive
<1>12. ASSUME NEW c \in Conn, ReceivePresence(c) PROVE Goal
  <2>1. pc'[c] \notin Leaving \cup {"new"} /\ Others(c)
    BY <1>12 DEF ReceivePresence, Leaving
  <2>2. QED
    BY <1>1, <1>12, <2>1 DEF ReceivePresence, registry, roster, history
<1>13. ASSUME NEW c \in Conn, Disconnect(c) PROVE Goal
  BY <1>0, <1>13, BeginDisconnectLeftover
  DEF Disconnect, roster, history, Leaving, RosterKeyed
<1>24. ASSUME NEW c \in Conn, CommandFails(c) PROVE Goal
  <2>1. /\ pc[c] \notin Leaving \cup {"new"}
        /\ UNCHANGED <<channelUsers, channelKeys, dropped, skipped, topic, pending>>
    BY <1>24 DEF CommandFails, Leaving, roster
  <2>2. CASE BeginDisconnect(c)
    BY <1>0, <2>1, <2>2, BeginDisconnectLeftover DEF RosterKeyed
  <2>3. CASE pc' = [pc EXCEPT ![c] = "crashed"] /\ UNCHANGED registry
    <3>1. pc'[c] \notin Leaving \cup {"new"} /\ Others(c)
      BY <1>0, <2>1, <2>3 DEF TypeOK, Leaving
    <3>2. QED
      BY <1>1, <2>1, <2>3, <3>1 DEF registry
  <2>4. QED
    BY <1>24, <2>2, <2>3 DEF CommandFails, Raise
<1>25. ASSUME NEW c \in Conn, ClearPresenceFails(c) PROVE Goal
  <2>1. /\ Others(c)
        /\ UNCHANGED <<channelUsers, channelKeys, sockets, dropped>>
        /\ skipped' = skipped \cup {Owner[c]}
    BY <1>0, <1>25 DEF ClearPresenceFails, TypeOK, registry, roster
  <2>2. LeftoverHasCause'
    BY <1>0, <2>1, LeftoverStep
  <2>3. QED
    BY <1>0, <2>1, <2>2 DEF RosterKeyed
<1>14. ASSUME NEW c \in Conn, ClearPresence(c) PROVE Goal
  <2>1. /\ pc'[c] = "unsubscribing" /\ topic'[c] = Owner[c] /\ Others(c)
        /\ UNCHANGED <<channelUsers, channelKeys, sockets, dropped>>
        /\ skipped' = skipped \ {Owner[c]}
    BY <1>0, <1>14 DEF ClearPresence, Unsubscribe, TypeOK, registry, roster
  <2>2. \A ch \in Channel : Answers(c, ch)'
    BY <2>1 DEF Answers
  <2>3. LeftoverHasCause'
    BY <1>0, <2>1, <2>2, LeftoverStep
  <2>4. QED
    BY <1>0, <2>1, <2>3 DEF RosterKeyed
<1>15. ASSUME NEW c \in Conn, SweepChannels(c) PROVE Goal
  BY <1>0, <1>15, SweepLeftover
<1>16. ASSUME NEW c \in Conn, SendFails(c) PROVE Goal
  <2>1. /\ UNCHANGED <<channelUsers, channelKeys, topic, pending, pc, skipped>>
        /\ \A v \in User \ {Owner[c]} : sockets'[v] = sockets[v]
        /\ dropped' = dropped \cup {c}
    BY <1>0, <1>16 DEF SendFails, TypeOK, roster
  <2>2. \A ch \in Channel : Answers(c, ch)'
    BY <2>1 DEF Answers
  <2>3. LeftoverHasCause'
    BY <1>0, <2>1, <2>2, LeftoverStep
  <2>4. QED
    BY <1>0, <2>1, <2>3 DEF RosterKeyed
<1>17. ASSUME NEW c \in Conn, SubscribeFails(c) PROVE Goal
  <2>1. CASE BeginDisconnect(c)
    BY <1>0, <1>17, <2>1, BeginDisconnectLeftover
    DEF SubscribeFails, BreakConnection, Subscribing, roster, Leaving, RosterKeyed
  <2>2. CASE pc' = [pc EXCEPT ![c] = "crashed"] /\ UNCHANGED registry
    <3>1. pc'[c] \notin Leaving \cup {"new"} /\ Others(c)
      BY <1>0, <1>17, <2>2 DEF SubscribeFails, BreakConnection, TypeOK, Leaving
    <3>2. QED
      BY <1>1, <1>17, <2>2, <3>1
      DEF SubscribeFails, BreakConnection, registry, roster
  <2>3. QED
    BY <1>17, <2>1, <2>2 DEF SubscribeFails, Raise
<1>18. ASSUME UNCHANGED <<channelUsers, channelKeys, sockets, dropped, skipped, pc,
                          topic, pending>>
       PROVE  Goal
  BY <1>0, <1>18 DEF RosterKeyed, LeftoverHasCause, Answers
<1>19. ASSUME NEW u \in User, PresenceExpires(u) PROVE Goal
  BY <1>18, <1>19 DEF PresenceExpires, registry, roster, history
<1>20. ASSUME ListenerEnds PROVE Goal
  BY <1>18, <1>20 DEF ListenerEnds, registry, roster, history
<1>21. ASSUME ConnectionBreaks PROVE Goal
  BY <1>18, <1>21 DEF ConnectionBreaks, BreakConnection, registry, roster
<1>22. ASSUME UNCHANGED vars PROVE Goal
  BY <1>18, <1>22 DEF vars, registry, roster, history
<1>23. QED
  BY <1>2, <1>3, <1>4, <1>5, <1>6, <1>8, <1>9, <1>10, <1>11, <1>12, <1>13,
     <1>14, <1>15, <1>16, <1>17, <1>19, <1>20, <1>21, <1>22, <1>24, <1>25
  DEF Next, Endpoint

\* A user left listed for a channel has a coroutine that answers for it, unless
\* a send to one of its sockets, or its last disconnect, failed.
THEOREM LeftoverAlwaysHasCause == Spec => []LeftoverHasCause
<1>1. Init => LeftoverInv
  BY InitType DEF Init, LeftoverInv, RegistryInv, Registered, OwnSockets,
                  NoGhostSocket, PresenceHasCause, RosterKeyed,
                  LeftoverHasCause, Leaving
<1>2. LeftoverInv /\ [Next]_vars => LeftoverInv'
  BY RegistryNext, LeftoverNext DEF LeftoverInv
<1>3. LeftoverInv => LeftoverHasCause
  BY DEF LeftoverInv
<1>4. QED
  BY <1>1, <1>2, <1>3, PTL DEF Spec
=============================================================================
