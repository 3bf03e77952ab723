-------------------------------- MODULE Chat --------------------------------
(***************************************************************************)
(* A chat room of internal/edge/chat.go, and the alert streams of          *)
(* internal/edge/kairos.go that invitations to it go out on.               *)
(*                                                                         *)
(* A member of the room has a queue of its own, made when it joins and     *)
(* forgotten when it leaves; every listen stream keeps the queue it was    *)
(* opened on, and several streams of one member read the same queue.  A    *)
(* message is numbered in one section of chatMu and posted in another, in  *)
(* which it goes to one queue after the other while streams, which take no *)
(* lock, read them.  A stream that has taken a message may fail to write   *)
(* it.                                                                     *)
(*                                                                         *)
(* Other rooms share no more than the numbers.  What a client does with a  *)
(* room_info, and the heartbeat, are left out; the server forgets all of   *)
(* this when it restarts.                                                  *)
(***************************************************************************)
EXTENDS Integers, Sequences, SequencesExt, FiniteSets

CONSTANTS
  Users,      \* accounts
  Streams,    \* GET .../listen
  Posts,      \* POST .../messages that are served at once
  Alerts,     \* GET /alerts/me of the invited account
  None,
  Depth,      \* chatQueueDepth
  AlertDepth, \* capacity of kairosSub.ch
  Boxes,      \* queues: enough for one per member and one per stream
  MaxSeq      \* bound on the messages

ASSUME ChatAssumption ==
  /\ None \notin Users
  /\ {Depth, AlertDepth} \subseteq Nat \ {0}
  /\ Boxes \subseteq Nat \ {0}
  /\ MaxSeq \in Nat

VARIABLES
  member,   \* room.members: user -> its queue, 0 for none
  box,      \* queue -> the messages in it
  stream,   \* stream[s]: its user and queue, and the message it has taken
  seq,      \* chatSeq
  post,     \* post[p]: the message, the members it has still to go to, and
            \* the one whose queue was found full
  due, got, \* user -> messages that are to reach it, and those that have
  alert,    \* alert[a]: where its handler is, and how many alerts wait
  subs      \* kairosSubs of the invited account

chat == <<member, box, stream, seq, post, due, got>>
kairos == <<alert, subs>>
vars == <<member, box, stream, seq, post, due, got, alert, subs>>

Msgs == 1 .. MaxSeq
Closed == [at |-> "off", user |-> None, box |-> 0, msg |-> 0]
NoPost == [at |-> "idle", msg |-> 0, todo |-> {}, full |-> None]
NoAlert == [at |-> "off", waiting |-> 0]

Members == {u \in Users : member[u] # 0}
Free(q) == /\ \A u \in Users : member[u] # q
           /\ \A s \in Streams : stream[s].box # q

\* chatMu is only held over a step by the fan-out of a post.
Unlocked == \A p \in Posts : post[p].at # "fan"

-----------------------------------------------------------------------------
(* Members and streams.                                                    *)

\* Mutant: who joins again gets a new queue.
JoinAnew(u, q) ==
  /\ Unlocked
  /\ Free(q) /\ \A r \in Boxes : Free(r) => q <= r
  /\ member' = [member EXCEPT ![u] = q]
  /\ UNCHANGED box

\* join, after chatRoomGet: a member keeps its queue.
Join(u, q) ==
  /\ Unlocked
  /\ \/ /\ member[u] = q
        /\ UNCHANGED <<member, box>>
     \/ /\ member[u] = 0
        /\ Free(q) /\ \A r \in Boxes : Free(r) => q <= r
        /\ member' = [member EXCEPT ![u] = q]
        /\ UNCHANGED box

Subscribe(u) ==
  /\ \E q \in Boxes : Join(u, q)
  /\ UNCHANGED <<stream, seq, post, due, got, kairos>>

\* A queue that neither a member nor a stream has is gone with its messages.
Leave(u, q, lost) ==
  IF member'[u] = q \/ \E s \in Streams : stream'[s].box = q
  THEN due' = [due EXCEPT ![u] = @ \ lost] /\ box' = box
  ELSE /\ due' = [due EXCEPT ![u] = @ \ (lost \cup ToSet(box[q]))]
       /\ box' = [box EXCEPT ![q] = <<>>]

\* leave: the queue stays with the streams that have it.
Unsubscribe(u) ==
  /\ Unlocked
  /\ member[u] # 0
  /\ member' = [member EXCEPT ![u] = 0]
  /\ UNCHANGED stream
  /\ Leave(u, member[u], {})
  /\ UNCHANGED <<seq, post, got, kairos>>

Listen(s, u) ==
  /\ stream[s] = Closed
  /\ \E q \in Boxes :
       /\ Join(u, q)
       /\ stream' = [stream EXCEPT ![s] = [at |-> "read", user |-> u, box |-> q, msg |-> 0]]
  /\ UNCHANGED <<seq, post, due, got, kairos>>

\* Mutant: the message stays in the queue until the next one is taken.
Peek(s) ==
  /\ stream[s].at = "read"
  /\ box[stream[s].box] # <<>>
  /\ stream' = [stream EXCEPT ![s] = [@ EXCEPT !.at = "hold", !.msg = Head(box[stream[s].box])]]
  /\ UNCHANGED <<member, box, seq, post, due, got, kairos>>

\* The case of the queue in the loop of a stream.
Take(s) ==
  /\ stream[s].at = "read"
  /\ box[stream[s].box] # <<>>
  /\ stream' = [stream EXCEPT ![s] = [@ EXCEPT !.at = "hold", !.msg = Head(box[stream[s].box])]]
  /\ box' = [box EXCEPT ![stream[s].box] = Tail(@)]
  /\ UNCHANGED <<member, seq, post, due, got, kairos>>

\* writeDoc.
Write(s) ==
  /\ stream[s].at = "hold"
  /\ got' = [got EXCEPT ![stream[s].user] = @ \cup {stream[s].msg}]
  /\ stream' = [stream EXCEPT ![s] = [@ EXCEPT !.at = "read", !.msg = 0]]
  /\ UNCHANGED <<member, box, seq, post, due, kairos>>

WriteFails(s) ==
  /\ stream[s].at = "hold"
  /\ stream' = [stream EXCEPT ![s] = Closed]
  /\ UNCHANGED member
  /\ Leave(stream[s].user, stream[s].box, {stream[s].msg})
  /\ UNCHANGED <<seq, post, got, kairos>>

\* The end of chatStreamLife, of the connection, or a room_info that cannot be
\* written: nothing is in hand, and what is in the queue stays there.
Close(s) ==
  /\ stream[s].at = "read"
  /\ stream' = [stream EXCEPT ![s] = Closed]
  /\ UNCHANGED member
  /\ Leave(stream[s].user, stream[s].box, {})
  /\ UNCHANGED <<seq, post, got, kairos>>

-----------------------------------------------------------------------------
(* Messages.                                                               *)

\* chatSeq++.
Number(p) ==
  /\ post[p] = NoPost /\ Unlocked
  /\ seq < MaxSeq
  /\ seq' = seq + 1
  /\ post' = [post EXCEPT ![p] = [at |-> "ready", msg |-> seq', todo |-> {}, full |-> None]]
  /\ UNCHANGED <<member, box, stream, due, got, kairos>>

\* post takes chatMu.
Begin(p) ==
  /\ post[p].at = "ready" /\ Unlocked
  /\ post' = [post EXCEPT ![p] = [@ EXCEPT !.at = "fan", !.todo = Members]]
  /\ due' = [u \in Users |-> IF u \in Members THEN due[u] \cup {post[p].msg} ELSE due[u]]
  /\ UNCHANGED <<member, box, stream, seq, got, kairos>>

\* The first select, one member after the other in any order.
Push(p, u) ==
  /\ post[p].at = "fan" /\ post[p].full = None /\ u \in post[p].todo
  /\ IF Len(box[member[u]]) < Depth
     THEN /\ box' = [box EXCEPT ![member[u]] = Append(@, post[p].msg)]
          /\ post' = [post EXCEPT ![p].todo = @ \ {u}]
     ELSE /\ post' = [post EXCEPT ![p].full = u]
          /\ UNCHANGED box
  /\ UNCHANGED <<member, stream, seq, due, got, kairos>>

\* The inner selects.  A stream may have made room meanwhile; the oldest that
\* is left is dropped all the same.
DropOldest(p) ==
  LET u == post[p].full
      q == box[member[u]]
  IN /\ post[p].at = "fan" /\ u # None
     /\ box' = [box EXCEPT ![member[u]] =
          IF q = <<>> THEN <<post[p].msg>> ELSE Append(Tail(q), post[p].msg)]
     /\ post' = [post EXCEPT ![p].todo = @ \ {u}, ![p].full = None]
     /\ due' = IF q = <<>> THEN due ELSE [due EXCEPT ![u] = @ \ {Head(q)}]
     /\ UNCHANGED <<member, stream, seq, got, kairos>>

Posted(p) ==
  /\ post[p].at = "fan" /\ post[p].todo = {}
  /\ post' = [post EXCEPT ![p] = NoPost]
  /\ UNCHANGED <<member, box, stream, seq, due, got, kairos>>

-----------------------------------------------------------------------------
(* Alerts.                                                                 *)

\* handleKairosAlerts: the headers are out before the handler subscribes.
OpenAlerts(a) ==
  /\ alert[a].at = "off"
  /\ alert' = [alert EXCEPT ![a] = [at |-> "greeted", waiting |-> 0]]
  /\ UNCHANGED <<chat, subs>>

KairosSubscribe(a) ==
  /\ alert[a].at = "greeted"
  /\ alert' = [alert EXCEPT ![a] = [at |-> "open", waiting |-> 0]]
  /\ subs' = subs \cup {a}
  /\ UNCHANGED chat

\* KairosNotify, by an invite or a friend request: dropped where it is full.
Notify ==
  /\ alert' = [a \in Alerts |->
       IF a \in subs /\ alert[a].waiting < AlertDepth
       THEN [alert[a] EXCEPT !.waiting = @ + 1] ELSE alert[a]]
  /\ UNCHANGED <<chat, subs>>

Deliver(a) ==
  /\ alert[a].at = "open" /\ alert[a].waiting > 0
  /\ alert' = [alert EXCEPT ![a].waiting = @ - 1]
  /\ UNCHANGED <<chat, subs>>

\* Mutant: the whole set of the user goes with the stream that ends.
UnsubscribeAll(a) ==
  /\ alert[a].at = "open"
  /\ alert' = [alert EXCEPT ![a] = NoAlert]
  /\ subs' = {}
  /\ UNCHANGED chat

KairosUnsubscribe(a) ==
  /\ alert[a].at = "open"
  /\ alert' = [alert EXCEPT ![a] = NoAlert]
  /\ subs' = subs \ {a}
  /\ UNCHANGED chat

-----------------------------------------------------------------------------
Init ==
  /\ member = [u \in Users |-> 0]
  /\ box = [q \in Boxes |-> <<>>]
  /\ stream = [s \in Streams |-> Closed]
  /\ seq = 0
  /\ post = [p \in Posts |-> NoPost]
  /\ due = [u \in Users |-> {}]
  /\ got = [u \in Users |-> {}]
  /\ alert = [a \in Alerts |-> NoAlert]
  /\ subs = {}

Next ==
  \/ \E u \in Users : Subscribe(u) \/ Unsubscribe(u)
  \/ \E s \in Streams :
       \/ \E u \in Users : Listen(s, u)
       \/ Take(s) \/ Write(s) \/ WriteFails(s) \/ Close(s)
  \/ \E p \in Posts :
       \/ Number(p) \/ Begin(p) \/ DropOldest(p) \/ Posted(p)
       \/ \E u \in Users : Push(p, u)
  \/ \E a \in Alerts :
       OpenAlerts(a) \/ KairosSubscribe(a) \/ Deliver(a) \/ KairosUnsubscribe(a)
  \/ Notify

\* A stream's loop runs on, and a write that does not fail gets done.
Fairness == \A s \in Streams : WF_vars(Take(s)) /\ WF_vars(Write(s))

Spec == Init /\ [][Next]_vars /\ Fairness

-----------------------------------------------------------------------------
\* Types, and the alert streams that the server notifies are those that read:
\* the end of one leaves the others of the account subscribed.
TypeOK ==
  /\ member \in [Users -> Boxes \cup {0}]
  /\ box \in [Boxes -> BoundedSeq(Msgs, Depth)]
  /\ stream \in [Streams -> [at : {"off", "read", "hold"}, user : Users \cup {None},
                             box : Boxes \cup {0}, msg : 0 .. seq]]
  /\ seq \in 0 .. MaxSeq
  /\ post \in [Posts -> [at : {"idle", "ready", "fan"}, msg : 0 .. seq,
                         todo : SUBSET Members, full : Members \cup {None}]]
  /\ due \in [Users -> SUBSET Msgs] /\ got \in [Users -> SUBSET Msgs]
  /\ alert \in [Alerts -> [at : {"off", "greeted", "open"}, waiting : 0 .. AlertDepth]]
  /\ subs = {a \in Alerts : alert[a].at = "open"}

\* Where a message for a user is: in its queues, in its streams, received.
BoxesOf(u) ==
  ({member[u]} \cup {stream[s].box : s \in {t \in Streams : stream[t].user = u}}) \ {0}

Copies(u, m) ==
  Cardinality({x \in BoxesOf(u) \X (1 .. Depth) :
                 x[2] \in DOMAIN box[x[1]] /\ box[x[1]][x[2]] = m})
    + Cardinality({s \in Streams : stream[s].user = u /\ stream[s].msg = m})
    + Cardinality(got[u] \cap {m})

\* "The client re-issues the GET and the member queue carries anything posted
\* in between": a message posted to the room is in one place for every member,
\* whatever streams of it end, overlap and reopen; only the one that an overflow
\* drops or a failed write has in hand is lost, or those in a queue that nobody
\* has any more.  Nobody ever gets one twice.
NothingLostNorDoubled ==
  \A u \in Users, m \in 1 .. seq :
    /\ Copies(u, m) <= 1
    /\ \/ m \notin due[u]
       \/ \E p \in Posts : post[p].msg = m /\ u \in post[p].todo
       \/ Copies(u, m) = 1

\* A stream on the queue of its member.
Listens(s) == stream[s].at # "off" /\ member[stream[s].user] = stream[s].box

\* A member that keeps one stream open gets what is in its queue, whatever
\* other streams of it take.
BacklogDrains ==
  \A s \in Streams : <>[]Listens(s) => <>[](Listens(s) /\ box[stream[s].box] = <<>>)
=============================================================================
