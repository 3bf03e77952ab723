----------------------------- MODULE ChatProofs -----------------------------
(***************************************************************************)
(* Proofs about Chat, for any users, streams, posts, queues and numbers of *)
(* messages: every variable keeps its type, and a message that was posted  *)
(* to a member is in one place of that member's at most, and in exactly    *)
(* one as long as it is due to that member.                                *)
(*                                                                         *)
(* The places are queues, streams and what was received.  The invariant    *)
(* speaks of them with quantifiers; only the last step counts.             *)
(***************************************************************************)
EXTENDS Chat, FiniteSetTheorems, SequenceTheorems, TLAPS

\* u reads or fills queue q.
Has(u, q) ==
  \/ member[u] = q
  \/ \E s \in Streams : stream[s].user = u /\ stream[s].box = q

InQueue(q, m) == \E i \in 1 .. Len(box[q]) : box[q][i] = m

Waits(u, m) == \E q \in Boxes : Has(u, q) /\ InQueue(q, m)
Held(u, m) == \E s \in Streams : stream[s].user = u /\ stream[s].msg = m
Nowhere(u, m) == ~Waits(u, m) /\ ~Held(u, m) /\ m \notin got[u]
ToCome(u, m) == \E p \in Posts : post[p].msg = m /\ u \in post[p].todo

\* A stream that is open has a user and a queue, and one that is about to write
\* has a message.
StreamsRead ==
  \A s \in Streams :
    /\ stream[s].at = "off" => stream[s] = Closed
    /\ stream[s].at # "off" => stream[s].user \in Users /\ stream[s].box \in Boxes
    /\ stream[s].at = "hold" <=> stream[s].msg # 0

\* A post has a number of its own from the first section on, and members to go
\* to in the second, which one post at a time is in.
PostsTakeTurns ==
  /\ \A p \in Posts :
       /\ post[p].at = "idle" => post[p] = NoPost
       /\ post[p].at # "idle" => post[p].msg # 0
       /\ post[p].at # "fan" => post[p].todo = {}
       /\ post[p].full # None => post[p].full \in post[p].todo
  /\ \A p, q \in Posts : p # q =>
       /\ post[p].at # "idle" => post[p].msg # post[q].msg
       /\ post[p].at = "fan" => post[q].at # "fan"

\* A queue is one user's, and a queue of nobody's is empty.
OneOwner ==
  \A u, v \in Users, q \in Boxes : Has(u, q) /\ Has(v, q) => u = v
NobodysAreEmpty ==
  \A q \in Boxes : (\A u \in Users : ~Has(u, q)) => box[q] = <<>>

\* There is no message beyond the last number.
Numbered ==
  /\ \A q \in Boxes : \A i \in 1 .. Len(box[q]) : box[q][i] <= seq
  /\ \A u \in Users : due[u] \subseteq 1 .. seq /\ got[u] \subseteq 1 .. seq

\* A message is once in one of a user's queues, in one stream, or received.
OncePerQueue(u, m) ==
  \A q, r \in Boxes : \A i \in 1 .. Len(box[q]), j \in 1 .. Len(box[r]) :
    Has(u, q) /\ Has(u, r) /\ box[q][i] = m /\ box[r][j] = m => q = r /\ i = j
OncePerStream(u, m) ==
  \A s, t \in Streams :
    stream[s].user = u /\ stream[t].user = u /\ stream[s].msg = m /\ stream[t].msg = m
      => s = t
Apart(u, m) ==
  /\ ~(Waits(u, m) /\ Held(u, m))
  /\ ~(Waits(u, m) /\ m \in got[u])
  /\ ~(Held(u, m) /\ m \in got[u])

InOnePlace ==
  \A u \in Users, m \in Msgs : OncePerQueue(u, m) /\ OncePerStream(u, m) /\ Apart(u, m)

\* What is due is on the way or there.
DueIsKept ==
  \A u \in Users, m \in Msgs : m \in due[u] => ToCome(u, m) \/ ~Nowhere(u, m)

\* What a post has still to bring is nowhere yet.
NewIsNowhere ==
  \A p \in Posts, u \in Users :
    /\ post[p].at = "ready" => Nowhere(u, post[p].msg) /\ post[p].msg \notin due[u]
    /\ u \in post[p].todo => Nowhere(u, post[p].msg)

Shape == StreamsRead /\ PostsTakeTurns /\ OneOwner /\ NobodysAreEmpty /\ Numbered
Places == InOnePlace /\ DueIsKept /\ NewIsNowhere

\* The inductive invariant.
IInv == TypeOK /\ Shape /\ Places

-----------------------------------------------------------------------------
(* Queues.                                                                 *)

LEMMA BoundedSeqs ==
  ASSUME NEW s
  PROVE  s \in BoundedSeq(Msgs, Depth) <=> s \in Seq(Msgs) /\ Len(s) <= Depth
<1>1. Depth \in Nat
  BY ChatAssumption
<1>2. ASSUME s \in BoundedSeq(Msgs, Depth) PROVE s \in Seq(Msgs) /\ Len(s) <= Depth
  <2>1. PICK n \in 0 .. Depth : s \in [1 .. n -> Msgs]
    BY <1>2 DEF BoundedSeq, SeqOf
  <2> QED
    BY <1>1, <2>1
<1>3. ASSUME s \in Seq(Msgs), Len(s) <= Depth PROVE s \in BoundedSeq(Msgs, Depth)
  <2>1. Len(s) \in 0 .. Depth /\ s \in [1 .. Len(s) -> Msgs]
    BY <1>1, <1>3
  <2> QED
    BY <2>1 DEF BoundedSeq, SeqOf
<1> QED
  BY <1>2, <1>3

LEMMA BoxFacts ==
  ASSUME TypeOK, NEW q \in Boxes
  PROVE  /\ box[q] \in Seq(Msgs) /\ Len(box[q]) \in Nat /\ Len(box[q]) <= Depth
         /\ \A i \in 1 .. Len(box[q]) : box[q][i] \in Msgs
<1>1. box[q] \in Seq(Msgs) /\ Len(box[q]) <= Depth
  BY BoundedSeqs DEF TypeOK
<1> QED
  BY <1>1

\* One queue changes.
LEMMA BoxUpdate ==
  ASSUME TypeOK, NEW q \in Boxes, NEW s \in Seq(Msgs), Len(s) <= Depth,
         box' = [box EXCEPT ![q] = s]
  PROVE  /\ box' \in [Boxes -> BoundedSeq(Msgs, Depth)]
         /\ box'[q] = s
         /\ \A r \in Boxes : r # q => box'[r] = box[r]
  BY BoundedSeqs DEF TypeOK

\* A free queue is nobody's, and has nothing in it.
LEMMA FreeIsNobodys ==
  ASSUME IInv, NEW q \in Boxes, Free(q)
  PROVE  box[q] = <<>> /\ \A u \in Users : ~Has(u, q)
  BY DEF IInv, Shape, NobodysAreEmpty, Free, Has

LEMMA BoxesArePositive == 0 \notin Boxes /\ \A q \in Boxes : q \in Nat
  BY ChatAssumption

\* A stream that is open reads a queue that its user has.
LEMMA OpenStream ==
  ASSUME IInv, NEW s \in Streams, stream[s].at # "off"
  PROVE  /\ stream[s].user \in Users /\ stream[s].box \in Boxes
         /\ Has(stream[s].user, stream[s].box)
  BY DEF IInv, Shape, StreamsRead, Has

\* Where queues are only given up or emptied and streams only let go, a message
\* that was nowhere is nowhere, and any other in one place at most.
LEMMA NoMore ==
  ASSUME IInv,
         \A q \in Boxes : box'[q] = box[q] \/ box'[q] = <<>>,
         \A u \in Users, q \in Boxes : Has(u, q)' /\ box'[q] # <<>> => Has(u, q),
         \A s \in Streams : stream'[s].msg # 0 =>
           stream'[s].msg = stream[s].msg /\ stream'[s].user = stream[s].user,
         got' = got
  PROVE  /\ InOnePlace'
         /\ \A u \in Users, m \in Msgs : Nowhere(u, m) => Nowhere(u, m)'
<1>1. ASSUME NEW u \in Users, NEW q \in Boxes, NEW i \in 1 .. Len(box'[q]), Has(u, q)'
      PROVE  box'[q] = box[q] /\ Has(u, q)
  <2>1. box'[q] # <<>>
    OBVIOUS
  <2> QED
    BY <1>1, <2>1
<1>2. ASSUME NEW u \in Users, NEW m \in Msgs
      PROVE  OncePerQueue(u, m)'
  <2> SUFFICES ASSUME NEW q \in Boxes, NEW r \in Boxes,
                      NEW i \in 1 .. Len(box'[q]), NEW j \in 1 .. Len(box'[r]),
                      Has(u, q)', Has(u, r)', box'[q][i] = m, box'[r][j] = m
               PROVE  q = r /\ i = j
    BY DEF OncePerQueue
  <2>1. box'[q] = box[q] /\ Has(u, q) /\ box'[r] = box[r] /\ Has(u, r)
    BY <1>1
  <2> QED
    BY <2>1 DEF IInv, Places, InOnePlace, OncePerQueue
<1>3. ASSUME NEW u \in Users, NEW m \in Msgs, Waits(u, m)'
      PROVE  Waits(u, m)
  <2>1. PICK q \in Boxes : Has(u, q)' /\ InQueue(q, m)'
    BY <1>3 DEF Waits
  <2>2. PICK i \in 1 .. Len(box'[q]) : box'[q][i] = m
    BY <2>1 DEF InQueue
  <2>3. box'[q] = box[q] /\ Has(u, q)
    BY <1>1, <2>1
  <2> QED
    BY <2>2, <2>3 DEF Waits, InQueue
<1>4. ASSUME NEW u \in Users, NEW m \in Msgs, Held(u, m)'
      PROVE  Held(u, m)
  BY <1>4 DEF Held, Msgs
<1>5. ASSUME NEW u \in Users, NEW m \in Msgs
      PROVE  OncePerStream(u, m)'
  <2>1. m # 0
    BY DEF Msgs
  <2> QED
    BY <2>1 DEF IInv, Places, InOnePlace, OncePerStream
<1>6. ASSUME NEW u \in Users, NEW m \in Msgs
      PROVE  Apart(u, m)'
  BY <1>3, <1>4 DEF IInv, Places, InOnePlace, Apart
<1>7. InOnePlace'
  BY <1>2, <1>5, <1>6 DEF InOnePlace, Msgs
<1>8. ASSUME NEW u \in Users, NEW m \in Msgs, Nowhere(u, m)
      PROVE  Nowhere(u, m)'
  BY <1>3, <1>4, <1>8 DEF Nowhere
<1> QED
  BY <1>7, <1>8
\* The same for the users' promises, where posts and dues stay as well.
LEMMA NoMorePlaces ==
  ASSUME IInv,
         \A q \in Boxes : box'[q] = box[q] \/ box'[q] = <<>>,
         \A u \in Users, q \in Boxes : Has(u, q)' /\ box'[q] # <<>> => Has(u, q),
         \A s \in Streams : stream'[s].msg # 0 =>
           stream'[s].msg = stream[s].msg /\ stream'[s].user = stream[s].user,
         UNCHANGED <<got, post>>,
         \A u \in Users : due'[u] \subseteq due[u],
         \A u \in Users, m \in Msgs : m \in due'[u] /\ ~Nowhere(u, m) => ~Nowhere(u, m)'
  PROVE  Places'
<1>1. InOnePlace' /\ \A u \in Users, m \in Msgs : Nowhere(u, m) => Nowhere(u, m)'
  BY NoMore
<1>2. DueIsKept'
  <2> SUFFICES ASSUME NEW u \in Users, NEW m \in Msgs, m \in due'[u]
               PROVE  ToCome(u, m)' \/ ~Nowhere(u, m)'
    BY DEF DueIsKept, Msgs
  <2>1. ToCome(u, m) \/ ~Nowhere(u, m)
    BY DEF IInv, Places, DueIsKept
  <2> QED
    BY <2>1 DEF ToCome
<1>3. NewIsNowhere'
  <2> SUFFICES ASSUME NEW p \in Posts, NEW u \in Users
               PROVE  /\ post[p].at = "ready" =>
                           Nowhere(u, post[p].msg)' /\ post[p].msg \notin due'[u]
                      /\ u \in post[p].todo => Nowhere(u, post[p].msg)'
    BY DEF NewIsNowhere
  <2>1. CASE post[p].at = "ready" \/ u \in post[p].todo
    <3>1. post[p].msg \in Msgs
      <4>1. post[p].msg # 0
        BY <2>1 DEF IInv, Shape, PostsTakeTurns, NoPost
      <4> QED
        BY <4>1, ChatAssumption DEF IInv, TypeOK, Msgs
    <3> QED
      BY <1>1, <3>1 DEF IInv, Places, NewIsNowhere
  <2> QED
    BY <2>1
<1> QED
  BY <1>1, <1>2, <1>3 DEF Places

-----------------------------------------------------------------------------
(* Members and streams.                                                    *)

\* What join does: u has queue q, which was its own or nobody's.
LEMMA JoinEffect ==
  ASSUME IInv, NEW u \in Users, NEW q \in Boxes, Join(u, q)
  PROVE  /\ Unlocked /\ box' = box
         /\ member' \in [Users -> Boxes \cup {0}] /\ member'[u] = q
         /\ \A v \in Users : v # u => member'[v] = member[v]
         /\ \A v \in Users : member[v] # 0 => member'[v] = member[v]
         /\ \A v \in Users : Has(v, q) => v = u
         /\ Has(u, q) \/ box[q] = <<>>
<1>1. CASE member[u] = q /\ UNCHANGED <<member, box>>
  <2>1. Has(u, q)
    BY <1>1 DEF Has
  <2> QED
    BY <1>1, <2>1, BoxesArePositive DEF Join, IInv, TypeOK, Shape, OneOwner
<1>2. CASE /\ member[u] = 0 /\ Free(q) /\ UNCHANGED box
           /\ member' = [member EXCEPT ![u] = q]
  BY <1>2, FreeIsNobodys DEF Join, IInv, TypeOK
<1> QED
  BY <1>1, <1>2 DEF Join

\* Posts that are not under way have nothing to do with the members.
LEMMA PostTypes ==
  ASSUME IInv, Unlocked, post' = post, seq' = seq
  PROVE  post' \in [Posts -> [at : {"idle", "ready", "fan"}, msg : 0 .. seq',
                              todo : SUBSET Members', full : Members' \cup {None}]]
<1>1. ASSUME NEW p \in Posts
      PROVE  post[p] \in [at : {"idle", "ready", "fan"}, msg : 0 .. seq,
                          todo : SUBSET Members', full : Members' \cup {None}]
  <2>1. post[p].todo = {} /\ post[p].full = None
    BY DEF IInv, Shape, PostsTakeTurns, Unlocked
  <2> QED
    BY <2>1 DEF IInv, TypeOK
<1> QED
  BY <1>1 DEF IInv, TypeOK

\* Subscribe, and Listen with the stream that it opens.
LEMMA GainStep ==
  ASSUME IInv, NEW u \in Users, NEW q \in Boxes, Join(u, q),
         \/ stream' = stream
         \/ \E s \in Streams :
              /\ stream[s] = Closed
              /\ stream' = [stream EXCEPT ![s] =
                   [at |-> "read", user |-> u, box |-> q, msg |-> 0]],
         UNCHANGED <<seq, post, due, got, kairos>>
  PROVE  IInv'
<1>1. /\ Unlocked /\ box' = box
      /\ member' \in [Users -> Boxes \cup {0}] /\ member'[u] = q
      /\ \A v \in Users : v # u => member'[v] = member[v]
      /\ \A v \in Users : member[v] # 0 => member'[v] = member[v]
      /\ \A v \in Users : Has(v, q) => v = u
      /\ Has(u, q) \/ box[q] = <<>>
  BY JoinEffect
<1>2. /\ stream' \in [Streams -> [at : {"off", "read", "hold"}, user : Users \cup {None},
                                  box : Boxes \cup {0}, msg : 0 .. seq]]
      /\ \A s \in Streams :
           \/ stream'[s] = stream[s]
           \/ /\ stream[s] = Closed
              /\ stream'[s] = [at |-> "read", user |-> u, box |-> q, msg |-> 0]
  <2>1. 0 \in 0 .. seq
    BY DEF IInv, TypeOK
  <2> QED
    BY <2>1 DEF IInv, TypeOK
<1>3. TypeOK'
  <2>1. post' \in [Posts -> [at : {"idle", "ready", "fan"}, msg : 0 .. seq',
                             todo : SUBSET Members', full : Members' \cup {None}]]
    BY <1>1, PostTypes
  <2> QED
    BY <1>1, <1>2, <2>1 DEF IInv, TypeOK, kairos
<1>4. ASSUME NEW v \in Users, NEW r \in Boxes
      PROVE  Has(v, r)' <=> Has(v, r) \/ (v = u /\ r = q)
  <2>1. ASSUME Has(v, r)' PROVE Has(v, r) \/ (v = u /\ r = q)
    BY <1>1, <1>2, <2>1 DEF Has
  <2>2. ASSUME Has(v, r) PROVE Has(v, r)'
    <3>1. CASE member[v] = r
      BY <1>1, <3>1, BoxesArePositive DEF Has
    <3>2. ASSUME NEW s \in Streams, stream[s].user = v, stream[s].box = r
          PROVE  Has(v, r)'
      <4>1. stream[s] # Closed
        BY <3>2, BoxesArePositive DEF Closed
      <4> QED
        BY <1>2, <3>2, <4>1 DEF Has
    <3> QED
      BY <2>2, <3>1, <3>2 DEF Has
  <2>3. Has(u, q)'
    BY <1>1 DEF Has
  <2> QED
    BY <2>1, <2>2, <2>3
<1>5. Shape'
  <2>1. StreamsRead'
    BY <1>2 DEF IInv, Shape, StreamsRead
  <2>2. PostsTakeTurns'
    BY DEF IInv, Shape, PostsTakeTurns
  <2>3. OneOwner'
    BY <1>1, <1>4 DEF IInv, Shape, OneOwner
  <2>4. NobodysAreEmpty'
    BY <1>1, <1>4 DEF IInv, Shape, NobodysAreEmpty
  <2>5. Numbered'
    BY <1>1 DEF IInv, Shape, Numbered
  <2> QED
    BY <2>1, <2>2, <2>3, <2>4, <2>5 DEF Shape
<1>6. Places'
  <2>1. \A v \in Users, r \in Boxes : Has(v, r)' /\ box'[r] # <<>> => Has(v, r)
    BY <1>1, <1>4
  <2>2. \A s \in Streams : stream'[s].msg # 0 =>
          stream'[s].msg = stream[s].msg /\ stream'[s].user = stream[s].user
    BY <1>2
  <2>3. ASSUME NEW v \in Users, NEW m \in Msgs, ~Nowhere(v, m)
        PROVE  ~Nowhere(v, m)'
    <3>1. Waits(v, m) => Waits(v, m)'
      BY <1>1, <1>4 DEF Waits, InQueue
    <3>2. Held(v, m) => Held(v, m)'
      BY <1>2 DEF Held, Closed, Msgs
    <3> QED
      BY <2>3, <3>1, <3>2 DEF Nowhere
  <2> QED
    BY <1>1, <2>1, <2>2, <2>3, NoMorePlaces
<1> QED
  BY <1>3, <1>5, <1>6 DEF IInv
\* What is left of a user's queue and dues when a membership or a stream ends.
LEMMA LeaveEffect ==
  ASSUME IInv, NEW u \in Users, NEW q \in Boxes, NEW lost, Leave(u, q, lost)
  PROVE  /\ box' \in [Boxes -> BoundedSeq(Msgs, Depth)]
         /\ due' \in [Users -> SUBSET Msgs]
         /\ \A r \in Boxes : r # q => box'[r] = box[r]
         /\ \A v \in Users : due'[v] \subseteq due[v]
         /\ due'[u] \cap lost = {}
         /\ \/ box'[q] = box[q] /\ (Has(u, q)' \/ \E s \in Streams : stream'[s].box = q)
            \/ /\ box'[q] = <<>> /\ ~Has(u, q)'
               /\ \A i \in 1 .. Len(box[q]) : box[q][i] \notin due'[u]
<1>1. CASE /\ member'[u] = q \/ \E s \in Streams : stream'[s].box = q
           /\ due' = [due EXCEPT ![u] = @ \ lost] /\ box' = box
  BY <1>1 DEF Has, IInv, TypeOK
<1>2. CASE /\ ~(member'[u] = q \/ \E s \in Streams : stream'[s].box = q)
           /\ due' = [due EXCEPT ![u] = @ \ (lost \cup ToSet(box[q]))]
           /\ box' = [box EXCEPT ![q] = <<>>]
  <2>1. <<>> \in Seq(Msgs) /\ Len(<<>>) <= Depth
    BY ChatAssumption
  <2>2. /\ box' \in [Boxes -> BoundedSeq(Msgs, Depth)] /\ box'[q] = <<>>
        /\ \A r \in Boxes : r # q => box'[r] = box[r]
    BY <1>2, <2>1, BoxUpdate DEF IInv
  <2>3. ~Has(u, q)'
    BY <1>2 DEF Has
  <2>4. \A i \in 1 .. Len(box[q]) : box[q][i] \in ToSet(box[q])
    BY BoxFacts DEF IInv, ToSet
  <2> QED
    BY <1>2, <2>2, <2>3, <2>4 DEF IInv, TypeOK
<1> QED
  BY <1>1, <1>2 DEF Leave

\* A membership or a stream of u on queue q ends; lost was in its hand.
LEMMA LeaveStep ==
  ASSUME IInv, NEW u \in Users, NEW q \in Boxes, NEW lost, Leave(u, q, lost), Has(u, q),
         member' \in [Users -> Boxes \cup {0}],
         stream' \in [Streams -> [at : {"off", "read", "hold"}, user : Users \cup {None},
                                  box : Boxes \cup {0}, msg : 0 .. seq]],
         StreamsRead',
         post' \in [Posts -> [at : {"idle", "ready", "fan"}, msg : 0 .. seq,
                              todo : SUBSET Members', full : Members' \cup {None}]],
         \A v \in Users, r \in Boxes : Has(v, r)' => Has(v, r),
         \A v \in Users, r \in Boxes : Has(v, r) => Has(v, r)' \/ (v = u /\ r = q),
         \A s \in Streams : stream'[s].msg # 0 =>
           stream'[s].msg = stream[s].msg /\ stream'[s].user = stream[s].user,
         \A v \in Users, m \in Msgs : Held(v, m) => Held(v, m)' \/ (v = u /\ m \in lost),
         UNCHANGED <<seq, post, got, kairos>>
  PROVE  IInv'
<1>1. /\ box' \in [Boxes -> BoundedSeq(Msgs, Depth)]
      /\ due' \in [Users -> SUBSET Msgs]
      /\ \A r \in Boxes : r # q => box'[r] = box[r]
      /\ \A v \in Users : due'[v] \subseteq due[v]
      /\ due'[u] \cap lost = {}
      /\ \/ box'[q] = box[q] /\ (Has(u, q)' \/ \E s \in Streams : stream'[s].box = q)
         \/ /\ box'[q] = <<>> /\ ~Has(u, q)'
            /\ \A i \in 1 .. Len(box[q]) : box[q][i] \notin due'[u]
  BY LeaveEffect
<1>2. TypeOK'
  BY <1>1 DEF IInv, TypeOK, kairos
<1>3. ASSUME NEW s \in Streams, stream'[s].box = q
      PROVE  Has(u, q)'
  <2>1. stream'[s].at # "off"
    BY <1>3, BoxesArePositive DEF StreamsRead, Closed
  <2>2. PICK v \in Users : stream'[s].user = v
    BY <2>1 DEF StreamsRead
  <2>3. Has(v, q)'
    BY <1>3, <2>2 DEF Has
  <2>4. v = u
    BY <2>3 DEF IInv, Shape, OneOwner
  <2> QED
    BY <2>3, <2>4
<1>4. Shape'
  <2>1. PostsTakeTurns'
    BY DEF IInv, Shape, PostsTakeTurns
  <2>2. OneOwner'
    BY DEF IInv, Shape, OneOwner
  <2>3. NobodysAreEmpty'
    <3> SUFFICES ASSUME NEW r \in Boxes, \A v \in Users : ~Has(v, r)'
                 PROVE  box'[r] = <<>>
      BY DEF NobodysAreEmpty
    <3>1. CASE r = q
      BY <1>1, <1>3, <3>1
    <3>2. CASE r # q
      BY <1>1, <3>2 DEF IInv, Shape, NobodysAreEmpty
    <3> QED
      BY <3>1, <3>2
  <2>4. Numbered'
    <3>1. ASSUME NEW r \in Boxes, NEW i \in 1 .. Len(box'[r])
          PROVE  box'[r][i] <= seq
      <4>1. box'[r] = box[r]
        BY <1>1, <3>1
      <4> QED
        BY <4>1 DEF IInv, Shape, Numbered
    <3> QED
      BY <1>1, <3>1 DEF IInv, Shape, Numbered
  <2> QED
    BY <2>1, <2>2, <2>3, <2>4 DEF Shape
<1>5. ASSUME NEW v \in Users, NEW m \in Msgs, m \in due'[v], ~Nowhere(v, m)
      PROVE  ~Nowhere(v, m)'
  <2>1. ASSUME NEW r \in Boxes, Has(v, r), NEW i \in 1 .. Len(box[r]), box[r][i] = m
        PROVE  Waits(v, m)'
    <3>1. CASE r = q
      <4>1. v = u
        BY <2>1, <3>1 DEF IInv, Shape, OneOwner
      <4>2. box'[q] = box[q] /\ Has(u, q)'
        BY <1>1, <1>3, <1>5, <2>1, <3>1, <4>1
      <4> QED
        BY <2>1, <3>1, <4>1, <4>2 DEF Waits, InQueue
    <3>2. CASE r # q
      BY <1>1, <2>1, <3>2 DEF Waits, InQueue
    <3> QED
      BY <3>1, <3>2
  <2>2. Waits(v, m) => Waits(v, m)'
    BY <2>1 DEF Waits, InQueue
  <2>3. Held(v, m) => Held(v, m)'
    BY <1>1, <1>5
  <2> QED
    BY <1>5, <2>2, <2>3 DEF Nowhere
<1>6. Places'
  BY <1>1, <1>5, NoMorePlaces
<1> QED
  BY <1>2, <1>4, <1>6 DEF IInv

LEMMA UnsubscribeStep ==
  ASSUME IInv, NEW u \in Users, Unsubscribe(u)
  PROVE  IInv'
<1> DEFINE q == member[u]
<1>1. q \in Boxes /\ Has(u, q)
  BY DEF Unsubscribe, IInv, TypeOK, Has
<1>2. /\ member' \in [Users -> Boxes \cup {0}] /\ member'[u] = 0
      /\ \A v \in Users : v # u => member'[v] = member[v]
  BY DEF Unsubscribe, IInv, TypeOK
<1>3. post' \in [Posts -> [at : {"idle", "ready", "fan"}, msg : 0 .. seq',
                           todo : SUBSET Members', full : Members' \cup {None}]]
  BY PostTypes DEF Unsubscribe
<1>4. StreamsRead'
  BY DEF Unsubscribe, IInv, Shape, StreamsRead
<1>5. \A v \in Users, r \in Boxes : Has(v, r)' => Has(v, r)
  BY <1>2, BoxesArePositive DEF Unsubscribe, Has
<1>6. \A v \in Users, r \in Boxes : Has(v, r) => Has(v, r)' \/ (v = u /\ r = q)
  BY <1>2 DEF Unsubscribe, Has
<1>7. \A v \in Users, m \in Msgs : Held(v, m) => Held(v, m)'
  BY DEF Unsubscribe, Held
<1>8. /\ Leave(u, q, {}) /\ UNCHANGED <<seq, post, got, kairos>>
      /\ stream' = stream
      /\ stream' \in [Streams -> [at : {"off", "read", "hold"}, user : Users \cup {None},
                                  box : Boxes \cup {0}, msg : 0 .. seq]]
  BY DEF Unsubscribe, IInv, TypeOK
<1> HIDE DEF q
<1> QED
  BY <1>1, <1>2, <1>3, <1>4, <1>5, <1>6, <1>7, <1>8, LeaveStep

\* WriteFails and Close: a stream ends, with nothing or one message in hand.
LEMMA StreamEndStep ==
  ASSUME IInv, NEW s \in Streams, WriteFails(s) \/ Close(s)
  PROVE  IInv'
<1> DEFINE u == stream[s].user
           q == stream[s].box
           lost == IF stream[s].at = "hold" THEN {stream[s].msg} ELSE {}
<1>1. /\ stream[s].at # "off" /\ stream' = [stream EXCEPT ![s] = Closed]
      /\ Leave(u, q, lost) /\ UNCHANGED <<member, seq, post, got, kairos>>
  BY DEF WriteFails, Close
<1>2. u \in Users /\ q \in Boxes /\ Has(u, q)
  BY <1>1, OpenStream
<1>3. /\ stream' \in [Streams -> [at : {"off", "read", "hold"}, user : Users \cup {None},
                                  box : Boxes \cup {0}, msg : 0 .. seq]]
      /\ stream'[s] = Closed
      /\ \A t \in Streams : t # s => stream'[t] = stream[t]
  <2>1. Closed \in [at : {"off", "read", "hold"}, user : Users \cup {None},
                    box : Boxes \cup {0}, msg : 0 .. seq]
    BY DEF Closed, IInv, TypeOK
  <2> QED
    BY <1>1, <2>1 DEF IInv, TypeOK
<1>4. StreamsRead'
  BY <1>3 DEF IInv, Shape, StreamsRead, Closed
<1>5. \A v \in Users, r \in Boxes : Has(v, r)' => Has(v, r)
  BY <1>1, <1>3, BoxesArePositive DEF Has, Closed
<1>6. \A v \in Users, r \in Boxes : Has(v, r) => Has(v, r)' \/ (v = u /\ r = q)
  BY <1>1, <1>3 DEF Has
<1>7. \A t \in Streams : stream'[t].msg # 0 =>
        stream'[t].msg = stream[t].msg /\ stream'[t].user = stream[t].user
  BY <1>3 DEF Closed
<1>8. \A v \in Users, m \in Msgs : Held(v, m) => Held(v, m)' \/ (v = u /\ m \in lost)
  <2>1. stream[s].at # "hold" => stream[s].msg = 0
    BY DEF IInv, Shape, StreamsRead
  <2> QED
    BY <1>3, <2>1 DEF Held, Msgs
<1>9. /\ member' \in [Users -> Boxes \cup {0}]
      /\ post' \in [Posts -> [at : {"idle", "ready", "fan"}, msg : 0 .. seq,
                              todo : SUBSET Members', full : Members' \cup {None}]]
  BY <1>1 DEF IInv, TypeOK, Members
<1> HIDE DEF u, q, lost
<1> QED
  BY <1>1, <1>2, <1>3, <1>4, <1>5, <1>6, <1>7, <1>8, <1>9, LeaveStep
-----------------------------------------------------------------------------
(* Messages from a queue to their user.                                    *)

\* What a post that is under way carries is a message.
LEMMA PostedMsg ==
  ASSUME IInv, NEW p \in Posts, post[p].at # "idle" \/ post[p].todo # {}
  PROVE  post[p].at # "idle" /\ post[p].msg \in Msgs /\ post[p].msg \in 1 .. seq
<1>1. post[p].at # "idle" /\ post[p].msg # 0
  BY DEF IInv, Shape, PostsTakeTurns, NoPost
<1>2. post[p].msg \in 0 .. seq /\ seq \in 0 .. MaxSeq
  BY DEF IInv, TypeOK
<1> QED
  BY <1>1, <1>2, ChatAssumption DEF Msgs
\* Another message in a stream's hand.
LEMMA MsgInHand ==
  ASSUME NEW U, NEW B, NEW M, NEW k \in M, NEW at \in {"off", "read", "hold"},
         NEW x \in [at : {"off", "read", "hold"}, user : U, box : B, msg : M]
  PROVE  [x EXCEPT !.at = at, !.msg = k] \in
           [at : {"off", "read", "hold"}, user : U, box : B, msg : M]
<1>1. [x EXCEPT !.at = at] \in [at : {"off", "read", "hold"}, user : U, box : B, msg : M]
  OBVIOUS
<1> QED
  BY <1>1

LEMMA TakeStep ==
  ASSUME IInv, NEW s \in Streams, Take(s)
  PROVE  IInv'
<1> DEFINE u == stream[s].user
           q == stream[s].box
           k == Head(box[q])
<1>1. u \in Users /\ q \in Boxes /\ Has(u, q)
  BY OpenStream DEF Take
<1>2. /\ box[q] \in Seq(Msgs) /\ box[q] # <<>> /\ Len(box[q]) <= Depth /\ Len(box[q]) \in Nat
      /\ Tail(box[q]) \in Seq(Msgs) /\ Len(Tail(box[q])) = Len(box[q]) - 1
      /\ \A i \in 1 .. Len(Tail(box[q])) : Tail(box[q])[i] = box[q][i + 1]
      /\ k = box[q][1] /\ 1 \in 1 .. Len(box[q]) /\ k \in Msgs
  BY <1>1, BoxFacts, HeadTailProperties DEF Take, IInv
<1>3. k <= seq /\ k \in 1 .. seq
  BY <1>1, <1>2 DEF IInv, TypeOK, Shape, Numbered, Msgs
<1>4. /\ box' \in [Boxes -> BoundedSeq(Msgs, Depth)] /\ box'[q] = Tail(box[q])
      /\ \A r \in Boxes : r # q => box'[r] = box[r]
  <2>1. Len(Tail(box[q])) <= Depth
    BY <1>2, ChatAssumption
  <2> QED
    BY <1>1, <1>2, <2>1, BoxUpdate DEF Take, IInv
<1>5. /\ stream' \in [Streams -> [at : {"off", "read", "hold"}, user : Users \cup {None},
                                  box : Boxes \cup {0}, msg : 0 .. seq]]
      /\ stream'[s].at = "hold" /\ stream'[s].msg = k
      /\ stream'[s].user = u /\ stream'[s].box = q
      /\ \A t \in Streams : t # s => stream'[t] = stream[t]
  <2>1. [stream[s] EXCEPT !.at = "hold", !.msg = k] \in
          [at : {"off", "read", "hold"}, user : Users \cup {None},
           box : Boxes \cup {0}, msg : 0 .. seq]
    <3>1. k \in 0 .. seq /\ "hold" \in {"off", "read", "hold"}
      BY <1>3, ChatAssumption DEF IInv, TypeOK
    <3>2. stream[s] \in [at : {"off", "read", "hold"}, user : Users \cup {None},
                         box : Boxes \cup {0}, msg : 0 .. seq]
      BY DEF IInv, TypeOK
    <3> QED
      BY <3>1, <3>2, MsgInHand
  <2> QED
    BY <2>1 DEF Take, IInv, TypeOK
<1>6. stream[s].msg = 0
  BY DEF Take, IInv, Shape, StreamsRead
<1>7. UNCHANGED <<member, seq, post, due, got, kairos>>
  BY DEF Take
<1> HIDE DEF u, q, k
<1>8. TypeOK'
  BY <1>4, <1>5, <1>7 DEF IInv, TypeOK, Members, kairos
<1>9. \A v \in Users, r \in Boxes : Has(v, r)' <=> Has(v, r)
  BY <1>5, <1>7 DEF Has, u, q
<1>10. \A v \in Users : Has(v, q) => v = u
  BY <1>1 DEF IInv, Shape, OneOwner
<1>11. Shape'
  <2>1. StreamsRead'
    BY <1>1, <1>2, <1>5, <1>7 DEF IInv, Shape, StreamsRead, Msgs
  <2>2. PostsTakeTurns'
    BY <1>7 DEF IInv, Shape, PostsTakeTurns
  <2>3. OneOwner'
    BY <1>9 DEF IInv, Shape, OneOwner
  <2>4. NobodysAreEmpty'
    BY <1>1, <1>4, <1>9 DEF IInv, Shape, NobodysAreEmpty
  <2>5. ASSUME NEW r \in Boxes, NEW i \in 1 .. Len(box'[r])
        PROVE  box'[r][i] <= seq
    <3>1. CASE r = q
      <4>1. box'[r] = Tail(box[q]) /\ i \in 1 .. Len(Tail(box[q]))
        BY <1>4, <2>5, <3>1
      <4>3. box'[r][i] = box[q][i + 1] /\ i + 1 \in 1 .. Len(box[q])
        BY <1>2, <4>1
      <4>2. \A j \in 1 .. Len(box[q]) : box[q][j] <= seq
        BY <1>1 DEF IInv, Shape, Numbered
      <4> QED
        BY <4>2, <4>3
    <3>2. CASE r # q
      BY <1>4, <2>5, <3>2 DEF IInv, Shape, Numbered
    <3> QED
      BY <3>1, <3>2
  <2>6. Numbered'
    BY <1>7, <2>5 DEF IInv, Shape, Numbered
  <2> QED
    BY <2>1, <2>2, <2>3, <2>4, <2>6 DEF Shape
\* Each place in a queue was one before, and not the first of queue q.
<1>12. ASSUME NEW v \in Users, NEW r \in Boxes, Has(v, r), NEW i \in 1 .. Len(box'[r])
       PROVE  \/ r # q /\ box'[r] = box[r]
              \/ r = q /\ i + 1 \in 1 .. Len(box[q]) /\ box'[r][i] = box[q][i + 1]
  <2>1. CASE r = q
    <3>1. i \in 1 .. Len(Tail(box[q])) /\ box'[r] = Tail(box[q])
      BY <1>4, <1>12, <2>1
    <3>2. i + 1 \in 1 .. Len(box[q])
      BY <1>2, <3>1
    <3> QED
      BY <1>2, <2>1, <3>1, <3>2
  <2> QED
    BY <1>4, <2>1
<1>13. ASSUME NEW v \in Users, NEW m \in Msgs
       PROVE  OncePerQueue(v, m) /\ OncePerStream(v, m) /\ Apart(v, m)
  BY DEF IInv, Places, InOnePlace
<1>14. ASSUME NEW v \in Users, NEW m \in Msgs
       PROVE  OncePerQueue(v, m)'
  <2> SUFFICES ASSUME NEW r \in Boxes, NEW o \in Boxes,
                      NEW i \in 1 .. Len(box'[r]), NEW j \in 1 .. Len(box'[o]),
                      Has(v, r), Has(v, o), box'[r][i] = m, box'[o][j] = m
               PROVE  r = o /\ i = j
    BY <1>9 DEF OncePerQueue
  <2>1. \/ r # q /\ box'[r] = box[r]
        \/ r = q /\ i + 1 \in 1 .. Len(box[q]) /\ box'[r][i] = box[q][i + 1]
    BY <1>12
  <2>2. \/ o # q /\ box'[o] = box[o]
        \/ o = q /\ j + 1 \in 1 .. Len(box[q]) /\ box'[o][j] = box[q][j + 1]
    BY <1>12
  <2> QED
    BY <1>13, <2>1, <2>2 DEF OncePerQueue
<1>15. ASSUME NEW v \in Users, NEW m \in Msgs
       PROVE  Waits(v, m)' <=> Waits(v, m) /\ ~(v = u /\ m = k)
  <2>1. ASSUME Waits(v, m)' PROVE Waits(v, m) /\ ~(v = u /\ m = k)
    <3>1. PICK r \in Boxes : Has(v, r) /\ InQueue(r, m)'
      BY <1>9, <2>1 DEF Waits
    <3>2. PICK i \in 1 .. Len(box'[r]) : box'[r][i] = m
      BY <3>1 DEF InQueue
    <3>3. CASE r # q /\ box'[r] = box[r]
      <4>1. Waits(v, m)
        BY <3>1, <3>2, <3>3 DEF Waits, InQueue
      <4>2. ~(v = u /\ m = k)
        BY <1>1, <1>2, <1>13, <3>1, <3>2, <3>3 DEF OncePerQueue
      <4> QED
        BY <4>1, <4>2
    <3>4. CASE r = q /\ i + 1 \in 1 .. Len(box[q]) /\ box'[r][i] = box[q][i + 1]
      <4>1. Waits(v, m)
        BY <3>1, <3>2, <3>4 DEF Waits, InQueue
      <4>2. ~(v = u /\ m = k)
        <5>1. i + 1 # 1
          OBVIOUS
        <5> QED
          BY <1>1, <1>2, <1>13, <3>2, <3>4, <5>1 DEF OncePerQueue
      <4> QED
        BY <4>1, <4>2
    <3> QED
      BY <1>12, <3>1, <3>2, <3>3, <3>4
  <2>2. ASSUME Waits(v, m), ~(v = u /\ m = k) PROVE Waits(v, m)'
    <3>1. PICK r \in Boxes : Has(v, r) /\ InQueue(r, m)
      BY <2>2 DEF Waits
    <3>2. PICK i \in 1 .. Len(box[r]) : box[r][i] = m
      BY <3>1 DEF InQueue
    <3>3. CASE r # q
      BY <1>4, <1>9, <3>1, <3>2, <3>3 DEF Waits, InQueue
    <3>4. CASE r = q
      <4>1. i # 1
        BY <1>2, <1>10, <2>2, <3>1, <3>2, <3>4
      <4>2. i - 1 \in 1 .. Len(Tail(box[q])) /\ Tail(box[q])[i - 1] = m
        BY <1>2, <3>2, <3>4, <4>1
      <4> QED
        BY <1>4, <1>9, <3>1, <3>4, <4>2 DEF Waits, InQueue
    <3> QED
      BY <3>3, <3>4
  <2> QED
    BY <2>1, <2>2
<1>16. ASSUME NEW v \in Users, NEW m \in Msgs
       PROVE  Held(v, m)' <=> Held(v, m) \/ (v = u /\ m = k)
  BY <1>5, <1>6 DEF Held, Msgs
<1>17. Waits(u, k)
  BY <1>1, <1>2 DEF Waits, InQueue
<1>18. ASSUME NEW v \in Users, NEW m \in Msgs
       PROVE  OncePerStream(v, m)' /\ Apart(v, m)'
  <2>1. OncePerStream(v, m)'
    <3>1. v = u /\ m = k => ~Held(v, m)
      BY <1>13, <1>17 DEF Apart
    <3> QED
      BY <1>5, <1>13, <3>1 DEF OncePerStream, Held
  <2>2. Apart(v, m)'
    BY <1>2, <1>7, <1>13, <1>15, <1>16, <1>17 DEF Apart
  <2> QED
    BY <2>1, <2>2
<1>19. ASSUME NEW v \in Users, NEW m \in Msgs
       PROVE  Nowhere(v, m)' <=> Nowhere(v, m)
  BY <1>2, <1>7, <1>15, <1>16, <1>17 DEF Nowhere
<1>20. Places'
  <2>1. InOnePlace'
    BY <1>14, <1>18 DEF InOnePlace, Msgs
  <2>2. DueIsKept'
    BY <1>7, <1>19 DEF IInv, Places, DueIsKept, ToCome, Msgs
  <2>3. NewIsNowhere'
    BY <1>7, <1>19, PostedMsg DEF IInv, Places, NewIsNowhere
  <2> QED
    BY <2>1, <2>2, <2>3 DEF Places
<1> QED
  BY <1>8, <1>11, <1>20 DEF IInv
LEMMA WriteStep ==
  ASSUME IInv, NEW s \in Streams, Write(s)
  PROVE  IInv'
<1> DEFINE u == stream[s].user
           k == stream[s].msg
<1>1. u \in Users /\ stream[s].at = "hold" /\ k # 0
  BY OpenStream DEF Write, IInv, Shape, StreamsRead
<1>2. k \in 1 .. seq /\ k \in Msgs
  <2>1. k \in 0 .. seq /\ seq \in 0 .. MaxSeq
    BY DEF IInv, TypeOK
  <2> QED
    BY <1>1, <2>1, ChatAssumption DEF Msgs
<1>3. /\ stream' \in [Streams -> [at : {"off", "read", "hold"}, user : Users \cup {None},
                                  box : Boxes \cup {0}, msg : 0 .. seq]]
      /\ stream'[s].at = "read" /\ stream'[s].msg = 0
      /\ stream'[s].user = u /\ stream'[s].box = stream[s].box
      /\ \A t \in Streams : t # s => stream'[t] = stream[t]
  <2>1. /\ 0 \in 0 .. seq /\ "read" \in {"off", "read", "hold"}
        /\ stream[s] \in [at : {"off", "read", "hold"}, user : Users \cup {None},
                          box : Boxes \cup {0}, msg : 0 .. seq]
    BY DEF IInv, TypeOK
  <2>2. [stream[s] EXCEPT !.at = "read", !.msg = 0] \in
          [at : {"off", "read", "hold"}, user : Users \cup {None},
           box : Boxes \cup {0}, msg : 0 .. seq]
    BY <2>1, MsgInHand
  <2> QED
    BY <2>2 DEF Write, IInv, TypeOK
<1>4. /\ got' \in [Users -> SUBSET Msgs] /\ got'[u] = got[u] \cup {k}
      /\ \A v \in Users : v # u => got'[v] = got[v]
  BY <1>1, <1>2 DEF Write, IInv, TypeOK
<1>5. UNCHANGED <<member, box, seq, post, due, kairos>>
  BY DEF Write
<1> HIDE DEF u, k
<1>6. TypeOK'
  BY <1>3, <1>4, <1>5 DEF IInv, TypeOK, Members, kairos
<1>7. \A v \in Users, r \in Boxes : Has(v, r)' <=> Has(v, r)
  BY <1>3, <1>5 DEF Has, u
<1>8. Shape'
  <2>1. StreamsRead'
    BY <1>1, <1>3, <1>5 DEF IInv, Shape, StreamsRead, u
  <2>2. PostsTakeTurns'
    BY <1>5 DEF IInv, Shape, PostsTakeTurns
  <2>3. OneOwner' /\ NobodysAreEmpty'
    BY <1>5, <1>7 DEF IInv, Shape, OneOwner, NobodysAreEmpty
  <2>4. Numbered'
    BY <1>2, <1>4, <1>5 DEF IInv, Shape, Numbered
  <2> QED
    BY <2>1, <2>2, <2>3, <2>4 DEF Shape
<1>9. ASSUME NEW v \in Users, NEW m \in Msgs
      PROVE  OncePerQueue(v, m) /\ OncePerStream(v, m) /\ Apart(v, m)
  BY DEF IInv, Places, InOnePlace
<1>10. ASSUME NEW v \in Users, NEW m \in Msgs
       PROVE  Waits(v, m)' <=> Waits(v, m)
  BY <1>5, <1>7 DEF Waits, InQueue
<1>11. Held(u, k)
  BY DEF Held, u, k
<1>12. ASSUME NEW v \in Users, NEW m \in Msgs
       PROVE  Held(v, m)' <=> Held(v, m) /\ ~(v = u /\ m = k)
  <2>1. m # 0
    BY DEF Msgs
  <2>2. ASSUME Held(v, m)' PROVE Held(v, m) /\ ~(v = u /\ m = k)
    <3>1. PICK t \in Streams : t # s /\ stream[t].user = v /\ stream[t].msg = m
      BY <1>3, <2>1, <2>2 DEF Held
    <3> QED
      BY <1>9, <3>1 DEF Held, OncePerStream, u, k
  <2>3. ASSUME Held(v, m), ~(v = u /\ m = k) PROVE Held(v, m)'
    BY <1>3, <2>3 DEF Held, u, k
  <2> QED
    BY <2>2, <2>3
<1>13. ASSUME NEW v \in Users, NEW m \in Msgs
       PROVE  OncePerQueue(v, m)' /\ OncePerStream(v, m)' /\ Apart(v, m)'
  <2>1. OncePerQueue(v, m)'
    BY <1>5, <1>7, <1>9 DEF OncePerQueue
  <2>2. OncePerStream(v, m)'
    BY <1>3, <1>9 DEF OncePerStream, Msgs
  <2>3. Apart(v, m)'
    BY <1>1, <1>4, <1>9, <1>10, <1>11, <1>12 DEF Apart
  <2> QED
    BY <2>1, <2>2, <2>3
<1>14. ASSUME NEW v \in Users, NEW m \in Msgs
       PROVE  Nowhere(v, m)' <=> Nowhere(v, m)
  BY <1>4, <1>10, <1>11, <1>12 DEF Nowhere
<1>15. Places'
  <2>1. InOnePlace'
    BY <1>13 DEF InOnePlace, Msgs
  <2>2. DueIsKept'
    BY <1>5, <1>14 DEF IInv, Places, DueIsKept, ToCome, Msgs
  <2>3. NewIsNowhere'
    BY <1>5, <1>14, PostedMsg DEF IInv, Places, NewIsNowhere
  <2> QED
    BY <2>1, <2>2, <2>3 DEF Places
<1> QED
  BY <1>6, <1>8, <1>15 DEF IInv

-----------------------------------------------------------------------------
(* Messages from a post to the queues.                                     *)

\* Where queues, streams and receipts stay, so do all places.
LEMMA SamePlaces ==
  ASSUME IInv, UNCHANGED <<member, box, stream, got>>
  PROVE  /\ \A u \in Users, q \in Boxes : Has(u, q)' <=> Has(u, q)
         /\ \A u \in Users, m \in Msgs : Nowhere(u, m)' <=> Nowhere(u, m)
         /\ InOnePlace'
<1>1. \A u \in Users, q \in Boxes : Has(u, q)' <=> Has(u, q)
  BY DEF Has
<1>2. \A u \in Users, m \in Msgs : Waits(u, m)' <=> Waits(u, m)
  BY <1>1 DEF Waits, InQueue
<1>3. \A u \in Users, m \in Msgs : Held(u, m)' <=> Held(u, m)
  BY DEF Held
<1>4. InOnePlace'
  <2> SUFFICES ASSUME NEW u \in Users, NEW m \in Msgs
               PROVE  OncePerQueue(u, m)' /\ OncePerStream(u, m)' /\ Apart(u, m)'
    BY DEF InOnePlace, Msgs
  <2>1. OncePerQueue(u, m) /\ OncePerStream(u, m) /\ Apart(u, m)
    BY DEF IInv, Places, InOnePlace
  <2>2. OncePerQueue(u, m)'
    BY <1>1, <2>1 DEF OncePerQueue
  <2>3. OncePerStream(u, m)'
    BY <2>1 DEF OncePerStream
  <2>4. Apart(u, m)'
    BY <1>2, <1>3, <2>1 DEF Apart
  <2> QED
    BY <2>2, <2>3, <2>4
<1> QED
  BY <1>1, <1>2, <1>3, <1>4 DEF Nowhere

\* A message with a new number is nowhere.
LEMMA NewNumber ==
  ASSUME IInv, NEW u \in Users
  PROVE  Nowhere(u, seq + 1) /\ seq + 1 \notin due[u]
<1>1. seq \in Nat /\ seq + 1 > seq
  BY DEF IInv, TypeOK
<1>2. ~Waits(u, seq + 1)
  <2> SUFFICES ASSUME NEW q \in Boxes, NEW i \in 1 .. Len(box[q])
               PROVE  box[q][i] # seq + 1
    BY DEF Waits, InQueue
  <2>1. box[q][i] <= seq /\ box[q][i] \in Msgs
    BY BoxFacts DEF IInv, Shape, Numbered
  <2> QED
    BY <1>1, <2>1 DEF Msgs
<1>3. ~Held(u, seq + 1)
  <2> SUFFICES ASSUME NEW s \in Streams PROVE stream[s].msg # seq + 1
    BY DEF Held
  <2>1. stream[s].msg \in 0 .. seq
    BY DEF IInv, TypeOK
  <2> QED
    BY <1>1, <2>1
<1> QED
  BY <1>1, <1>2, <1>3 DEF Nowhere, IInv, Shape, Numbered

LEMMA NumberStep ==
  ASSUME IInv, NEW p \in Posts, Number(p)
  PROVE  IInv'
<1> DEFINE k == seq + 1
<1>1. /\ seq \in Nat /\ seq < MaxSeq /\ MaxSeq \in Nat /\ seq' = k /\ k \in Nat
      /\ UNCHANGED <<member, box, stream, due, got, kairos>> /\ post[p] = NoPost
      /\ k \in 1 .. MaxSeq
  BY ChatAssumption DEF Number, IInv, TypeOK
<1>2. /\ post'[p] = [at |-> "ready", msg |-> k, todo |-> {}, full |-> None]
      /\ \A q \in Posts : q # p => post'[q] = post[q]
      /\ post' \in [Posts -> [at : {"idle", "ready", "fan"}, msg : 0 .. k,
                              todo : SUBSET Members, full : Members \cup {None}]]
  <2>1. 0 .. seq \subseteq 0 .. k /\ k \in 0 .. k
    BY <1>1
  <2>2. \A q \in Posts : post[q] \in [at : {"idle", "ready", "fan"}, msg : 0 .. k,
                                      todo : SUBSET Members, full : Members \cup {None}]
    BY <2>1 DEF IInv, TypeOK
  <2>3. [at |-> "ready", msg |-> k, todo |-> {}, full |-> None] \in
          [at : {"idle", "ready", "fan"}, msg : 0 .. k,
           todo : SUBSET Members, full : Members \cup {None}]
    BY <2>1
  <2>4. post' = [post EXCEPT ![p] = [at |-> "ready", msg |-> k, todo |-> {}, full |-> None]]
    BY <1>1 DEF Number
  <2> HIDE DEF k
  <2> QED
    BY <2>2, <2>3, <2>4 DEF IInv, TypeOK
<1>3. TypeOK'
  <2>1. stream \in [Streams -> [at : {"off", "read", "hold"}, user : Users \cup {None},
                                box : Boxes \cup {0}, msg : 0 .. k]]
    <3>1. 0 .. seq \subseteq 0 .. k
      BY <1>1
    <3> HIDE DEF k
    <3>2. \A s \in Streams : stream[s] \in
            [at : {"off", "read", "hold"}, user : Users \cup {None},
             box : Boxes \cup {0}, msg : 0 .. k]
      BY <3>1 DEF IInv, TypeOK
    <3> QED
      BY <3>2 DEF IInv, TypeOK
  <2>2. k \in 0 .. MaxSeq
    BY <1>1
  <2> HIDE DEF k
  <2> QED
    BY <1>1, <1>2, <2>1, <2>2 DEF IInv, TypeOK, Members, kairos
<1>4. /\ \A u \in Users, q \in Boxes : Has(u, q)' <=> Has(u, q)
      /\ \A u \in Users, m \in Msgs : Nowhere(u, m)' <=> Nowhere(u, m)
      /\ InOnePlace'
  BY <1>1, SamePlaces
<1>5. ASSUME NEW q \in Posts PROVE post[q].msg # k
  <2>1. post[q].msg \in 0 .. seq
    BY DEF IInv, TypeOK
  <2> QED
    BY <1>1, <2>1
<1>6. Shape'
  <2>1. StreamsRead'
    BY <1>1 DEF IInv, Shape, StreamsRead
  <2>2. PostsTakeTurns'
    <3>1. k # 0
      BY <1>1
    <3> HIDE DEF k
    <3> QED
      BY <1>2, <1>5, <3>1 DEF IInv, Shape, PostsTakeTurns
  <2>3. OneOwner' /\ NobodysAreEmpty'
    BY <1>1, <1>4 DEF IInv, Shape, OneOwner, NobodysAreEmpty
  <2>4. Numbered'
    <3>1. ASSUME NEW q \in Boxes, NEW i \in 1 .. Len(box[q]) PROVE box[q][i] <= k
      <4>1. box[q][i] <= seq /\ box[q][i] \in Nat
        BY BoxFacts DEF IInv, Shape, Numbered, Msgs
      <4> QED
        BY <1>1, <4>1
    <3>2. 1 .. seq \subseteq 1 .. k
      BY <1>1
    <3> HIDE DEF k
    <3> QED
      BY <1>1, <3>1, <3>2 DEF IInv, Shape, Numbered
  <2> QED
    BY <2>1, <2>2, <2>3, <2>4 DEF Shape
<1>7. Places'
  <2>1. DueIsKept'
    <3> SUFFICES ASSUME NEW u \in Users, NEW m \in Msgs, m \in due[u]
                 PROVE  ToCome(u, m)' \/ ~Nowhere(u, m)'
      BY <1>1 DEF DueIsKept, Msgs
    <3>1. CASE ~Nowhere(u, m)
      BY <1>4, <3>1
    <3>2. ASSUME NEW q \in Posts, post[q].msg = m, u \in post[q].todo
          PROVE  ToCome(u, m)'
      <4>1. q # p
        BY <1>1, <3>2 DEF NoPost
      <4> QED
        BY <1>2, <3>2, <4>1 DEF ToCome
    <3> QED
      BY <3>1, <3>2 DEF IInv, Places, DueIsKept, ToCome
  <2>2. NewIsNowhere'
    <3> SUFFICES ASSUME NEW q \in Posts, NEW u \in Users
                 PROVE  /\ post'[q].at = "ready" =>
                             Nowhere(u, post[q].msg)' /\ post'[q].msg \notin due'[u]
                        /\ u \in post'[q].todo => Nowhere(u, post[q].msg)'
      BY DEF NewIsNowhere
    <3>1. CASE q = p
      <4>1. Nowhere(u, seq + 1) /\ seq + 1 \notin due[u]
        BY NewNumber
      <4>2. post'[q].msg = seq + 1 /\ seq + 1 \in Msgs /\ post'[q].todo = {}
        BY <1>1, <1>2, <3>1 DEF Msgs
      <4> QED
        BY <1>1, <1>4, <4>1, <4>2
    <3>2. CASE q # p
      BY <1>1, <1>2, <1>4, <3>2, PostedMsg DEF IInv, Places, NewIsNowhere
    <3> QED
      BY <3>1, <3>2
  <2> QED
    BY <1>4, <2>1, <2>2 DEF Places
<1> QED
  BY <1>3, <1>6, <1>7 DEF IInv
\* What a post's record can be, and its changes, field by field.
PostKinds == [at : {"idle", "ready", "fan"}, msg : 0 .. seq,
              todo : SUBSET Members, full : Members \cup {None}]

LEMMA PostFacts ==
  ASSUME IInv, NEW p \in Posts
  PROVE  /\ post[p] \in PostKinds
         /\ post[p].at \in {"idle", "ready", "fan"} /\ post[p].msg \in 0 .. seq
         /\ post[p].todo \in SUBSET Members /\ post[p].full \in Members \cup {None}
  BY DEF IInv, TypeOK, PostKinds

LEMMA TodoChanges ==
  ASSUME NEW x \in PostKinds, NEW todo \in SUBSET Members
  PROVE  LET y == [x EXCEPT !.todo = todo]
         IN  /\ y \in PostKinds /\ y.at = x.at /\ y.msg = x.msg
             /\ y.todo = todo /\ y.full = x.full
  BY DEF PostKinds

LEMMA FullChanges ==
  ASSUME NEW x \in PostKinds, NEW full \in Members \cup {None}
  PROVE  LET y == [x EXCEPT !.full = full]
         IN  /\ y \in PostKinds /\ y.at = x.at /\ y.msg = x.msg
             /\ y.todo = x.todo /\ y.full = full
  BY DEF PostKinds

LEMMA FanBegins ==
  ASSUME NEW x \in PostKinds, NEW todo \in SUBSET Members
  PROVE  LET y == [x EXCEPT !.at = "fan", !.todo = todo]
         IN  /\ y \in PostKinds /\ y.at = "fan" /\ y.msg = x.msg
             /\ y.todo = todo /\ y.full = x.full
<1> DEFINE z == [x EXCEPT !.at = "fan"]
<1>1. z \in PostKinds /\ z.at = "fan" /\ z.msg = x.msg /\ z.full = x.full
  BY DEF PostKinds
<1>2. [x EXCEPT !.at = "fan", !.todo = todo] = [z EXCEPT !.todo = todo]
  OBVIOUS
<1> HIDE DEF z
<1> QED
  BY <1>1, <1>2, TodoChanges

LEMMA MemberIsDone ==
  ASSUME NEW x \in PostKinds, NEW todo \in SUBSET Members
  PROVE  LET y == [x EXCEPT !.todo = todo, !.full = None]
         IN  /\ y \in PostKinds /\ y.at = x.at /\ y.msg = x.msg
             /\ y.todo = todo /\ y.full = None
<1> DEFINE z == [x EXCEPT !.todo = todo]
<1>1. z \in PostKinds /\ z.at = x.at /\ z.msg = x.msg /\ z.todo = todo
  BY TodoChanges
<1>2. [x EXCEPT !.todo = todo, !.full = None] = [z EXCEPT !.full = None]
  OBVIOUS
<1> HIDE DEF z
<1> QED
  BY <1>1, <1>2, FullChanges

\* One post changes, the others keep their records.
LEMMA PostUpdate ==
  ASSUME IInv, NEW p \in Posts, NEW r \in PostKinds, post' = [post EXCEPT ![p] = r]
  PROVE  /\ post' \in [Posts -> PostKinds] /\ post'[p] = r
         /\ \A q \in Posts : q # p => post'[q] = post[q]
  BY DEF IInv, TypeOK, PostKinds

LEMMA BeginStep ==
  ASSUME IInv, NEW p \in Posts, Begin(p)
  PROVE  IInv'
<1> DEFINE k == post[p].msg
<1>1. /\ k \in Msgs /\ k \in 1 .. seq /\ k \in 0 .. seq
      /\ post[p].todo = {} /\ post[p].full = None /\ Unlocked
      /\ UNCHANGED <<member, box, stream, seq, got, kairos>>
  BY PostedMsg, PostFacts DEF Begin, IInv, Shape, PostsTakeTurns
<1>2. /\ post' \in [Posts -> PostKinds]
      /\ post'[p].at = "fan" /\ post'[p].msg = k
      /\ post'[p].todo = Members /\ post'[p].full = None
      /\ \A q \in Posts : q # p => post'[q] = post[q]
  <2>1. post[p] \in PostKinds
    BY PostFacts
  <2> DEFINE r == [post[p] EXCEPT !.at = "fan", !.todo = Members]
  <2>2. /\ r \in PostKinds /\ r.at = "fan" /\ r.msg = k
        /\ r.todo = Members /\ r.full = None
    BY <1>1, <2>1, FanBegins
  <2>3. post' = [post EXCEPT ![p] = r]
    BY DEF Begin
  <2> HIDE DEF r
  <2> QED
    BY <2>2, <2>3, PostUpdate
<1>3. /\ due' \in [Users -> SUBSET Msgs]
      /\ \A u \in Users : due'[u] = IF u \in Members THEN due[u] \cup {k} ELSE due[u]
  BY <1>1 DEF Begin, IInv, TypeOK
<1>4. TypeOK'
  BY <1>1, <1>2, <1>3 DEF IInv, TypeOK, Members, PostKinds, kairos
<1>5. /\ \A u \in Users, q \in Boxes : Has(u, q)' <=> Has(u, q)
      /\ \A u \in Users, m \in Msgs : Nowhere(u, m)' <=> Nowhere(u, m)
      /\ InOnePlace'
  BY <1>1, SamePlaces
<1>6. Shape'
  <2>1. StreamsRead'
    BY <1>1 DEF IInv, Shape, StreamsRead
  <2>2. PostsTakeTurns'
    BY <1>1, <1>2, ChatAssumption DEF IInv, Shape, PostsTakeTurns, Unlocked, Msgs, Begin
  <2>3. OneOwner' /\ NobodysAreEmpty'
    BY <1>1, <1>5 DEF IInv, Shape, OneOwner, NobodysAreEmpty
  <2>4. Numbered'
    BY <1>1, <1>3 DEF IInv, Shape, Numbered
  <2> QED
    BY <2>1, <2>2, <2>3, <2>4 DEF Shape
<1>7. ASSUME NEW u \in Users PROVE Nowhere(u, k) /\ k \notin due[u]
  BY DEF IInv, Places, NewIsNowhere, Begin
<1>8. DueIsKept'
  <2> SUFFICES ASSUME NEW u \in Users, NEW m \in Msgs, m \in due'[u]
               PROVE  ToCome(u, m)' \/ ~Nowhere(u, m)'
    BY DEF DueIsKept, Msgs
  <2>1. CASE m = k
    <3>1. u \in Members
      BY <1>3, <1>7, <2>1
    <3> QED
      BY <1>2, <2>1, <3>1 DEF ToCome
  <2>2. CASE m # k
    <3>1. ToCome(u, m) \/ ~Nowhere(u, m)
      BY <1>3, <2>2 DEF IInv, Places, DueIsKept
    <3> QED
      BY <1>1, <1>2, <1>5, <3>1 DEF ToCome
  <2> QED
    BY <2>1, <2>2
<1>9. NewIsNowhere'
  <2> SUFFICES ASSUME NEW q \in Posts, NEW u \in Users
               PROVE  /\ post'[q].at = "ready" =>
                           Nowhere(u, post[q].msg)' /\ post'[q].msg \notin due'[u]
                      /\ u \in post'[q].todo => Nowhere(u, post[q].msg)'
    BY DEF NewIsNowhere
  <2>1. CASE q = p
    BY <1>1, <1>2, <1>5, <1>7, <2>1
  <2>2. CASE q # p
    <3>1. post[q].at = "ready" => post[q].msg # k
      BY <2>2 DEF IInv, Shape, PostsTakeTurns
    <3> QED
      BY <1>2, <1>3, <1>5, <2>2, <3>1, PostedMsg DEF IInv, Places, NewIsNowhere
  <2> QED
    BY <2>1, <2>2
<1>10. Places'
  BY <1>5, <1>8, <1>9 DEF Places
<1> QED
  BY <1>4, <1>6, <1>10 DEF IInv

\* Posted, and a Push that finds the queue full: no message moves, and a post has
\* brought all that it stops carrying.
LEMMA PostStays ==
  ASSUME IInv, NEW p \in Posts, post[p].at = "fan",
         \/ post[p].todo = {} /\ post' = [post EXCEPT ![p] = NoPost]
         \/ \E u \in post[p].todo : post' = [post EXCEPT ![p].full = u],
         UNCHANGED <<member, box, stream, seq, due, got, kairos>>
  PROVE  IInv'
<1>1. /\ post' \in [Posts -> PostKinds]
      /\ \/ post[p].todo = {} /\ post'[p] = NoPost
         \/ /\ post'[p].at = "fan" /\ post'[p].msg = post[p].msg
            /\ post'[p].todo = post[p].todo /\ post'[p].full \in post[p].todo
      /\ \A q \in Posts : q # p => post'[q] = post[q]
  <2>1. CASE post[p].todo = {} /\ post' = [post EXCEPT ![p] = NoPost]
    <3>1. NoPost \in PostKinds
      BY DEF IInv, TypeOK, NoPost, PostKinds
    <3> QED
      BY <2>1, <3>1, PostUpdate
  <2>2. ASSUME NEW u \in post[p].todo, post' = [post EXCEPT ![p].full = u]
        PROVE  /\ post' \in [Posts -> PostKinds]
               /\ post'[p].at = "fan" /\ post'[p].msg = post[p].msg
               /\ post'[p].todo = post[p].todo /\ post'[p].full \in post[p].todo
               /\ \A q \in Posts : q # p => post'[q] = post[q]
    <3>1. u \in Members \cup {None} /\ post[p] \in PostKinds
      BY PostFacts
    <3> DEFINE r == [post[p] EXCEPT !.full = u]
    <3>2. /\ r \in PostKinds /\ r.at = post[p].at /\ r.msg = post[p].msg
          /\ r.todo = post[p].todo /\ r.full = u
      BY <3>1, FullChanges
    <3>3. post' = [post EXCEPT ![p] = r]
      BY <2>2
    <3> HIDE DEF r
    <3> QED
      BY <3>2, <3>3, PostUpdate
  <2> QED
    BY <2>1, <2>2
<1>2. TypeOK'
  BY <1>1 DEF IInv, TypeOK, Members, PostKinds, kairos
<1>3. /\ \A u \in Users, q \in Boxes : Has(u, q)' <=> Has(u, q)
      /\ \A u \in Users, m \in Msgs : Nowhere(u, m)' <=> Nowhere(u, m)
      /\ InOnePlace'
  BY SamePlaces
<1>4. Shape'
  <2>1. StreamsRead'
    BY DEF IInv, Shape, StreamsRead
  <2>2. PostsTakeTurns'
    <3>1. \A q \in Posts : post[q].at # "idle" => post[q].msg # 0
      BY DEF IInv, Shape, PostsTakeTurns
    <3> QED
      BY <1>1, <3>1 DEF IInv, Shape, PostsTakeTurns, NoPost
  <2>3. OneOwner' /\ NobodysAreEmpty' /\ Numbered'
    BY <1>3 DEF IInv, Shape, OneOwner, NobodysAreEmpty, Numbered
  <2> QED
    BY <2>1, <2>2, <2>3 DEF Shape
<1>5. DueIsKept'
  <2> SUFFICES ASSUME NEW u \in Users, NEW m \in Msgs, m \in due[u]
               PROVE  ToCome(u, m)' \/ ~Nowhere(u, m)'
    BY DEF DueIsKept, Msgs
  <2>1. ToCome(u, m) => ToCome(u, m)'
    BY <1>1 DEF ToCome
  <2> QED
    BY <1>3, <2>1 DEF IInv, Places, DueIsKept
<1>6. NewIsNowhere'
  <2> SUFFICES ASSUME NEW q \in Posts, NEW u \in Users
               PROVE  /\ post'[q].at = "ready" =>
                           Nowhere(u, post[q].msg)' /\ post'[q].msg \notin due'[u]
                      /\ u \in post'[q].todo => Nowhere(u, post[q].msg)'
    BY DEF NewIsNowhere
  <2>1. post'[q].at = "ready" \/ u \in post'[q].todo =>
          /\ post'[q].at = post[q].at /\ post'[q].msg = post[q].msg
          /\ post'[q].todo = post[q].todo
    BY <1>1 DEF NoPost
  <2> QED
    BY <1>3, <2>1, PostedMsg DEF IInv, Places, NewIsNowhere
<1> QED
  BY <1>2, <1>3, <1>4, <1>5, <1>6 DEF IInv, Places
\* A post brings its message k to member u: the queue keeps s, which is what it
\* had without the first d of it, and gets k.
LEMMA BringStep ==
  ASSUME IInv, NEW p \in Posts, NEW u \in post[p].todo, post[p].at = "fan",
         NEW s \in Seq(Msgs), NEW d \in 0 .. 1, Len(box[member[u]]) = Len(s) + d,
         Len(s) < Depth, \A i \in 1 .. Len(s) : s[i] = box[member[u]][i + d],
         box' = [box EXCEPT ![member[u]] = Append(s, post[p].msg)],
         post' \in [Posts -> PostKinds],
         post'[p].at = "fan", post'[p].msg = post[p].msg,
         post'[p].todo = post[p].todo \ {u}, post'[p].full = None,
         \A o \in Posts : o # p => post'[o] = post[o],
         due' = IF d = 0 THEN due ELSE [due EXCEPT ![u] = @ \ {box[member[u]][1]}],
         UNCHANGED <<member, stream, seq, got, kairos>>
  PROVE  IInv'
<1> DEFINE q == member[u]
           k == post[p].msg
<1>1. /\ u \in Users /\ q \in Boxes /\ Has(u, q)
      /\ k \in Msgs /\ k \in 1 .. seq /\ Nowhere(u, k)
  <2>1. u \in Members
    BY PostFacts
  <2>2. k \in Msgs /\ k \in 1 .. seq
    BY PostedMsg
  <2>3. Nowhere(u, k)
    BY <2>1 DEF IInv, Places, NewIsNowhere, Members
  <2> QED
    BY <2>1, <2>2, <2>3 DEF Members, Has, IInv, TypeOK
<1>2. /\ Len(s) \in Nat /\ box[q] \in Seq(Msgs) /\ Len(box[q]) = Len(s) + d
      /\ Append(s, k) \in Seq(Msgs) /\ Len(Append(s, k)) = Len(s) + 1
      /\ \A i \in 1 .. Len(s) : i + d \in 1 .. Len(box[q]) /\ Append(s, k)[i] = box[q][i + d]
      /\ Append(s, k)[Len(s) + 1] = k /\ Append(s, k) # <<>>
      /\ Len(s) + 1 \in 1 .. Len(Append(s, k)) /\ Len(s) + 1 <= Depth
  <2>1. /\ Len(s) \in Nat /\ box[q] \in Seq(Msgs) /\ Depth \in Nat
        /\ Len(box[q]) = Len(s) + d
    <3>1. Len(s) \in Nat
      OBVIOUS
    <3>2. box[q] \in Seq(Msgs) /\ Len(box[q]) = Len(s) + d
      BY <1>1, BoxFacts DEF IInv
    <3>3. Depth \in Nat
      BY ChatAssumption
    <3> QED
      BY <3>1, <3>2, <3>3
  <2>2. /\ Append(s, k) \in Seq(Msgs) /\ Len(Append(s, k)) = Len(s) + 1
        /\ \A i \in 1 .. Len(s) : Append(s, k)[i] = s[i]
        /\ Append(s, k)[Len(s) + 1] = k /\ Append(s, k) # <<>>
    BY <1>1, AppendProperties
  <2>3. \A i \in 1 .. Len(s) : i + d \in 1 .. Len(box[q])
    BY <2>1
  <2> QED
    BY <2>1, <2>2, <2>3
<1>3. /\ box' \in [Boxes -> BoundedSeq(Msgs, Depth)] /\ box'[q] = Append(s, k)
      /\ \A r \in Boxes : r # q => box'[r] = box[r]
  BY <1>1, <1>2, BoxUpdate DEF IInv
<1>4. /\ due' \in [Users -> SUBSET Msgs]
      /\ \A v \in Users : due'[v] \subseteq due[v]
      /\ d = 1 => box[q][1] \notin due'[u]
  BY <1>1 DEF IInv, TypeOK
<1> HIDE DEF q, k
<1>5. TypeOK'
  BY <1>3, <1>4 DEF IInv, TypeOK, Members, PostKinds, kairos
<1>6. \A v \in Users, r \in Boxes : Has(v, r)' <=> Has(v, r)
  BY DEF Has
\* Each place in a queue was one before, d later, or is the new one.
<1>7. ASSUME NEW v \in Users, NEW r \in Boxes, Has(v, r), NEW i \in 1 .. Len(box'[r])
      PROVE  \/ r # q /\ box'[r] = box[r]
             \/ /\ r = q /\ v = u
                /\ i + d \in 1 .. Len(box[q]) /\ box'[r][i] = box[q][i + d]
             \/ r = q /\ v = u /\ i = Len(s) + 1 /\ box'[r][i] = k
  <2>1. CASE r # q
    BY <1>3, <2>1
  <2>2. CASE r = q
    <3>1. v = u
      BY <1>1, <1>7, <2>2 DEF IInv, Shape, OneOwner
    <3>2. box'[r] = Append(s, k) /\ (i \in 1 .. Len(s) \/ i = Len(s) + 1)
      BY <1>2, <1>3, <1>7, <2>2
    <3>3. CASE i \in 1 .. Len(s)
      BY <1>2, <2>2, <3>1, <3>2, <3>3
    <3>4. CASE i = Len(s) + 1
      BY <1>2, <2>2, <3>1, <3>2, <3>4
    <3> QED
      BY <3>2, <3>3, <3>4
  <2> QED
    BY <2>1, <2>2
<1>8. ASSUME NEW r \in Boxes, Has(u, r), NEW i \in 1 .. Len(box[r]) PROVE box[r][i] # k
  BY <1>1, <1>8 DEF Nowhere, Waits, InQueue
<1>9. Shape'
  <2>1. StreamsRead'
    BY DEF IInv, Shape, StreamsRead
  <2>2. PostsTakeTurns'
    <3>1. k # 0
      BY <1>1, BoxesArePositive DEF Msgs
    <3> QED
      BY <3>1 DEF IInv, Shape, PostsTakeTurns, k
  <2>3. OneOwner'
    BY <1>6 DEF IInv, Shape, OneOwner
  <2>4. NobodysAreEmpty'
    BY <1>1, <1>3, <1>6 DEF IInv, Shape, NobodysAreEmpty
  <2>5. ASSUME NEW r \in Boxes, NEW i \in 1 .. Len(box'[r]) PROVE box'[r][i] <= seq
    <3>1. CASE r # q
      BY <1>3, <2>5, <3>1 DEF IInv, Shape, Numbered
    <3>2. CASE r = q
      <4>1. \/ i + d \in 1 .. Len(box[q]) /\ box'[r][i] = box[q][i + d]
            \/ box'[r][i] = k
        BY <1>1, <1>7, <3>2
      <4>2. \A j \in 1 .. Len(box[q]) : box[q][j] <= seq
        BY <1>1 DEF IInv, Shape, Numbered
      <4>3. k <= seq
        BY <1>1
      <4> QED
        BY <4>1, <4>2, <4>3
    <3> QED
      BY <3>1, <3>2
  <2>6. Numbered'
    BY <1>4, <2>5 DEF IInv, Shape, Numbered
  <2> QED
    BY <2>1, <2>2, <2>3, <2>4, <2>6 DEF Shape
<1>10. ASSUME NEW v \in Users, NEW m \in Msgs
       PROVE  OncePerQueue(v, m) /\ OncePerStream(v, m) /\ Apart(v, m)
  BY DEF IInv, Places, InOnePlace
<1>11. ASSUME NEW v \in Users, NEW m \in Msgs
       PROVE  OncePerQueue(v, m)'
  <2> SUFFICES ASSUME NEW r \in Boxes, NEW o \in Boxes,
                      NEW i \in 1 .. Len(box'[r]), NEW j \in 1 .. Len(box'[o]),
                      Has(v, r), Has(v, o), box'[r][i] = m, box'[o][j] = m
               PROVE  r = o /\ i = j
    BY <1>6 DEF OncePerQueue
  <2>1. \/ r # q /\ box'[r] = box[r]
        \/ /\ r = q /\ v = u
           /\ i + d \in 1 .. Len(box[q]) /\ box'[r][i] = box[q][i + d]
        \/ r = q /\ v = u /\ i = Len(s) + 1 /\ box'[r][i] = k
    BY <1>7
  <2>2. \/ o # q /\ box'[o] = box[o]
        \/ /\ o = q /\ v = u
           /\ j + d \in 1 .. Len(box[q]) /\ box'[o][j] = box[q][j + d]
        \/ o = q /\ v = u /\ j = Len(s) + 1 /\ box'[o][j] = k
    BY <1>7
  <2>3. CASE r = q /\ v = u /\ i = Len(s) + 1 /\ box'[r][i] = k
    BY <1>1, <1>8, <2>2, <2>3
  <2>4. CASE o = q /\ v = u /\ j = Len(s) + 1 /\ box'[o][j] = k
    <3>1. m = k
      BY <2>4
    <3>2. CASE r # q /\ box'[r] = box[r]
      BY <1>8, <2>4, <3>1, <3>2
    <3>3. CASE r = q /\ i + d \in 1 .. Len(box[q]) /\ box'[r][i] = box[q][i + d]
      BY <1>1, <1>8, <3>1, <3>3
    <3>4. CASE r = q /\ i = Len(s) + 1
      BY <2>4, <3>4
    <3> QED
      BY <2>1, <3>2, <3>3, <3>4
  <2>5. CASE /\ ~(r = q /\ v = u /\ i = Len(s) + 1 /\ box'[r][i] = k)
             /\ ~(o = q /\ v = u /\ j = Len(s) + 1 /\ box'[o][j] = k)
    <3>1. \A a \in 1 .. Len(box[r]), b \in 1 .. Len(box[o]) :
            box[r][a] = m /\ box[o][b] = m => r = o /\ a = b
      BY <1>10 DEF OncePerQueue
    <3>2. CASE r # q /\ o # q
      BY <2>1, <2>2, <3>1, <3>2
    <3>3. CASE r = q /\ o = q
      <4>1. i + d = j + d
        BY <2>1, <2>2, <2>5, <3>1, <3>3
      <4> QED
        BY <3>3, <4>1
    <3>4. CASE r # q /\ o = q
      <4>1. j + d \in 1 .. Len(box[o]) /\ box[o][j + d] = m
        BY <2>2, <2>5, <3>4
      <4> QED
        BY <2>1, <3>1, <3>4, <4>1
    <3>5. CASE r = q /\ o # q
      <4>1. i + d \in 1 .. Len(box[r]) /\ box[r][i + d] = m
        BY <2>1, <2>5, <3>5
      <4> QED
        BY <2>2, <3>1, <3>5, <4>1
    <3> QED
      BY <3>2, <3>3, <3>4, <3>5
  <2> QED
    BY <2>3, <2>4, <2>5
<1>12. ASSUME NEW v \in Users, NEW m \in Msgs, Waits(v, m)'
       PROVE  Waits(v, m) \/ (v = u /\ m = k)
  <2>1. PICK r \in Boxes : Has(v, r) /\ InQueue(r, m)'
    BY <1>6, <1>12 DEF Waits
  <2>2. PICK i \in 1 .. Len(box'[r]) : box'[r][i] = m
    BY <2>1 DEF InQueue
  <2>3. CASE r # q /\ box'[r] = box[r]
    BY <2>1, <2>2, <2>3 DEF Waits, InQueue
  <2>4. CASE r = q /\ i + d \in 1 .. Len(box[q]) /\ box'[r][i] = box[q][i + d]
    BY <2>1, <2>2, <2>4 DEF Waits, InQueue
  <2>5. CASE v = u /\ box'[r][i] = k
    BY <2>2, <2>5
  <2> QED
    BY <1>7, <2>1, <2>3, <2>4, <2>5
<1>13. ASSUME NEW v \in Users, NEW m \in Msgs, Waits(v, m), m \in due'[v]
       PROVE  Waits(v, m)'
  <2>1. PICK r \in Boxes : Has(v, r) /\ InQueue(r, m)
    BY <1>13 DEF Waits
  <2>2. PICK i \in 1 .. Len(box[r]) : box[r][i] = m
    BY <2>1 DEF InQueue
  <2>3. CASE r # q
    BY <1>3, <1>6, <2>1, <2>2, <2>3 DEF Waits, InQueue
  <2>4. CASE r = q
    <3>1. v = u
      BY <1>1, <2>1, <2>4 DEF IInv, Shape, OneOwner
    <3>2. ~(d = 1 /\ i = 1)
      BY <1>4, <1>13, <2>2, <2>4, <3>1
    <3>3. i - d \in 1 .. Len(s) /\ i - d + d = i /\ i - d \in 1 .. Len(Append(s, k))
      BY <1>2, <2>2, <2>4, <3>2
    <3>4. box'[q][i - d] = m /\ i - d \in 1 .. Len(box'[q])
      BY <1>2, <1>3, <2>2, <2>4, <3>3
    <3> QED
      BY <1>6, <2>1, <2>4, <3>4 DEF Waits, InQueue
  <2> QED
    BY <2>3, <2>4
<1>14. ASSUME NEW m \in Msgs, m = k PROVE Waits(u, m)'
  <2>1. \E i \in 1 .. Len(box'[q]) : box'[q][i] = k
    BY <1>2, <1>3
  <2> QED
    BY <1>1, <1>6, <1>14, <2>1 DEF Waits, InQueue
<1>15. ASSUME NEW v \in Users, NEW m \in Msgs PROVE Held(v, m)' <=> Held(v, m)
  BY DEF Held
<1>16. ASSUME NEW v \in Users, NEW m \in Msgs
       PROVE  OncePerStream(v, m)' /\ Apart(v, m)'
  <2>1. OncePerStream(v, m)'
    BY <1>10 DEF OncePerStream
  <2>2. Apart(v, m)'
    BY <1>1, <1>10, <1>12, <1>15 DEF Apart, Nowhere
  <2> QED
    BY <2>1, <2>2
<1>17. ASSUME NEW v \in Users, NEW m \in Msgs, Nowhere(v, m), v # u \/ m # k
       PROVE  Nowhere(v, m)'
  BY <1>12, <1>15, <1>17 DEF Nowhere
<1>18. DueIsKept'
  <2> SUFFICES ASSUME NEW v \in Users, NEW m \in Msgs, m \in due'[v]
               PROVE  ToCome(v, m)' \/ ~Nowhere(v, m)'
    BY DEF DueIsKept, Msgs
  <2>1. CASE ~Nowhere(v, m)
    <3>1. Waits(v, m) => Waits(v, m)'
      BY <1>13
    <3>2. Held(v, m) => Held(v, m)'
      BY <1>15
    <3> QED
      BY <2>1, <3>1, <3>2 DEF Nowhere
  <2>2. CASE v = u /\ m = k
    <3>1. Waits(u, m)'
      BY <1>14, <2>2
    <3> QED
      BY <2>2, <3>1 DEF Nowhere
  <2>3. CASE ToCome(v, m) /\ (v # u \/ m # k)
    <3>1. PICK o \in Posts : post[o].msg = m /\ v \in post[o].todo
      BY <2>3 DEF ToCome
    <3>2. post'[o].msg = m /\ v \in post'[o].todo
      BY <2>3, <3>1 DEF k
    <3> QED
      BY <3>2 DEF ToCome
  <2> QED
    BY <1>4, <2>1, <2>2, <2>3 DEF IInv, Places, DueIsKept
<1>19. NewIsNowhere'
  <2> SUFFICES ASSUME NEW o \in Posts, NEW v \in Users
               PROVE  /\ post'[o].at = "ready" =>
                           Nowhere(v, post[o].msg)' /\ post'[o].msg \notin due'[v]
                      /\ v \in post'[o].todo => Nowhere(v, post[o].msg)'
    BY DEF NewIsNowhere
  <2>1. CASE o = p
    <3>1. v \in post[p].todo \ {u} => Nowhere(v, k)
      BY DEF IInv, Places, NewIsNowhere, k
    <3> QED
      BY <1>1, <1>17, <2>1, <3>1 DEF k
  <2>2. CASE o # p
    <3>1. post[o].at # "idle" => post[o].msg # k
      BY <2>2 DEF IInv, Shape, PostsTakeTurns, k
    <3> QED
      BY <1>4, <1>17, <2>2, <3>1, PostedMsg DEF IInv, Places, NewIsNowhere
  <2> QED
    BY <2>1, <2>2
<1>20. Places'
  BY <1>11, <1>16, <1>18, <1>19 DEF Places, InOnePlace, Msgs
<1> QED
  BY <1>5, <1>9, <1>20 DEF IInv
LEMMA PushStep ==
  ASSUME IInv, NEW p \in Posts, NEW u \in Users, Push(p, u)
  PROVE  IInv'
<1> DEFINE q == member[u]
<1>1. /\ post[p].at = "fan" /\ post[p].full = None /\ u \in post[p].todo
      /\ UNCHANGED <<member, stream, seq, due, got, kairos>>
      /\ post[p] \in PostKinds /\ post[p].todo \in SUBSET Members
  BY PostFacts DEF Push
<1>2. q \in Boxes /\ box[q] \in Seq(Msgs) /\ Len(box[q]) \in Nat
  <2>1. q \in Boxes
    BY <1>1 DEF Members, IInv, TypeOK
  <2> QED
    BY <2>1, BoxFacts DEF IInv
<1>3. CASE Len(box[q]) < Depth
  <2> DEFINE r == [post[p] EXCEPT !.todo = post[p].todo \ {u}]
  <2>1. /\ r \in PostKinds /\ r.at = "fan" /\ r.msg = post[p].msg
        /\ r.todo = post[p].todo \ {u} /\ r.full = None
    BY <1>1, TodoChanges
  <2>2. /\ post' = [post EXCEPT ![p] = r]
        /\ box' = [box EXCEPT ![q] = Append(box[q], post[p].msg)]
    <3>1. post' = [post EXCEPT ![p].todo = @ \ {u}]
      BY <1>3 DEF Push
    <3>2. box' = [box EXCEPT ![q] = Append(@, post[p].msg)]
      BY <1>3 DEF Push
    <3> QED
      BY <3>1, <3>2
  <2> HIDE DEF r
  <2>3. /\ post' \in [Posts -> PostKinds] /\ post'[p] = r
        /\ \A o \in Posts : o # p => post'[o] = post[o]
    BY <2>1, <2>2, PostUpdate
  <2>5. /\ Len(box[q]) = Len(box[q]) + 0
        /\ \A i \in 1 .. Len(box[q]) : box[q][i] = box[q][i + 0]
    BY <1>2
  <2>6. 0 \in 0 .. 1
    OBVIOUS
  <2> QED
    BY <1>1, <1>2, <1>3, <2>1, <2>2, <2>3, <2>5, <2>6, BringStep
<1>4. CASE ~(Len(box[q]) < Depth)
  <2>1. post' = [post EXCEPT ![p].full = u] /\ box' = box
    BY <1>4 DEF Push
  <2> QED
    BY <1>1, <2>1, PostStays
<1> QED
  BY <1>3, <1>4

LEMMA DropOldestStep ==
  ASSUME IInv, NEW p \in Posts, DropOldest(p)
  PROVE  IInv'
<1> DEFINE u == post[p].full
           q == member[u]
           r == [post[p] EXCEPT !.todo = post[p].todo \ {u}, !.full = None]
<1>1. /\ post[p].at = "fan" /\ u # None /\ u \in post[p].todo
      /\ post' = [post EXCEPT ![p] = r]
      /\ UNCHANGED <<member, stream, seq, got, kairos>>
      /\ post[p] \in PostKinds /\ post[p].todo \in SUBSET Members
  <2>1. /\ post[p].at = "fan" /\ u # None
        /\ UNCHANGED <<member, stream, seq, got, kairos>>
    BY DEF DropOldest
  <2>2. u \in post[p].todo
    BY <2>1 DEF IInv, Shape, PostsTakeTurns
  <2>3. post' = [post EXCEPT ![p].todo = @ \ {u}, ![p].full = None]
    BY DEF DropOldest
  <2>4. post' = [post EXCEPT ![p] = r]
    BY <2>3
  <2> HIDE DEF r
  <2>5. post[p] \in PostKinds /\ post[p].todo \in SUBSET Members
    BY PostFacts
  <2> QED
    BY <2>1, <2>2, <2>4, <2>5
<1>2. /\ r \in PostKinds /\ r.at = "fan" /\ r.msg = post[p].msg
      /\ r.todo = post[p].todo \ {u} /\ r.full = None
  <2> DEFINE todo == post[p].todo \ {u}
  <2>1. todo \in SUBSET Members /\ post[p] \in PostKinds
    BY <1>1
  <2>2. r = [post[p] EXCEPT !.todo = todo, !.full = None]
    OBVIOUS
  <2> HIDE DEF r, todo
  <2>3. /\ r \in PostKinds /\ r.at = post[p].at /\ r.msg = post[p].msg
        /\ r.todo = todo /\ r.full = None
    BY <2>1, <2>2, MemberIsDone
  <2> QED
    BY <1>1, <2>3 DEF todo
<1>3. /\ post' \in [Posts -> PostKinds] /\ post'[p] = r
      /\ \A o \in Posts : o # p => post'[o] = post[o]
  <2> HIDE DEF r
  <2> QED
    BY <1>1, <1>2, PostUpdate
<1>4. q \in Boxes /\ box[q] \in Seq(Msgs) /\ Len(box[q]) \in Nat /\ Len(box[q]) <= Depth
  <2>1. q \in Boxes
    BY <1>1 DEF Members, IInv, TypeOK
  <2> QED
    BY <2>1, BoxFacts DEF IInv
<1>5. post[p].msg \in Msgs
  BY <1>1, PostedMsg
\* What the eviction does to the queue, in the terms of BringStep.
<1>6. /\ box[q] = <<>> =>
           box' = [box EXCEPT ![q] = Append(<<>>, post[p].msg)] /\ due' = due
      /\ box[q] # <<>> =>
           /\ box' = [box EXCEPT ![q] = Append(Tail(box[q]), post[p].msg)]
           /\ due' = [due EXCEPT ![u] = @ \ {Head(box[q])}]
  <2>1. box[q] = <<>> =>
          box' = [box EXCEPT ![q] = <<post[p].msg>>] /\ due' = due
    BY DEF DropOldest
  <2>2. box[q] # <<>> =>
          /\ box' = [box EXCEPT ![q] = Append(Tail(box[q]), post[p].msg)]
          /\ due' = [due EXCEPT ![u] = @ \ {Head(box[q])}]
    BY DEF DropOldest
  <2>3. Append(<<>>, post[p].msg) = <<post[p].msg>>
    OBVIOUS
  <2> QED
    BY <2>1, <2>2, <2>3
<1>7. q = member[u] /\ Depth \in Nat /\ Depth > 0
  BY ChatAssumption
<1>8. /\ post'[p].at = "fan" /\ post'[p].msg = post[p].msg
      /\ post'[p].todo = post[p].todo \ {u} /\ post'[p].full = None
  <2> HIDE DEF r, q, u
  <2> QED
    BY <1>2, <1>3
<1> HIDE DEF r, q, u
<1>9. CASE box[q] = <<>>
  <2> DEFINE s == <<>>
             d == 0
  <2>1. s \in Seq(Msgs) /\ Len(s) = 0 /\ d \in 0 .. 1
    OBVIOUS
  <2>2. /\ Len(box[q]) = Len(s) + d /\ Len(s) < Depth
        /\ \A i \in 1 .. Len(s) : s[i] = box[q][i + d]
    BY <1>7, <1>9, <2>1
  <2>3. due' = IF d = 0 THEN due ELSE [due EXCEPT ![u] = @ \ {box[q][1]}]
    BY <1>6, <1>9
  <2>4. box' = [box EXCEPT ![q] = Append(s, post[p].msg)]
    BY <1>6, <1>9
  <2> HIDE DEF s, d
  <2> QED
    BY <1>1, <1>3, <1>7, <1>8, <2>1, <2>2, <2>3, <2>4, BringStep
<1>10. CASE box[q] # <<>>
  <2> DEFINE s == Tail(box[q])
             d == 1
  <2>1. /\ s \in Seq(Msgs) /\ Len(s) = Len(box[q]) - 1 /\ Head(box[q]) = box[q][1]
        /\ \A i \in 1 .. Len(s) : s[i] = box[q][i + 1]
    <3> DEFINE w == box[q]
    <3>1. w \in Seq(Msgs) /\ w # <<>>
      BY <1>4, <1>10
    <3> HIDE DEF w
    <3>2. /\ Tail(w) \in Seq(Msgs) /\ Len(Tail(w)) = Len(w) - 1 /\ Head(w) = w[1]
          /\ \A i \in 1 .. Len(Tail(w)) : Tail(w)[i] = w[i + 1]
      BY <3>1
    <3> QED
      BY <3>2 DEF w
  <2> HIDE DEF s
  <2>2. d \in 0 .. 1 /\ Len(box[q]) = Len(s) + d /\ Len(s) < Depth
    <3>1. Len(s) = Len(box[q]) - 1
      BY <2>1
    <3> QED
      BY <1>4, <1>7, <3>1
  <2>3. due' = IF d = 0 THEN due ELSE [due EXCEPT ![u] = @ \ {box[q][1]}]
    <3>1. Head(box[q]) = box[q][1]
      BY <2>1
    <3> QED
      BY <1>6, <1>10, <3>1
  <2>4. box' = [box EXCEPT ![q] = Append(s, post[p].msg)]
    BY <1>6, <1>10 DEF s
  <2>5. \A i \in 1 .. Len(s) : s[i] = box[q][i + d]
    BY <2>1
  <2> HIDE DEF d
  <2> QED
    BY <1>1, <1>3, <1>7, <1>8, <2>1, <2>2, <2>3, <2>4, <2>5, BringStep
<1> QED
  BY <1>9, <1>10

-----------------------------------------------------------------------------
(* Alerts, and steps that change nothing of the chat.                      *)

LEMMA ChatStays ==
  ASSUME IInv, UNCHANGED chat,
         alert' \in [Alerts -> [at : {"off", "greeted", "open"}, waiting : 0 .. AlertDepth]],
         subs' = {a \in Alerts : alert'[a].at = "open"}
  PROVE  IInv'
<1>1. UNCHANGED <<member, box, stream, seq, post, due, got>>
  BY DEF chat
<1>2. TypeOK'
  BY <1>1 DEF IInv, TypeOK, Members
<1>3. /\ \A u \in Users, q \in Boxes : Has(u, q)' <=> Has(u, q)
      /\ \A u \in Users, m \in Msgs : Nowhere(u, m)' <=> Nowhere(u, m)
      /\ InOnePlace'
  BY <1>1, SamePlaces
<1>4. StreamsRead' /\ PostsTakeTurns' /\ Numbered'
  BY <1>1 DEF IInv, Shape, StreamsRead, PostsTakeTurns, Numbered
<1>5. OneOwner' /\ NobodysAreEmpty'
  BY <1>1, <1>3 DEF IInv, Shape, OneOwner, NobodysAreEmpty
<1>6. DueIsKept'
  BY <1>1, <1>3 DEF IInv, Places, DueIsKept, ToCome, Msgs
<1>7. NewIsNowhere'
  BY <1>1, <1>3, PostedMsg DEF IInv, Places, NewIsNowhere
<1> QED
  BY <1>2, <1>3, <1>4, <1>5, <1>6, <1>7 DEF IInv, Shape, Places

\* The handlers of alert streams and KairosNotify.
LEMMA AlertStep ==
  ASSUME IInv,
         \/ Notify
         \/ \E a \in Alerts :
              OpenAlerts(a) \/ KairosSubscribe(a) \/ Deliver(a) \/ KairosUnsubscribe(a)
  PROVE  IInv'
<1> DEFINE Kinds == [at : {"off", "greeted", "open"}, waiting : 0 .. AlertDepth]
<1>1. /\ alert \in [Alerts -> Kinds] /\ subs = {a \in Alerts : alert[a].at = "open"}
      /\ AlertDepth \in Nat
  BY ChatAssumption DEF IInv, TypeOK
<1>2. UNCHANGED chat
  BY DEF Notify, OpenAlerts, KairosSubscribe, Deliver, KairosUnsubscribe
<1>3. alert' \in [Alerts -> Kinds] /\ subs' = {a \in Alerts : alert'[a].at = "open"}
  <2>1. CASE Notify
    <3>1. ASSUME NEW a \in Alerts
          PROVE  alert'[a] \in Kinds /\ alert'[a].at = alert[a].at
      <4>1. CASE a \in subs /\ alert[a].waiting < AlertDepth
        <5>1. alert[a].waiting + 1 \in 0 .. AlertDepth
          BY <1>1, <4>1
        <5>2. alert'[a] = [alert[a] EXCEPT !.waiting = @ + 1]
          BY <2>1, <4>1 DEF Notify
        <5> QED
          BY <1>1, <5>1, <5>2
      <4>2. CASE ~(a \in subs /\ alert[a].waiting < AlertDepth)
        BY <1>1, <2>1, <4>2 DEF Notify
      <4> QED
        BY <4>1, <4>2
    <3>2. alert' \in [Alerts -> Kinds]
      BY <2>1, <3>1 DEF Notify
    <3> QED
      BY <1>1, <2>1, <3>1, <3>2 DEF Notify
  <2>2. ASSUME NEW a \in Alerts, OpenAlerts(a) \/ KairosSubscribe(a) \/ KairosUnsubscribe(a)
        PROVE  alert' \in [Alerts -> Kinds] /\ subs' = {b \in Alerts : alert'[b].at = "open"}
    BY <1>1, <2>2 DEF OpenAlerts, KairosSubscribe, KairosUnsubscribe, NoAlert
  <2>3. ASSUME NEW a \in Alerts, Deliver(a)
        PROVE  alert' \in [Alerts -> Kinds] /\ subs' = {b \in Alerts : alert'[b].at = "open"}
    <3>1. alert[a].waiting - 1 \in 0 .. AlertDepth
      BY <1>1, <2>3 DEF Deliver
    <3>2. [alert[a] EXCEPT !.waiting = @ - 1] \in Kinds
      BY <1>1, <3>1
    <3>3. alert' = [alert EXCEPT ![a] = [alert[a] EXCEPT !.waiting = @ - 1]] /\ subs' = subs
      BY <2>3 DEF Deliver
    <3>4. [alert[a] EXCEPT !.waiting = @ - 1].at = alert[a].at
      BY <1>1
    <3> DEFINE r == [alert[a] EXCEPT !.waiting = @ - 1]
    <3> HIDE DEF r
    <3>5. alert' = [alert EXCEPT ![a] = r] /\ r \in Kinds /\ r.at = alert[a].at
      BY <3>2, <3>3, <3>4 DEF r
    <3> QED
      BY <1>1, <3>3, <3>5
  <2> QED
    BY <2>1, <2>2, <2>3
<1> QED
  BY <1>2, <1>3, ChatStays
-----------------------------------------------------------------------------
(* The specification.                                                      *)

LEMMA InitIInv == Init => IInv
<1> SUFFICES ASSUME Init PROVE IInv
  OBVIOUS
<1>1. TypeOK
  <2>1. <<>> \in BoundedSeq(Msgs, Depth)
    <3>1. <<>> \in Seq(Msgs) /\ Len(<<>>) <= Depth
      BY ChatAssumption
    <3> QED
      BY <3>1, BoundedSeqs
  <2> QED
    BY <2>1, ChatAssumption DEF Init, TypeOK, Closed, NoPost, NoAlert
<1>2. \A u \in Users, q \in Boxes : ~Has(u, q)
  BY BoxesArePositive DEF Init, Has, Closed
<1>3. \A q \in Boxes : box[q] = <<>>
  BY DEF Init
<1>4. Shape
  BY <1>2, <1>3 DEF Init, Shape, StreamsRead, PostsTakeTurns, OneOwner, NobodysAreEmpty,
                    Numbered, Closed, NoPost
<1>5. ASSUME NEW u \in Users, NEW m \in Msgs
      PROVE  OncePerQueue(u, m) /\ OncePerStream(u, m) /\ Apart(u, m) /\ Nowhere(u, m)
  <2>1. ~Waits(u, m)
    BY <1>2 DEF Waits
  <2>2. ~Held(u, m) /\ OncePerStream(u, m)
    BY DEF Init, Held, OncePerStream, Closed, Msgs
  <2>3. OncePerQueue(u, m)
    BY <1>2 DEF OncePerQueue
  <2>4. m \notin got[u]
    BY DEF Init
  <2> QED
    BY <2>1, <2>2, <2>3, <2>4 DEF Apart, Nowhere
<1>6. Places
  BY <1>5 DEF Init, Places, InOnePlace, DueIsKept, NewIsNowhere, NoPost
<1> QED
  BY <1>1, <1>4, <1>6 DEF IInv

LEMMA NextIInv == IInv /\ [Next]_vars => IInv'
<1> SUFFICES ASSUME IInv, [Next]_vars PROVE IInv'
  OBVIOUS
<1>1. ASSUME NEW u \in Users, Subscribe(u) PROVE IInv'
  BY <1>1, GainStep DEF Subscribe
<1>2. ASSUME NEW u \in Users, Unsubscribe(u) PROVE IInv'
  BY <1>2, UnsubscribeStep
<1>3. ASSUME NEW s \in Streams, NEW u \in Users, Listen(s, u) PROVE IInv'
  BY <1>3, GainStep DEF Listen
<1>4. ASSUME NEW s \in Streams, Take(s) \/ Write(s) \/ WriteFails(s) \/ Close(s) PROVE IInv'
  BY <1>4, TakeStep, WriteStep, StreamEndStep
<1>5. ASSUME NEW p \in Posts, Number(p) \/ Begin(p) \/ DropOldest(p) PROVE IInv'
  BY <1>5, NumberStep, BeginStep, DropOldestStep
<1>6. ASSUME NEW p \in Posts, Posted(p) PROVE IInv'
  BY <1>6, PostStays DEF Posted
<1>7. ASSUME NEW p \in Posts, NEW u \in Users, Push(p, u) PROVE IInv'
  BY <1>7, PushStep
<1>8. CASE \/ Notify
           \/ \E a \in Alerts :
                OpenAlerts(a) \/ KairosSubscribe(a) \/ Deliver(a) \/ KairosUnsubscribe(a)
  BY <1>8, AlertStep
<1>9. CASE UNCHANGED vars
  BY <1>9, ChatStays DEF vars, chat, IInv, TypeOK
<1> QED
  BY <1>1, <1>2, <1>3, <1>4, <1>5, <1>6, <1>7, <1>8, <1>9 DEF Next

\* What every section relies on holds in every state.
THEOREM Invariance == Spec => []IInv
  BY InitIInv, NextIInv, PTL DEF Spec

\* Every variable keeps its type; in particular no queue outgrows chatQueueDepth,
\* and the alert streams that are notified are those that read.
THEOREM TypeCorrect == Spec => []TypeOK
<1>1. IInv => TypeOK
  BY DEF IInv
<1> QED
  BY <1>1, Invariance, PTL

-----------------------------------------------------------------------------
(* Counting the places of a message.                                       *)

LEMMA AtMostOne ==
  ASSUME NEW S, \A x, y \in S : x = y
  PROVE  Cardinality(S) = IF S = {} THEN 0 ELSE 1
<1>1. CASE S = {}
  BY <1>1, FS_EmptySet
<1>2. CASE S # {}
  <2>1. PICK x : S = {x}
    BY <1>2
  <2> QED
    BY <1>2, <2>1, FS_Singleton
<1> QED
  BY <1>1, <1>2

LEMMA OnePlace ==
  ASSUME IInv, NEW u \in Users, NEW m \in Msgs
  PROVE  /\ Copies(u, m) <= 1
         /\ ~Nowhere(u, m) => Copies(u, m) = 1
<1> DEFINE A == {x \in BoxesOf(u) \X (1 .. Depth) :
                   x[2] \in DOMAIN box[x[1]] /\ box[x[1]][x[2]] = m}
           B == {s \in Streams : stream[s].user = u /\ stream[s].msg = m}
           C == got[u] \cap {m}
<1>1. OncePerQueue(u, m) /\ OncePerStream(u, m) /\ Apart(u, m)
  BY DEF IInv, Places, InOnePlace
<1>2. \A q : q \in BoxesOf(u) <=> q \in Boxes /\ Has(u, q)
  <2>1. ASSUME NEW q \in BoxesOf(u) PROVE q \in Boxes /\ Has(u, q)
    BY DEF BoxesOf, Has, IInv, TypeOK
  <2>2. ASSUME NEW q \in Boxes, Has(u, q) PROVE q \in BoxesOf(u)
    BY <2>2, BoxesArePositive DEF BoxesOf, Has
  <2> QED
    BY <2>1, <2>2
<1>3. \A q \in Boxes : DOMAIN box[q] = 1 .. Len(box[q]) /\ Len(box[q]) <= Depth
                       /\ Len(box[q]) \in Nat
  BY BoxFacts DEF IInv
<1>4. \A x, y \in A : x = y
  <2> SUFFICES ASSUME NEW x \in A, NEW y \in A PROVE x = y
    OBVIOUS
  <2>1. /\ x = <<x[1], x[2]>> /\ x[1] \in Boxes /\ Has(u, x[1])
        /\ x[2] \in 1 .. Len(box[x[1]]) /\ box[x[1]][x[2]] = m
    BY <1>2, <1>3
  <2>2. /\ y = <<y[1], y[2]>> /\ y[1] \in Boxes /\ Has(u, y[1])
        /\ y[2] \in 1 .. Len(box[y[1]]) /\ box[y[1]][y[2]] = m
    BY <1>2, <1>3
  <2>3. x[1] = y[1] /\ x[2] = y[2]
    BY <1>1, <2>1, <2>2 DEF OncePerQueue
  <2> QED
    BY <2>1, <2>2, <2>3
<1>5. A # {} <=> Waits(u, m)
  <2>1. ASSUME NEW x \in A PROVE Waits(u, m)
    BY <1>2, <1>3 DEF Waits, InQueue
  <2>2. ASSUME NEW q \in Boxes, Has(u, q), NEW i \in 1 .. Len(box[q]), box[q][i] = m
        PROVE  A # {}
    <3>1. i \in 1 .. Depth
      BY <1>3, ChatAssumption
    <3>2. <<q, i>> \in A
      BY <1>2, <1>3, <2>2, <3>1
    <3> QED
      BY <3>2
  <2> QED
    BY <2>1, <2>2 DEF Waits, InQueue
<1>6. /\ \A s, t \in B : s = t
      /\ B # {} <=> Held(u, m)
  BY <1>1 DEF OncePerStream, Held
<1>7. /\ \A x, y \in C : x = y
      /\ C # {} <=> m \in got[u]
  OBVIOUS
<1>8. /\ Cardinality(A) = IF Waits(u, m) THEN 1 ELSE 0
      /\ Cardinality(B) = IF Held(u, m) THEN 1 ELSE 0
      /\ Cardinality(C) = IF m \in got[u] THEN 1 ELSE 0
  <2> HIDE DEF A, B, C
  <2> QED
    BY <1>4, <1>5, <1>6, <1>7, AtMostOne
<1>9. Copies(u, m) = Cardinality(A) + Cardinality(B) + Cardinality(C)
  BY DEF Copies
<1> HIDE DEF A, B, C
<1> QED
  BY <1>1, <1>8, <1>9 DEF Apart, Nowhere

\* A message that was posted to a member is in one place of that member's, from
\* the fan-out of postChatMessage to the stream that writes it, unless it was
\* dropped by an overflow, a failed write or the end of its queue; no message is in two.
THEOREM MessagesTheorem == Spec => []NothingLostNorDoubled
<1>1. IInv => NothingLostNorDoubled
  <2> SUFFICES ASSUME IInv, NEW u \in Users, NEW m \in 1 .. seq
               PROVE  /\ Copies(u, m) <= 1
                      /\ \/ m \notin due[u]
                         \/ \E p \in Posts : post[p].msg = m /\ u \in post[p].todo
                         \/ Copies(u, m) = 1
    BY DEF NothingLostNorDoubled
  <2>1. m \in Msgs
    BY ChatAssumption DEF IInv, TypeOK, Msgs
  <2> QED
    BY <2>1, OnePlace DEF IInv, Places, DueIsKept, ToCome
<1> QED
  BY <1>1, Invariance, PTL
=============================================================================
