--------------------------- MODULE FriendsProofs ---------------------------
(***************************************************************************)
(* Proofs about Friends, for any accounts, any number of concurrent calls, *)
(* any limit: friendship is bilateral, requests are settled by friendship, *)
(* and an id names one request.  None is inductive alone: a restart brings *)
(* back what the file holds, so the invariant speaks of the file as well,  *)
(* and ids stay distinct because every stored one is below the next.       *)
(***************************************************************************)
EXTENDS Friends, TLAPS

Good(s) == Mutual(s) /\ Settled(s) /\ Distinct(s)

\* Every id in s was given out before.
Below(s, n) == \A a \in Accounts : \A r \in s.requests[a] : r.id < n

Sound(s, n) == s \in Store /\ Good(s) /\ Below(s, n)

CallsNameTwo ==
  \A h \in Handlers : call[h].at # "idle" =>
    /\ call[h].me \in Accounts /\ call[h].to \in Accounts
    /\ call[h].me # call[h].to

\* The inductive invariant.
IInv ==
  /\ TypeOK
  /\ Sound(store, NewId)
  /\ disk # Torn => Sound(disk, NewId)
  /\ CallsNameTwo

-----------------------------------------------------------------------------
\* What Link writes: both lists, and the requests between the two are gone.
LEMMA LinkFields ==
  ASSUME NEW s \in Store, NEW a \in Accounts, NEW b \in Accounts, a # b
  PROVE  /\ Link(s, a, b) \in Store
         /\ \A x \in Accounts :
              /\ x = a => /\ Link(s, a, b).friends[x] = s.friends[x] \cup {b}
                          /\ Link(s, a, b).requests[x] = {r \in s.requests[x] : r.from # b}
              /\ x = b => /\ Link(s, a, b).friends[x] = s.friends[x] \cup {a}
                          /\ Link(s, a, b).requests[x] = {r \in s.requests[x] : r.from # a}
              /\ x # a /\ x # b => /\ Link(s, a, b).friends[x] = s.friends[x]
                                   /\ Link(s, a, b).requests[x] = s.requests[x]
  BY DEF Link, Store, WithoutFrom

\* linkFriendsLocked keeps a sound store sound.
LEMMA LinkSound ==
  ASSUME NEW s, NEW n \in Nat, Sound(s, n),
         NEW a \in Accounts, NEW b \in Accounts, a # b
  PROVE  Sound(Link(s, a, b), n)
<1> DEFINE t == Link(s, a, b)
<1>1. s \in Store
  BY DEF Sound
<1>2. /\ t \in Store
      /\ \A x \in Accounts :
           /\ x = a => /\ t.friends[x] = s.friends[x] \cup {b}
                       /\ t.requests[x] = {r \in s.requests[x] : r.from # b}
           /\ x = b => /\ t.friends[x] = s.friends[x] \cup {a}
                       /\ t.requests[x] = {r \in s.requests[x] : r.from # a}
           /\ x # a /\ x # b => /\ t.friends[x] = s.friends[x]
                                /\ t.requests[x] = s.requests[x]
  BY <1>1, LinkFields
<1> HIDE DEF t
<1>3. \A x \in Accounts : t.requests[x] \subseteq s.requests[x]
  BY <1>2
<1>4. Mutual(t)
  BY <1>2 DEF Sound, Good, Mutual
<1>5. ASSUME NEW x \in Accounts, NEW r \in t.requests[x]
      PROVE  /\ r.from # x
             /\ r.from \notin t.friends[x]
             /\ ~Asked(t, r.from, x)
             /\ \A q \in t.requests[x] : q.from = r.from => q = r
  <2>1. r \in s.requests[x]
    BY <1>3
  <2>2. /\ r.from # x
        /\ r.from \notin s.friends[x]
        /\ ~Asked(s, r.from, x)
        /\ \A q \in s.requests[x] : q.from = r.from => q = r
    BY <2>1 DEF Sound, Good, Settled
  <2>3. r.from \in Accounts
    BY <1>1, <2>1 DEF Store, Request
  <2>4. r.from \notin t.friends[x]
    BY <1>2, <2>2
  <2>5. ~Asked(t, r.from, x)
    BY <1>3, <2>2, <2>3 DEF Asked
  <2> QED
    BY <1>3, <2>2, <2>4, <2>5
<1>6. Settled(t)
  BY <1>5 DEF Settled
<1>7. Distinct(t)
  BY <1>3 DEF Sound, Good, Distinct
<1>8. Below(t, n)
  BY <1>3 DEF Sound, Below
<1> QED
  BY <1>2, <1>4, <1>6, <1>7, <1>8 DEF Sound, Good, t

\* RemoveFriend keeps it sound.
LEMMA UnlinkSound ==
  ASSUME NEW s, NEW n \in Nat, Sound(s, n),
         NEW a \in Accounts, NEW b \in Accounts, a # b
  PROVE  Sound(Unlink(s, a, b), n)
<1> DEFINE t == Unlink(s, a, b)
<1>1. s \in Store
  BY DEF Sound
<1>2. /\ t \in Store
      /\ t.requests = s.requests
      /\ \A x \in Accounts :
           /\ x = a => t.friends[x] = s.friends[x] \ {b}
           /\ x = b => t.friends[x] = s.friends[x] \ {a}
           /\ x # a /\ x # b => t.friends[x] = s.friends[x]
  BY <1>1 DEF Unlink, Store
<1> HIDE DEF t
<1>3. Mutual(t)
  BY <1>2 DEF Sound, Good, Mutual
<1>4. \A x \in Accounts : t.friends[x] \subseteq s.friends[x]
  BY <1>2
<1>5. Settled(t)
  BY <1>2, <1>4 DEF Sound, Good, Settled, Asked
<1>6. Distinct(t) /\ Below(t, n)
  BY <1>2 DEF Sound, Good, Distinct, Below
<1> QED
  BY <1>2, <1>3, <1>5, <1>6 DEF Sound, Good, t

\* Taking a request off a list keeps it sound.
LEMMA TakeSound ==
  ASSUME NEW s, NEW n \in Nat, Sound(s, n), NEW a \in Accounts, NEW r
  PROVE  Sound(Take(s, a, r), n)
<1> DEFINE t == Take(s, a, r)
<1>1. s \in Store
  BY DEF Sound
<1>2. /\ t \in Store
      /\ t.friends = s.friends
      /\ \A x \in Accounts : t.requests[x] \subseteq s.requests[x]
  BY <1>1 DEF Take, Store
<1> HIDE DEF t
<1>3. Mutual(t)
  BY <1>2 DEF Sound, Good, Mutual
<1>4. ASSUME NEW x \in Accounts, NEW q \in t.requests[x]
      PROVE  ~Asked(t, q.from, x)
  <2>1. q \in s.requests[x]
    BY <1>2
  <2>2. q.from \in Accounts
    BY <1>1, <2>1 DEF Store, Request
  <2>3. ~Asked(s, q.from, x)
    BY <2>1 DEF Sound, Good, Settled
  <2> QED
    BY <1>2, <2>2, <2>3 DEF Asked
<1>5. Settled(t)
  BY <1>2, <1>4 DEF Sound, Good, Settled
<1>6. Distinct(t) /\ Below(t, n)
  BY <1>2 DEF Sound, Good, Distinct, Below
<1> QED
  BY <1>2, <1>3, <1>5, <1>6 DEF Sound, Good, t

\* A new request with the next id keeps it sound, for strangers that have not
\* asked each other.
LEMMA PutSound ==
  ASSUME NEW s, NEW n \in Nat, Sound(s, n),
         NEW a \in Accounts, NEW b \in Accounts, a # b,
         b \notin s.friends[a], ~Asked(s, a, b), ~Asked(s, b, a)
  PROVE  Sound(Put(s, a, [id |-> n, from |-> b]), n + 1)
<1> DEFINE new == [id |-> n, from |-> b]
<1> DEFINE t == Put(s, a, new)
<1>1. s \in Store
  BY DEF Sound
<1>2. new \in Request /\ new.id = n /\ new.from = b
  BY DEF Request
<1> HIDE DEF new
<1>3. /\ t \in Store
      /\ t.friends = s.friends
      /\ \A x \in Accounts :
           /\ x = a => t.requests[x] = s.requests[x] \cup {new}
           /\ x # a => t.requests[x] = s.requests[x]
  BY <1>1, <1>2 DEF Put, Store
<1> HIDE DEF t
<1>4. Mutual(t)
  BY <1>3 DEF Sound, Good, Mutual
<1>5. ASSUME NEW x \in Accounts, NEW r \in s.requests[x]
      PROVE  r.id \in Nat /\ r.id < n /\ r.from \in Accounts
  BY <1>1, <1>5 DEF Sound, Below, Store, Request
<1>6. \A x \in Accounts : \A r \in t.requests[x] :
        r \in s.requests[x] \/ (x = a /\ r = new)
  BY <1>3
<1>7. ASSUME NEW x \in Accounts, NEW r \in t.requests[x]
      PROVE  /\ r.from # x
             /\ r.from \notin t.friends[x]
             /\ ~Asked(t, r.from, x)
             /\ \A q \in t.requests[x] : q.from = r.from => q = r
  <2>1. CASE r \in s.requests[x]
    <3>1. /\ r.from # x /\ r.from \notin s.friends[x]
          /\ ~Asked(s, r.from, x)
          /\ \A q \in s.requests[x] : q.from = r.from => q = r
      BY <2>1 DEF Sound, Good, Settled
    <3>2. r.from \in Accounts
      BY <1>5, <2>1
    <3>3. x = a => r.from # b
      BY <2>1 DEF Asked
    <3>4. x = b => r.from # a
      BY <2>1 DEF Asked
    <3>5. ~Asked(t, r.from, x)
      BY <1>2, <1>6, <3>1, <3>2, <3>4 DEF Asked
    <3> QED
      BY <1>2, <1>3, <1>6, <3>1, <3>3, <3>5
  <2>2. CASE x = a /\ r = new
    <3>1. ~Asked(t, b, a)
      BY <1>3 DEF Asked
    <3>2. \A q \in s.requests[a] : q.from # b
      BY DEF Asked
    <3> QED
      BY <1>2, <1>3, <1>6, <2>2, <3>1, <3>2
  <2> QED
    BY <1>6, <2>1, <2>2
<1>8. Settled(t)
  BY <1>7 DEF Settled
<1>9. Distinct(t)
  <2> SUFFICES ASSUME NEW x \in Accounts, NEW y \in Accounts,
                      NEW r \in t.requests[x], NEW q \in t.requests[y], r.id = q.id
               PROVE  x = y /\ r = q
    BY DEF Distinct
  <2>1. CASE r \in s.requests[x] /\ q \in s.requests[y]
    BY <2>1 DEF Sound, Good, Distinct
  <2>2. CASE r \in s.requests[x] /\ y = a /\ q = new
    BY <1>2, <1>5, <2>2
  <2>3. CASE x = a /\ r = new /\ q \in s.requests[y]
    BY <1>2, <1>5, <2>3
  <2>4. CASE x = a /\ r = new /\ y = a /\ q = new
    BY <2>4
  <2> QED
    BY <1>6, <2>1, <2>2, <2>3, <2>4
<1>10. Below(t, n + 1)
  BY <1>2, <1>5, <1>6 DEF Below
<1> QED
  BY <1>3, <1>4, <1>8, <1>9, <1>10 DEF Sound, Good, t, new

-----------------------------------------------------------------------------
\* Given-out ids only grow.
LEMMA SoundLater ==
  ASSUME NEW s, NEW m \in Nat, NEW n \in Nat, m <= n, Sound(s, m)
  PROVE  Sound(s, n)
<1>1. ASSUME NEW a \in Accounts, NEW r \in s.requests[a]
      PROVE  r.id < n
  <2>1. r.id \in Nat
    BY DEF Sound, Store, Request
  <2>2. r.id < m
    BY DEF Sound, Below
  <2> QED
    BY <2>1, <2>2
<1> QED
  BY <1>1 DEF Sound, Below

LEMMA NewIdType == TypeOK => NewId \in Nat /\ NewId > seq /\ NewId >= now
  BY DEF TypeOK, NewId

\* A step that writes a sound store, or fails to, keeps both copies sound.
LEMMA BecomesSound ==
  ASSUME IInv, NEW t, Becomes(t), NEW n \in Nat, NewId <= n, Sound(t, n)
  PROVE  /\ Sound(store', n)
         /\ disk' # Torn => Sound(disk', n)
         /\ store' \in Store /\ disk' \in Store \cup {Torn}
<1>1. NewId \in Nat
  BY NewIdType DEF IInv
<1>2. disk # Torn => Sound(disk, n)
  BY <1>1, SoundLater DEF IInv
<1>3. store' = t /\ disk' \in {t, disk, Torn}
  BY DEF Becomes, Save
<1>4. t \in Store
  BY DEF Sound
<1> QED
  BY <1>2, <1>3, <1>4 DEF IInv, TypeOK

\* The calls that leave the clock, the counter and the handlers alone.
LEMMA OneSection ==
  ASSUME IInv, NEW t, Becomes(t), Sound(t, NewId), UNCHANGED <<now, seq, call>>
  PROVE  IInv'
<1>1. NewId \in Nat
  BY NewIdType DEF IInv
<1>2. NewId' = NewId
  BY DEF NewId
<1>3. /\ Sound(store', NewId)
      /\ disk' # Torn => Sound(disk', NewId)
      /\ store' \in Store /\ disk' \in Store \cup {Torn}
  BY <1>1, BecomesSound
<1>4. TypeOK'
  BY <1>3 DEF IInv, TypeOK
<1>5. CallsNameTwo'
  BY DEF IInv, CallsNameTwo
<1>6. Sound(store, NewId)'
  BY <1>2, <1>3 DEF Sound, Good, Mutual, Settled, Distinct, Below, Asked
<1>7. (disk # Torn => Sound(disk, NewId))'
  BY <1>2, <1>3 DEF Sound, Good, Mutual, Settled, Distinct, Below, Asked
<1> QED
  BY <1>4, <1>5, <1>6, <1>7 DEF IInv

\* A handler starts, goes on, or ends a call.
LEMMA AskLimitStep ==
  ASSUME IInv, NEW h \in Handlers, NEW me \in Accounts, NEW to \in Accounts,
         NEW direct \in BOOLEAN, AskLimit(h, me, to, direct)
  PROVE  IInv'
<1>1. me # to /\ UNCHANGED <<store, disk, now, seq>>
  BY DEF AskLimit
<1>2. PICK c \in Call : /\ c.me = me /\ c.to = to
                        /\ call' = [call EXCEPT ![h] = c]
  <2> PICK at \in {"idle", "isfriend", "send"} :
        call' = [call EXCEPT ![h] =
                   [at |-> at, me |-> me, to |-> to, direct |-> direct]]
    BY DEF AskLimit
  <2> [at |-> at, me |-> me, to |-> to, direct |-> direct] \in Call
    BY DEF Call
  <2> QED
    OBVIOUS
<1>3. TypeOK' /\ CallsNameTwo'
  BY <1>1, <1>2 DEF IInv, TypeOK, CallsNameTwo
<1> QED
  BY <1>1, <1>3 DEF IInv, NewId, Sound, Good, Mutual, Settled, Distinct, Below, Asked

LEMMA AskFriendStep ==
  ASSUME IInv, NEW h \in Handlers, AskFriend(h)
  PROVE  IInv'
<1>1. UNCHANGED <<store, disk, now, seq>>
  BY DEF AskFriend
<1>2. PICK c \in Call : /\ c.at # "idle" => c.me = call[h].me /\ c.to = call[h].to
                        /\ call' = [call EXCEPT ![h] = c]
  <2>1. call[h] \in Call
    BY DEF IInv, TypeOK
  <2>2. [call[h] EXCEPT !.at = "send"] \in Call /\ Free \in Call
    BY <2>1 DEF Call, Free
  <2>3. [call[h] EXCEPT !.at = "send"].me = call[h].me
        /\ [call[h] EXCEPT !.at = "send"].to = call[h].to
    BY <2>1 DEF Call
  <2>4. call' = [call EXCEPT ![h] = [call[h] EXCEPT !.at = "send"]]
        \/ call' = [call EXCEPT ![h] = Free]
    BY DEF AskFriend
  <2> QED
    BY <2>2, <2>3, <2>4 DEF Free
<1>3. TypeOK'
  BY <1>1, <1>2 DEF IInv, TypeOK
<1>4. call[h].at # "idle"
  BY DEF AskFriend
<1>5. CallsNameTwo'
  BY <1>2, <1>4 DEF IInv, TypeOK, CallsNameTwo
<1> QED
  BY <1>1, <1>3, <1>5 DEF IInv, NewId, Sound, Good, Mutual, Settled, Distinct, Below, Asked

LEMMA SendFriendRequestStep ==
  ASSUME IInv, NEW h \in Handlers, SendFriendRequest(h)
  PROVE  IInv'
<1> DEFINE me == call[h].me
           to == call[h].to
           friends == to \in store.friends[me] /\ me \in store.friends[to]
           linked == ~friends /\ (call[h].direct \/ Asked(store, me, to))
           exists == ~friends /\ ~linked /\ Asked(store, to, me)
<1>1. me \in Accounts /\ to \in Accounts /\ me # to
  BY DEF IInv, CallsNameTwo, SendFriendRequest
<1>2. call' = [call EXCEPT ![h] = Free] /\ now' = now
  BY DEF SendFriendRequest
<1>3. call' \in [Handlers -> Call] /\ CallsNameTwo'
  BY <1>2 DEF IInv, TypeOK, CallsNameTwo, Call, Free
<1>4. NewId \in Nat /\ NewId > seq /\ NewId >= now /\ now \in Nat
  BY NewIdType DEF IInv, TypeOK
<1>5. CASE UNCHANGED <<store, disk, seq>>
  BY <1>2, <1>3, <1>5 DEF IInv, TypeOK, NewId, Sound, Good, Mutual, Settled,
                          Distinct, Below, Asked
<1>6. CASE Becomes(Link(store, me, to)) /\ seq' = seq
  <2>1. Sound(Link(store, me, to), NewId)
    BY <1>1, <1>4, LinkSound DEF IInv
  <2>2. /\ Sound(store', NewId)
        /\ disk' # Torn => Sound(disk', NewId)
        /\ store' \in Store /\ disk' \in Store \cup {Torn}
    BY <1>4, <1>6, <2>1, BecomesSound
  <2>3. NewId' = NewId
    BY <1>2, <1>6 DEF NewId
  <2>4. TypeOK'
    BY <1>2, <1>3, <1>6, <2>2 DEF IInv, TypeOK
  <2> QED
    BY <1>3, <2>2, <2>3, <2>4 DEF IInv, Sound, Good, Mutual, Settled, Distinct,
                                  Below, Asked
<1>7. CASE /\ ~friends /\ ~linked /\ ~exists
           /\ Becomes(Put(store, to, [id |-> NewId, from |-> me]))
           /\ seq' = NewId
  <2>1. ~Asked(store, me, to) /\ ~Asked(store, to, me)
    BY <1>7
  <2>2. me \notin store.friends[to]
    BY <1>1, <1>7 DEF IInv, Sound, Good, Mutual
  <2>3. Sound(Put(store, to, [id |-> NewId, from |-> me]), NewId + 1)
    BY <1>1, <1>4, <2>1, <2>2, PutSound DEF IInv
  <2>4. /\ Sound(store', NewId + 1)
        /\ disk' # Torn => Sound(disk', NewId + 1)
        /\ store' \in Store /\ disk' \in Store \cup {Torn}
    BY <1>4, <1>7, <2>3, BecomesSound
  <2>5. NewId' = NewId + 1
    BY <1>2, <1>4, <1>7 DEF NewId
  <2>6. TypeOK'
    BY <1>2, <1>3, <1>4, <1>7, <2>4 DEF IInv, TypeOK
  <2> QED
    BY <1>3, <2>4, <2>5, <2>6 DEF IInv, Sound, Good, Mutual, Settled, Distinct,
                                  Below, Asked
<1> QED
  BY <1>5, <1>6, <1>7 DEF SendFriendRequest

LEMMA AcceptStep ==
  ASSUME IInv, NEW me \in Accounts, AcceptFriendRequest(me)
  PROVE  IInv'
<1>1. PICK r \in store.requests[me] : Becomes(Link(Take(store, me, r), me, r.from))
  BY DEF AcceptFriendRequest
<1>2. r.from \in Accounts /\ r.from # me
  BY DEF IInv, TypeOK, Store, Request, Sound, Good, Settled
<1>3. NewId \in Nat
  BY NewIdType DEF IInv
<1>4. Sound(Take(store, me, r), NewId)
  BY <1>3, TakeSound DEF IInv
<1>5. Sound(Link(Take(store, me, r), me, r.from), NewId)
  BY <1>2, <1>3, <1>4, LinkSound
<1> QED
  BY <1>1, <1>5, OneSection DEF AcceptFriendRequest

LEMMA DropStep ==
  ASSUME IInv, NEW me \in Accounts, DropFriendRequest(me)
  PROVE  IInv'
<1>1. PICK r \in store.requests[me] : Becomes(Take(store, me, r))
  BY DEF DropFriendRequest
<1>2. Sound(Take(store, me, r), NewId)
  BY NewIdType, TakeSound DEF IInv
<1> QED
  BY <1>1, <1>2, OneSection DEF DropFriendRequest

LEMMA CancelStep ==
  ASSUME IInv, NEW me \in Accounts, CancelSentFriendRequest(me)
  PROVE  IInv'
<1>1. PICK other \in Accounts : \E r \in store.requests[other] :
        Becomes(Take(store, other, r))
  BY DEF CancelSentFriendRequest
<1> PICK r \in store.requests[other] : Becomes(Take(store, other, r))
  BY <1>1
<1>2. Sound(Take(store, other, r), NewId)
  BY NewIdType, TakeSound DEF IInv
<1> QED
  BY <1>1, <1>2, OneSection DEF CancelSentFriendRequest

LEMMA RemoveStep ==
  ASSUME IInv, NEW me \in Accounts, NEW other \in Accounts, RemoveFriend(me, other)
  PROVE  IInv'
<1>1. Sound(Unlink(store, me, other), NewId)
  BY NewIdType, UnlinkSound DEF IInv, RemoveFriend
<1> QED
  BY <1>1, OneSection DEF RemoveFriend

\* The clock only makes the next id larger.
LEMMA MillisStep ==
  ASSUME IInv, Millis
  PROVE  IInv'
<1>1. NewId \in Nat /\ NewId' \in Nat /\ NewId <= NewId'
  BY DEF IInv, TypeOK, Millis, NewId
<1>2. Sound(store, NewId') /\ (disk # Torn => Sound(disk, NewId'))
  BY <1>1, SoundLater DEF IInv
<1>3. TypeOK' /\ CallsNameTwo'
  BY DEF IInv, TypeOK, CallsNameTwo, Millis
<1> QED
  BY <1>2, <1>3 DEF IInv, Millis, Sound, Good, Mutual, Settled, Distinct, Below, Asked

\* A restart loses the counter, and by then the clock has passed it.
LEMMA RestartStep ==
  ASSUME IInv, Restart
  PROVE  IInv'
<1>1. NewId \in Nat /\ NewId' \in Nat /\ NewId <= NewId'
  BY DEF IInv, TypeOK, Restart, NewId
<1>2. Sound(disk, NewId')
  BY <1>1, SoundLater DEF IInv, Restart
<1>3. TypeOK'
  BY <1>2 DEF IInv, TypeOK, Restart, Save, Sound, Call, Free
<1>4. CallsNameTwo'
  BY DEF CallsNameTwo, Restart, Free
<1>5. store' = disk /\ disk' \in {disk, Torn}
  BY DEF Restart, Save
<1> QED
  BY <1>2, <1>3, <1>4, <1>5 DEF IInv, Sound, Good, Mutual, Settled, Distinct,
                                Below, Asked

LEMMA InitInv == Init => IInv
<1> SUFFICES ASSUME Init PROVE IInv
  OBVIOUS
<1>1. TypeOK
  BY DEF Init, TypeOK, Nobody, Store, Call, Free
<1>2. Sound(Nobody, NewId)
  BY DEF Sound, Good, Mutual, Settled, Distinct, Below, Asked, Nobody, Store
<1>3. CallsNameTwo
  BY DEF Init, CallsNameTwo, Free
<1> QED
  BY <1>1, <1>2, <1>3 DEF IInv, Init

LEMMA NextInv == IInv /\ [Next]_vars => IInv'
<1> SUFFICES ASSUME IInv, [Next]_vars PROVE IInv'
  OBVIOUS
<1>1. CASE UNCHANGED vars
  BY <1>1 DEF vars, IInv, TypeOK, NewId, CallsNameTwo, Sound, Good, Mutual, Settled,
              Distinct, Below, Asked
<1>2. CASE Next
  BY <1>2, AskLimitStep, AskFriendStep, SendFriendRequestStep, AcceptStep, DropStep,
     CancelStep, RemoveStep, MillisStep, RestartStep DEF Next
<1> QED
  BY <1>1, <1>2

-----------------------------------------------------------------------------
\* IInv is an invariant: what memory and the file hold is sound, and every id
\* they hold was given out before.
THEOREM Invariance == Spec => []IInv
  BY InitInv, NextInv, PTL DEF Spec

\* Every reachable state has its type: requests name a known account.
THEOREM TypeCorrect == Spec => []TypeOK
<1>1. IInv => TypeOK
  BY DEF IInv
<1> QED
  BY <1>1, Invariance, PTL

\* However calls cross, writes fail and the server restarts, a friend's friend
\* list has its owner in it (linkFriendsLocked and RemoveFriend of friends.go).
THEOREM FriendsAreMutual == Spec => []FriendsMutual
<1>1. IInv => FriendsMutual
  BY DEF IInv, Sound, Good, FriendsMutual
<1> QED
  BY <1>1, Invariance, PTL

\* No request pends between friends, against another request, or twice
\* (linkFriendsLocked, and the order of the tests in SendFriendRequest).
THEOREM RequestsAreSettled == Spec => []RequestsSettled
<1>1. IInv => RequestsSettled
  BY DEF IInv, Sound, Good, RequestsSettled
<1> QED
  BY <1>1, Invariance, PTL

\* An id that a client answers with names one request of one account
\* (newRequestIDLocked, across restarts that take longer than the counter was
\* ahead of the clock).
THEOREM IdsAreDistinct == Spec => []IdsNameOneRequest
<1>1. IInv => IdsNameOneRequest
  BY DEF IInv, Sound, Good, IdsNameOneRequest
<1> QED
  BY <1>1, Invariance, PTL
=============================================================================
