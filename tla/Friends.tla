------------------------------ MODULE Friends ------------------------------
(***************************************************************************)
(* Friend lists and friend requests: internal/accounts/friends.go, called  *)
(* by the HTTP handlers of internal/edge/friends.go, and persisted with    *)
(* the whole account store by saveLocked of internal/accounts/accounts.go. *)
(*                                                                         *)
(* Every function of accounts is one section under its mutex and works on  *)
(* two accounts at once.  The handler that adds a friend compares the      *)
(* limit in a section of its own before it calls SendFriendRequest; the    *)
(* other handlers are one section.  Handlers run concurrently, clients     *)
(* repeat and delay their calls, writing the store may fail, and the       *)
(* server may stop at any time and load what was written last.             *)
(***************************************************************************)
EXTENDS Integers, FiniteSets

CONSTANTS
  Accounts,
  Handlers,     \* goroutines that serve an add-friend call: a bound on them
  None,         \* nobody
  Torn,         \* a store file that was cut off while it was written
  MaxFriends,   \* accounts.MaxFriends
  MaxId         \* bound on request ids, and on the clock they come from

ASSUME NoneAssumption == None \notin Accounts
ASSUME MaxAssumption == MaxFriends \in Nat \ {0} /\ MaxId \in Nat \ {0}

VARIABLES
  store,    \* friends and requests of every account, in memory
  disk,     \* the accounts file
  now,      \* wall-clock milliseconds
  seq,      \* requestSeq
  call      \* call[h]: the add-friend call that h serves

vars == <<store, disk, now, seq, call>>

Request == [id : Nat, from : Accounts]

\* Account.Friends and Account.FriendRequests.
Store == [friends : [Accounts -> SUBSET Accounts],
          requests : [Accounts -> SUBSET Request]]

Call == [at : {"idle", "isfriend", "send"}, me : Accounts \cup {None},
         to : Accounts \cup {None}, direct : BOOLEAN]

TypeOK ==
  /\ store \in Store
  /\ disk \in Store \cup {Torn}
  /\ now \in Nat
  /\ seq \in Nat
  /\ call \in [Handlers -> Call]

Free == [at |-> "idle", me |-> None, to |-> None, direct |-> FALSE]

-----------------------------------------------------------------------------
(* What the functions of accounts do to the store.                         *)

\* pendingFromLocked finds something: b has asked a.
Asked(s, a, b) == \E r \in s.requests[a] : r.from = b

WithoutFrom(R, x) == {r \in R : r.from # x}

\* Mutant: a fresh friendship leaves the requests alone.
LinkOnly(s, a, b) ==
  [friends |-> [s.friends EXCEPT ![a] = @ \cup {b}, ![b] = @ \cup {a}],
   requests |-> s.requests]

\* linkFriendsLocked: both lists, and no request in either direction.
Link(s, a, b) ==
  [friends |-> [x \in Accounts |->
     CASE x = a -> s.friends[x] \cup {b}
       [] x = b -> s.friends[x] \cup {a}
       [] OTHER -> s.friends[x]],
   requests |-> [x \in Accounts |->
     CASE x = a -> WithoutFrom(s.requests[x], b)
       [] x = b -> WithoutFrom(s.requests[x], a)
       [] OTHER -> s.requests[x]]]

\* Mutant: only the caller's list is changed.
UnlinkMine(s, a, b) ==
  [friends |-> [s.friends EXCEPT ![a] = @ \ {b}], requests |-> s.requests]

\* RemoveFriend: out of both lists; requests are left alone.
Unlink(s, a, b) ==
  [friends |-> [x \in Accounts |->
     CASE x = a -> s.friends[x] \ {b}
       [] x = b -> s.friends[x] \ {a}
       [] OTHER -> s.friends[x]],
   requests |-> s.requests]

\* Mutant: the request is stored before its sender is known.
PutNameless(s, a, r) ==
  [friends |-> s.friends,
   requests |-> [s.requests EXCEPT ![a] = @ \cup {[r EXCEPT !.from = None]}]]

Put(s, a, r) ==
  [friends |-> s.friends, requests |-> [s.requests EXCEPT ![a] = @ \cup {r}]]

Take(s, a, r) ==
  [friends |-> s.friends, requests |-> [s.requests EXCEPT ![a] = @ \ {r}]]

\* Mutant: the millisecond alone is the id.
Millisecond == now

\* newRequestIDLocked: the millisecond, but always more than the last one.
NewId == IF now <= seq THEN seq + 1 ELSE now

\* saveLocked, whose error everybody ignores: written, not even opened, or
\* cut off after os.WriteFile has truncated the file.
Save(s) == disk' \in {s, disk, Torn}

Becomes(s) == store' = s /\ Save(s)

-----------------------------------------------------------------------------
(* POST /accounts/me/connections/friend                                    *)

\* FriendUsernames: a caller below the limit goes on, another one only if the
\* target is a friend already.
AskLimit(h, me, to, direct) ==
  /\ call[h].at = "idle"
  /\ me # to
  /\ call' = [call EXCEPT ![h] =
       [at |-> IF Cardinality(store.friends[me]) < MaxFriends THEN "send" ELSE "isfriend",
        me |-> me, to |-> to, direct |-> direct]]
  /\ UNCHANGED <<store, disk, now, seq>>

\* IsFriend.
AskFriend(h) ==
  /\ call[h].at = "isfriend"
  /\ call' = [call EXCEPT ![h] =
       IF call[h].to \in store.friends[call[h].me] THEN [@ EXCEPT !.at = "send"] ELSE Free]
  /\ UNCHANGED <<store, disk, now, seq>>

\* SendFriendRequest: friends already; or linked at once, because the client
\* asked for no approval or the target has asked first; or pending already; or
\* a new request on the target.
SendFriendRequest(h) ==
  LET me == call[h].me
      to == call[h].to
      friends == to \in store.friends[me] /\ me \in store.friends[to]
      linked == ~friends /\ (call[h].direct \/ Asked(store, me, to))
      exists == ~friends /\ ~linked /\ Asked(store, to, me)
  IN
  /\ call[h].at = "send"
  /\ \/ (friends \/ exists) /\ UNCHANGED <<store, disk, seq>>
     \/ linked /\ Becomes(Link(store, me, to)) /\ seq' = seq
     \/ /\ ~friends /\ ~linked /\ ~exists
        /\ NewId <= MaxId
        /\ Becomes(Put(store, to, [id |-> NewId, from |-> me]))
        /\ seq' = NewId
  /\ call' = [call EXCEPT ![h] = Free]
  /\ now' = now

-----------------------------------------------------------------------------
(* The other calls, each one section.                                      *)

\* accept: off the list, and friends.
AcceptFriendRequest(me) ==
  /\ \E r \in store.requests[me] : Becomes(Link(Take(store, me, r), me, r.from))
  /\ UNCHANGED <<now, seq, call>>

\* reject, ignore.
DropFriendRequest(me) ==
  /\ \E r \in store.requests[me] : Becomes(Take(store, me, r))
  /\ UNCHANGED <<now, seq, call>>

\* cancel: the first account, in map order, that has the id from me.
CancelSentFriendRequest(me) ==
  /\ \E other \in Accounts : \E r \in store.requests[other] :
       r.from = me /\ Becomes(Take(store, other, r))
  /\ UNCHANGED <<now, seq, call>>

\* delete: saved only when it changed something.
RemoveFriend(me, other) ==
  /\ me # other
  /\ other \in store.friends[me] \/ me \in store.friends[other]
  /\ Becomes(Unlink(store, me, other))
  /\ UNCHANGED <<now, seq, call>>

-----------------------------------------------------------------------------
Millis ==
  /\ now < MaxId
  /\ now' = now + 1
  /\ UNCHANGED <<store, disk, seq, call>>

\* The server stops and starts again with what Load reads; it does not start
\* on a torn file.  Load saves at once when it had to migrate an account.
\* requestSeq starts at 0, and a restart takes longer than the ids of the last
\* burst were ahead of the clock.
Restart ==
  /\ disk # Torn
  /\ store' = disk
  /\ now' = IF now > seq THEN now ELSE seq + 1
  /\ seq' = 0
  /\ call' = [h \in Handlers |-> Free]
  /\ Save(disk)

Nobody == [friends |-> [a \in Accounts |-> {}], requests |-> [a \in Accounts |-> {}]]

Init ==
  /\ store = Nobody
  /\ disk = Nobody
  /\ now = 1
  /\ seq = 0
  /\ call = [h \in Handlers |-> Free]

Next ==
  \/ \E h \in Handlers :
       \/ \E me, to \in Accounts, direct \in BOOLEAN : AskLimit(h, me, to, direct)
       \/ AskFriend(h) \/ SendFriendRequest(h)
  \/ \E me \in Accounts :
       \/ AcceptFriendRequest(me) \/ DropFriendRequest(me)
       \/ CancelSentFriendRequest(me)
       \/ \E other \in Accounts : RemoveFriend(me, other)
  \/ Millis \/ Restart

Spec == Init /\ [][Next]_vars

-----------------------------------------------------------------------------
Mutual(s) ==
  \A a, b \in Accounts :
    /\ a \notin s.friends[a]
    /\ b \in s.friends[a] => a \in s.friends[b]

Settled(s) ==
  \A a \in Accounts : \A r \in s.requests[a] :
    /\ r.from # a
    /\ r.from \notin s.friends[a]
    /\ ~Asked(s, r.from, a)
    /\ \A q \in s.requests[a] : q.from = r.from => q = r

Distinct(s) ==
  \A a, b \in Accounts : \A r \in s.requests[a], q \in s.requests[b] :
    r.id = q.id => a = b /\ r = q

\* Friendship is bilateral and never with oneself, however the calls of both
\* sides cross, and after a failed write and a restart too (FriendUsernames
\* "returns the bilateral friend set").
FriendsMutual == Mutual(store)

\* A request never outlives its question: none pends between friends, none
\* crosses another one, and nobody asks the same account twice.  RemoveFriend
\* leaves requests alone and may: between friends it has none to drop.
RequestsSettled == Settled(store)

\* An id names one request, across accounts and restarts: accept, ignore and
\* cancel answer by id alone.
IdsNameOneRequest == Distinct(store)
=============================================================================
