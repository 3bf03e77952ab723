------------------------------- MODULE Purse -------------------------------
(***************************************************************************)
(* What one account owns and spends: the wallet, the inscriptions and the  *)
(* sockets they fill, banners, heroes, pages and talents.  The mutations   *)
(* are those of internal/accounts/accounts.go, each one section under the  *)
(* store's mutex; the requests are those of internal/gs/trade/trade.go.    *)
(* Filling sockets and unlocking a page take several sections, between     *)
(* which other connections of the account run sections of their own.       *)
(*                                                                         *)
(* All things that are counted are one function, have.  Tablets are UIDs   *)
(* here; module Loft says what becomes of their places and slots.  The     *)
(* price of a purchase and of a talent layer is what the client says.      *)
(***************************************************************************)
EXTENDS Account, Integers, Sequences, SequencesExt, FiniteSets, FiniteSetsExt

CONSTANTS
  Bronze, Silver, Gold,  \* inscriptions by tier
  Stock,         \* consumables, poles and banners with a count
  Unlimited,     \* banners that never run out
  Heroes, Skins, \* skins stand for what the shop cannot grant
  Tablet,        \* an item: a tablet
  Packs,         \* pack -> sequence of <<item, count>>
  Coins,         \* currency item -> <<currency, amount>>
  Pos,           \* sockets of a tablet
  Fillable,      \* bound: the inscriptions that clients put into sockets
  MergeSize,     \* inscriptions of a tier that make one of the next: 4
  ExchangePrice, PagePrice, LastPage,
  Talents, Budget,       \* talent ids, config.TalentPointsDefault
  Capacity,      \* room in the loft
  Prices, Quantities,    \* bounds: what clients put in a purchase
  MaxCount       \* bound on the counts

Insc == Bronze \cup Silver \cup Gold
Pay == {"emblem", "rune"}
Counted == Insc \cup Stock \cup Unlimited \cup Pay
Items == Insc \cup Stock \cup Unlimited \cup Heroes \cup Skins \cup {Tablet}
           \cup DOMAIN Packs \cup DOMAIN Coins

ASSUME PurseAssumption ==
  /\ \A S \in {Counted, DOMAIN Packs, DOMAIN Coins, Pos, Talents} : IsFiniteSet(S)
  /\ Insc \cap Pay = {} /\ None \notin Insc /\ Fillable \subseteq Insc
  /\ \A p \in DOMAIN Packs : Packs[p] \in Seq(Items \X (Nat \ {0}))
  /\ \A i \in DOMAIN Coins : Coins[i] \in Pay \X Nat
  /\ Talents \subseteq Nat
  /\ {MergeSize, ExchangePrice, PagePrice, LastPage, Budget, Capacity} \subseteq Nat \ {0}
  /\ Prices \cup Quantities \subseteq Nat
  /\ MaxCount \in [Counted -> Nat] /\ MaxUid \in Nat

VARIABLES
  have,     \* Inscriptions, Items, Poles, Patterns, Emblem, Rune
  heroes,   \* Account.Heroes
  socks,    \* the owned tablets: UID -> Sockets
  open,     \* the last page that is unlocked
  ranks,    \* the talents of a group, and its Echo: the points that are left
  echo,
  call      \* call[c]: the request that connection c is in the middle of

vars == <<have, heroes, socks, next, open, ranks, echo, call>>

Sockets == [Pos -> Fillable \cup {None}]
NoSockets == [p \in Pos |-> None]

Call == [at : {"idle", "unlock", "fill"}, uid : 0 .. MaxUid, page : 0 .. LastPage,
         owed : Sockets, sock : Sockets]
Idle == [at |-> "idle", uid |-> 0, page |-> 0, owed |-> NoSockets, sock |-> NoSockets]

TypeOK ==
  /\ have \in [Counted -> Nat]
  /\ heroes \subseteq Heroes
  /\ DOMAIN socks \subseteq 1 .. next - 1
  /\ \A u \in DOMAIN socks : socks[u] \in Sockets
  /\ next \in 1 .. MaxUid + 1
  /\ open \in 1 .. LastPage
  /\ ranks \in [Talents -> Nat]
  /\ echo \in Nat
  /\ call \in [Conns -> Call]

-----------------------------------------------------------------------------
(* Operators on what is owned.                                             *)

Larger(a, b) == IF a > b THEN a ELSE b

\* Mutant: the balance is not clamped.
Overdrawn(h, pay, amount) ==
  IF pay \in Pay THEN [h EXCEPT ![pay] = @ - amount] ELSE h

\* Debit and the charge of Purchase: clamped at zero; other currencies than
\* the known ones cost nothing.
Debited(h, pay, amount) ==
  IF pay \in Pay THEN [h EXCEPT ![pay] = Larger(0, @ - amount)] ELSE h

\* How often a thing that is not a pack is in a pack, which grantLocked
\* expands down to depth 4.
Content[depth \in 0 .. 4] ==
  [p \in DOMAIN Packs |-> [i \in Items |->
     SumFunction([n \in DOMAIN Packs[p] |->
       LET child == Packs[p][n][1] IN Packs[p][n][2] *
         IF child \in DOMAIN Packs
         THEN IF depth < 4 THEN Content[depth + 1][child][i] ELSE 0
         ELSE IF child = i THEN 1 ELSE 0])]]

\* What one of an item brings of every other, and of each currency.
Contents ==
  [item \in Items |-> [i \in Items |->
     IF item \in DOMAIN Packs THEN Content[0][item][i] ELSE IF item = i THEN 1 ELSE 0]]

Credits ==
  [item \in Items |-> [pay \in Pay |->
     SumFunction([i \in {i \in DOMAIN Coins : Coins[i][1] = pay} |->
                    Coins[i][2] * Contents[item][i]])]]

\* grantLocked, for what is counted.
Granted(h, item, qty) ==
  [i \in Counted |->
     IF i \in Pay THEN h[i] + qty * Credits[item][i]
     ELSE IF i \in Unlimited /\ qty * Contents[item][i] > 0 THEN 1
     ELSE h[i] + qty * Contents[item][i]]

\* canGrantLocked: a tablet needs room for one; anything else but a skin goes.
CanGrant(item) ==
  /\ item \notin Skins
  /\ item = Tablet => Cardinality(DOMAIN socks) < Capacity

Grants(item, qty) ==
  LET new == qty * Contents[item][Tablet] IN
  /\ next + new <= MaxUid + 1
  /\ heroes' = heroes \cup {h \in Heroes : Contents[item][h] > 0}
  /\ socks' = [u \in DOMAIN socks \cup next .. next + new - 1 |->
                 IF u \in DOMAIN socks THEN socks[u] ELSE NoSockets]
  /\ next' = next + new

\* Mutant: every source is looked for on its own.
NeededOnce(sources, i) == IF i \in {sources[n] : n \in DOMAIN sources} THEN 1 ELSE 0

\* ExchangeInscriptionSet counts duplicates.
Needed(sources, i) == Cardinality({n \in DOMAIN sources : sources[n] = i})

Exchanged(sources, target, pay, price) ==
  [i \in Counted |-> have[i] - Needed(sources, i) + (IF i = target THEN 1 ELSE 0)
                             - (IF i = pay THEN price ELSE 0)]

\* Mutant: the ranks are stored as the client sent them.
Unclamped(wish) == wish

\* clampTalentInfos: in the order of ids, every rank gets what is left.
Clamped(wish) ==
  LET left(t) == Budget - SumFunctionOnSet(wish, {s \in Talents : s < t})
  IN [t \in Talents |->
        IF left(t) <= 0 THEN 0 ELSE IF wish[t] > left(t) THEN left(t) ELSE wish[t]]

Bounded == \A i \in Counted : have'[i] <= MaxCount[i]

-----------------------------------------------------------------------------
(* Requests of one section.                                                *)

\* 0x6e: refused items are not charged.
Purchase(item, qty, pay, price) ==
  /\ CanGrant(item)
  /\ \A i \in Insc \cup Stock : have[i] + qty * Contents[item][i] <= MaxCount[i]
  /\ have' = Granted(Debited(have, pay, price), item, qty)
  /\ Grants(item, qty)
  /\ Bounded
  /\ UNCHANGED <<open, ranks, echo, call>>

\* 0x50: inscriptions of one tier for one of the next, any of them.
Merge(sources, target) ==
  /\ UNCHANGED <<heroes, socks, next, open, ranks, echo, call>>
  /\ \A i \in Insc : have[i] >= Needed(sources, i)
  /\ have' = Exchanged(sources, target, None, 0)
  /\ Bounded

\* 0x59: one gold for a chosen other one, paid in the same section.
ExchangeGold(source, target, pay) ==
  /\ UNCHANGED <<heroes, socks, next, open, ranks, echo, call>>
  /\ source # target
  /\ have[source] >= 1 /\ have[pay] >= ExchangePrice
  /\ have' = Exchanged(<<source>>, target, pay, ExchangePrice)
  /\ Bounded

\* 0x52, and 0x5b for a banner that can run out: down to zero.
UseUp(i, qty) ==
  /\ i \in Insc \/ (i \in Stock /\ qty = 1)
  /\ have' = [have EXCEPT ![i] = Larger(0, @ - qty)]
  /\ UNCHANGED <<heroes, socks, next, open, ranks, echo, call>>

\* 0x53: the sockets come back with the deletion.
ReturnSockets(u) ==
  /\ u \in DOMAIN socks
  /\ have' = [i \in Counted |-> have[i] + Cardinality({p \in Pos : socks[u][p] = i})]
  /\ socks' = [v \in DOMAIN socks \ {u} |-> socks[v]]
  /\ Bounded
  /\ UNCHANGED <<heroes, next, open, ranks, echo, call>>

Settle(wish) ==
  /\ ranks' = Clamped(wish)
  /\ echo' = Larger(0, Budget - SumFunctionOnSet(ranks', Talents))

\* 0x1e, 0x1f, 0x3b: some ranks are new.
ApplyTalentUpdate(rows) ==
  /\ Settle([t \in Talents |-> IF t \in DOMAIN rows THEN rows[t] ELSE ranks[t]])
  /\ UNCHANGED <<have, heroes, socks, next, open, call>>

\* 0x3c.
ResetTalents ==
  /\ Settle([t \in Talents |-> 0])
  /\ UNCHANGED <<have, heroes, socks, next, open, call>>

\* 0x42, 0x43: the layer itself opens nothing that is not open already.
UnlockTalent(cost) ==
  /\ have' = Debited(have, "rune", cost)
  /\ Settle(ranks)
  /\ UNCHANGED <<heroes, socks, next, open, call>>

-----------------------------------------------------------------------------
(* Requests of several sections.                                           *)

\* 0x7c: a debit that is clamped, and the page in a section of its own.
PayPage(c, page, pay) ==
  /\ call[c] = Idle
  /\ have' = Debited(have, pay, PagePrice)
  /\ call' = [call EXCEPT ![c] = [Idle EXCEPT !.at = "unlock", !.page = page]]
  /\ UNCHANGED <<heroes, socks, next, open, ranks, echo>>

\* UnlockPage opens all pages up to the one it is asked for.
UnlockPage(c) ==
  /\ call[c].at = "unlock"
  /\ open' = Larger(open, call[c].page)
  /\ call' = [call EXCEPT ![c] = Idle]
  /\ UNCHANGED <<have, heroes, socks, next, ranks, echo>>

\* 0x4f, 0x51: the sockets are read, and those whose inscription is not in the
\* new ones are owed.
AskFill(c, u, sock) ==
  /\ call[c] = Idle
  /\ u \in DOMAIN socks
  /\ call' = [call EXCEPT ![c] =
       [at |-> "fill", uid |-> u, page |-> 0, sock |-> sock,
        owed |-> [p \in Pos |-> IF \E q \in Pos : sock[q] = socks[u][p]
                                THEN None ELSE socks[u][p]]]]
  /\ UNCHANGED <<have, heroes, socks, next, open, ranks, echo>>

\* AddInscription, once for every owed socket.
GiveBack(c) ==
  /\ call[c].at = "fill"
  /\ \E p \in Pos :
       /\ call[c].owed[p] # None
       /\ have' = [have EXCEPT ![call[c].owed[p]] = @ + 1]
       /\ call' = [call EXCEPT ![c].owed[p] = None]
  /\ Bounded
  /\ UNCHANGED <<heroes, socks, next, open, ranks, echo>>

\* SetBackpackSockets, if the tablet is still there.
Fill(c) ==
  /\ call[c].at = "fill"
  /\ call[c].owed = NoSockets
  /\ socks' = [u \in DOMAIN socks |-> IF u = call[c].uid THEN call[c].sock ELSE socks[u]]
  /\ call' = [call EXCEPT ![c] = Idle]
  /\ UNCHANGED <<have, heroes, next, open, ranks, echo>>

\* The server stops between two sections.
Restart ==
  /\ call' = [c \in Conns |-> Idle]
  /\ UNCHANGED <<have, heroes, socks, next, open, ranks, echo>>

-----------------------------------------------------------------------------
\* migrateInventoryLocked: everything but inscriptions that an older version
\* kept among them is granted as what it is.
Migrated(old) ==
  FoldSet(LAMBDA item, h : Granted(h, item, old[item]),
          [i \in Counted |-> IF i \in Insc THEN old[i] ELSE 0],
          {item \in Items \ Insc : old[item] > 0})

\* A record of that version, with packs among its inscriptions, and money.
Init ==
  /\ \E misplaced \in SUBSET DOMAIN Packs, kept \in SUBSET Insc :
       LET old == [i \in Items |-> IF i \in misplaced \cup kept THEN 1 ELSE 0] IN
       /\ \A p \in misplaced : Contents[p][Tablet] = 0
       /\ have = [Migrated(old) EXCEPT !["emblem"] = MaxCount["emblem"],
                                       !["rune"] = MaxCount["rune"]]
       /\ \A i \in Counted : have[i] <= MaxCount[i]
  /\ heroes = {}
  /\ socks = [u \in {} |-> NoSockets]
  /\ next = 1
  /\ open = 1
  /\ ranks = [t \in Talents |-> 0]
  /\ echo = Budget
  /\ call = [c \in Conns |-> Idle]

MergeSome ==
  \E tiers \in {<<Bronze, Silver>>, <<Silver, Gold>>} :
    \E sources \in [1 .. MergeSize -> tiers[1]], target \in tiers[2] : Merge(sources, target)

ExchangeSome ==
  \E source, target \in Gold, pay \in Pay : ExchangeGold(source, target, pay)

Next ==
  \/ \E item \in Items, qty \in Quantities, pay \in Pay, price \in Prices :
       Purchase(item, qty, pay, price)
  \/ MergeSome
  \/ ExchangeSome
  \/ \E i \in Insc \cup Stock, qty \in Quantities : UseUp(i, qty)
  \/ \E u \in 1 .. MaxUid : ReturnSockets(u)
  \/ \E T \in SUBSET Talents : \E rows \in [T -> 0 .. Budget] : ApplyTalentUpdate(rows)
  \/ ResetTalents
  \/ \E cost \in Prices : UnlockTalent(cost)
  \/ \E c \in Conns :
       \/ \E page \in 1 .. LastPage, pay \in Pay \cup {None} : PayPage(c, page, pay)
       \/ \E u \in 1 .. MaxUid, sock \in Sockets : AskFill(c, u, sock)
       \/ UnlockPage(c) \/ GiveBack(c) \/ Fill(c)
  \/ Restart

Spec == Init /\ [][Next]_vars

-----------------------------------------------------------------------------
Inscriptions(h) == SumFunctionOnSet(h, Insc)

\* An exchange is whole ("duplicates count multiple times", "rejected on an
\* insufficient balance"): it takes as many inscriptions as it was asked to,
\* gives one, and is paid for, whatever other connections do to the inventory.
ExchangeIsWhole ==
  [][have' # have =>
       /\ MergeSome => /\ Inscriptions(have') = Inscriptions(have) - MergeSize + 1
                       /\ \A pay \in Pay : have'[pay] = have[pay]
       /\ ExchangeSome => /\ Inscriptions(have') = Inscriptions(have)
                          /\ \E pay \in Pay : have'[pay] = have[pay] - ExchangePrice]_vars

\* The talents of a group and the points that are left always make up the one
\* budget, whatever ranks the clients of an account send one after the other.
TalentsShareTheBudget ==
  SumFunctionOnSet(ranks, Talents) + echo = Budget
=============================================================================
