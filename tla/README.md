# TLA+ models of the HoC community server

The repository is a game server written in Go (`src/server/hoc-server`): a lobby
over TCP, a game server over TCP that also relays matches in lock step, and an
HTTP front end with accounts, friends and chat. The parts that are hard to get
right are the ones where several goroutines, timers and connections act on one
session or one room, and the ones where a request is several sections on one
account that is saved by rewriting a file.

Paths below are relative to `src/server/hoc-server/internal/`.

## Inventory

| Component | State it keeps | Operations | Hard behaviour | What makes it correct |
|---|---|---|---|---|
| match reconnect (`session/session.go`, `gs/handler.go`) | per session: MatchPlaying, MatchLoading, MatchHold and its deadline and generation, pending claim, GSConns, soft-resume counters; per connection: connState.playing, .detached | disconnect, ReLogin, takeover, claim, ack, complete, refuse, abandon, expire, leave | half-open sockets, 90 s timers of older holds, several connections of one client, lobby and game sockets failing independently | a held seat is reserved until it is resumed, given up or expired, and never resurrected |
| custom rooms (`session/session.go`, `lobby/lobby.go`, `gs/handler.go`) | rooms map, Members, Host, State; per session Room, Seat, hero, ready | create, join, leave, destroy, promote, hop, claim hero, ready, start | LeaveRoom, DestroyRoom, JoinRoom and start drop room.mu between their sections | seats distinct, both directions of membership agree, empty rooms go |
| frame clock (`match/clock.go`) | Clock.armed, Clock.tickers, room.MatchClockArmed, MatchSFrame, one owner goroutine per room | Arm, Disarm, DisarmIfIdle, stopTicker, tick | two locks taken one after the other, a wait for the owner's exit | one owner per room, no frame during loading, no clock without players |
| packet stream (`match/clock.go`, `gs/handler.go`) | room.MatchSynNext, MatchReplay, room.mu, room.wireMu; per connection resumePending | op11 numbering, op7 stamping, replay, alignment | numbering and writing under different locks, rejoin in the middle | one order on the wire, no gap, no duplicate |
| game handler (`gs/handler.go`) | connState per connection | login, re-login, packet dispatch | it is where the four parts above meet | calls them in an order that keeps their promises |
| lobby (`lobby/lobby.go`) | none of its own | e038 create, e03c join, e02e leave, end of the connection | runs concurrently with the game handler of the same session | as for rooms |
| accounts (`accounts/accounts.go`) | the accounts map, its indexes by id and token, and their JSON file; per account the wallet, inventory, heroes, banners, pages and talents | login, register, claim, bootstrap, token; purchase, debit, grant, exchange, sockets, talents | each method locks and saves by itself; a save fails, tears or is undone; two connections of one account | an issued token leads home, an accepted password stays, exchanges are whole |
| tablets (`accounts/tablets.go`, `cmd/`) | tablet instances, page slots, and a legacy mirror derived from them | equip, unequip, awaken, sleep, delete, load, maintenance commands | positions that shift between two sections, an older binary on the same file | slots hold owned copies, a request hits the copy it named, a load loses nothing |
| trade (`gs/trade/trade.go`) | none of its own | kitabe mutations, purchases, talents, flags | sequences of account methods, not one transaction | as for accounts and tablets |
| friends (`accounts/friends.go`, `edge/friends.go`) | friend lists and requests of both sides | send, accept, drop, cancel, remove | two accounts per step, a limit compared early, crossing and repeated calls, failed writes | friendship is bilateral, requests are settled by it, an id names one request |
| chat (`edge/chat.go`, `gs/chat.go`), alerts (`edge/kairos.go`) | member queues of 64, subscriber channels of 8 | post, join, leave, notify | bounded queues that drop, several connections of one user | order kept, nobody blocks the poster |
| HTTP (`edge/edge.go`) | the per-account data store and its file | who a request is taken for, authentication, data | requests that identify nobody fall back to the seed account | a client's data is under its own account |
| wire formats (`wire/`), tables (`domain/`), `config/`, `netx/`, `prof/`, `cmd/` | little or none | I/O, encoding, lookups | sequential | unit tests |

How they interact: a client has one lobby connection and, over time, several
game connections, all of one Session. Lobby packets and game packets call
`session` concurrently; `session` publishes room leaves to observers in `gs`
(which disarms the clock) and `lobby`; the clock reads sessions through the
room; a hold timer calls LeaveRoom from a goroutine of its own. Lobby login, trade
packets and HTTP requests of a client all end in sections under the one mutex of
`accounts.Store`, each of which rewrites the file.

`PROJECT.json` lists the hazards, each at its line, with the properties that
cover it.

## Modules

**`MatchHold`** is mid-match reconnect in one room. `sess[p]` is the part of a
Session that a match uses; `pc[c]` is the next critical section of the handler
goroutine of connection `c`, so that everything another goroutine may do between
two sections is explored. `ClaimMatchHold`, `TakeoverMatchSession`,
`CompleteMatchResume`, `DetachGS`, `NoteSoftResume*`, `AbandonMatchResume`,
`ExpireMatchHold` carry the names of the functions they translate; each is one
section under `s.mu` (or `room.mu` with `s.mu` inside). Deliberate abstractions:

- time is three flags per session, moved by HoldDeadline (the hold's TTL),
  AckWindowCloses (the quick-EOF window) and CooldownEnds (the fail cooldown);
- LeaveRoom, and expireMatchHold with the LeaveRoom it calls, are one action
  (`Rooms` takes LeaveRoom apart), and so are the clock's two sections
  (`MatchClock` takes those apart);
- seat, hero and room id do not change in a match, so the snapshot that a claim
  compares is left out;
- `Overlap` says whether a client may open another connection while an earlier
  one is in the handshake. The runs use FALSE. A client whose 0x3001 is still
  unread in one socket while its ReLogin completes on another can bring back
  the seat it left; with TRUE, QuitIsFinal, TransportsFollowSeats and
  SeatsFollowLifecycle fail. The other theorems of `MatchHoldProofs` hold for both values,
  those about these three for FALSE.

**`SeatLifecycle`** is what the machinery promises for a seat: loading, playing,
reserved, idle, vacant, and the moves between them. `MatchHold` implements it
under the mapping `SeatPhase` (run `MatchHoldRetry`, property
`SeatsFollowLifecycle`).

**`MatchClock`** is the life of the frame clock with the dedicated ticker
(config.FrameTicker). `lit` is room.MatchClockArmed, `anchored` the entry in
Clock.armed, `entry` the one in Clock.tickers; each player has a game handler and
a leaver as workers, and `owner[t]` is the goroutine that startTicker starts.

**`MatchStream`** is the numbered packet stream. `mu` and `wire` are the two
locks, held across steps, because the hand-over (take the wire, then release
the room) is what keeps the order. A packet is its place in the order in which packets
are numbered, and `syn[k]` the number that packet k carries: the two part when the
counter is moved for a rejoiner. `out[p]` is what was written to p's present
connection, `from[p]` the number its client had received when it lost the previous
one, which is the RequestedSyn of its ReLogin. A replay copies the ring and writes
it packet by packet, without those that the client has. A frame's recipients are
copied when it is numbered, an action's when it is written, as in the code. `Early` says whether a client sends op7 before every member has
loaded; the runs use FALSE, as the comment of AllPlayersStarted describes
(with TRUE, SurvivorGetsAll fails: op7 does not ask the barrier). A rejoiner
sends nothing but its first op3 until its gate opens.

**`Rooms`** is rooms before the match: every section of LeaveRoom, DestroyRoom,
JoinRoom, CreateRoom and of the start, for the lobby goroutine and the game
goroutine of each session. Members is a set, so the promoted survivor is any of
those copied; skins, spells, tokens and options follow the hero or the room.

**`Friends`** is friend lists and requests. `store` is what the process holds,
`disk` the accounts file; each function of `accounts/friends.go` is one action,
its save included, and the add-friend handler of `edge/friends.go` is three
(AskLimit, AskFriend, SendFriendRequest), because it compares the limit before
it takes the lock. saveLocked, whose error every caller drops, either writes,
or leaves the file as it was, or leaves it torn; Restart loads what is there
(and does not start on a torn file, as Load fails). A request is its id and its
sender; a list is a set, which pendingFromLocked and containsNorm make of it. The
alert to the target and the listings change nothing here and are left out. One
thing is assumed of the world: a restart takes longer than the last burst of ids
was ahead of the clock, because requestSeq, which keeps ids apart, is not saved.

**`Loft`** is the tablets of one account: the owned vector `inst` in wire order,
the UID in each page slot, the next UID and the emblems. A client names a tablet by
its position; AskWear, AskWake, AskSleep and AskDelete are the first section of
a request, which looks the position up in a copy, and Wear, Wake, Sleep and Delete the
section that mutates by UID, so that another connection's deletion falls in
between. The mirror (`TabletEquips` and its companions) is a function of the
rest, `Mirror`, and not a variable: every section that changes an instance or a
slot rebuilds it. Load stops the server in the middle of its requests and runs the
normalisation of the load. OldBinary is a visit of a server that knows only the mirror,
with the migration that follows: `Migrate` folds `Bind` over the page slots in their order.
ClearAscension and RestorePages are the
maintenance commands, each with the load that follows. A purchase, whose cost is in `Purse`, is
Grant here.

**`Purse`** is what one account has and spends. Everything that is counted is one
function, `have`; a purchase is one action, and what a pack brings, with the packs
in it, is the recursive function `Content`. Filling the sockets of a tablet
(AskFill, GiveBack, Fill) and unlocking a page (PayPage, UnlockPage) are the
requests of several sections. Talents are ranks that come from the client, the
points that are left, and the one budget.

**`Identity`** is who a client is: the roster by user name, `index` by id and by
token, the file with its two ways to fail (left as it was, torn), and what has
been promised: `pending` answers, `issued` handles, `logins` with the password
that was accepted. An account whose save fails is undone (Register), a claim whose
save fails is not, and a file that only failed to close is new although the server
thinks it is not. The Gaia data store is `data` and `dataDisk`.

**`Chat`** is a room's queues and the alert streams. The select statements of
`postChatMessage` are steps of their own (Push, DropOldest), since a stream may
read the queue between them; a stream has taken a message (Take) before it has
written it (Write, WriteFails). `due` says what was posted to a user while a
member, less what an overflow, a failed write or a leave took away; `got` what its
streams have written. A queue is recycled when no member and no stream has it.

The proofs are in **`MatchHoldProofs`**, **`MatchClockProofs`**, **`MatchStreamProofs`**,
**`RoomsProofs`**, **`FriendsProofs`**, **`AccountProofs`** (for `Loft` and `Purse`), **`IdentityProofs`** and **`ChatProofs`**; **`MCMatchHold`**, **`MCRooms`**, **`MCFriends`**, **`MCLoft`**, **`MCPurse`** and
**`MCIdentity`** add small catalogues and symmetry for TLC. `Friends` and `Identity` each have the
roster file with the faults that matter to them; `Loft` and `Purse` share one
account, and each mentions the other's part in one action. What they have in common, the
connections and the UID of the next tablet, is in **`Account`**, which both extend, and their other
names are apart (`LoftInit` and `LoftSpec` beside `Init` and `Spec`), so that one module can
prove about both with the same lemmas.

## Runs

| Run | Instance | Result |
|---|---|---|
| `MatchHold` | 2 players, 3 connections, fail limit 1, symmetry | 306,197 states; type, HoldIsReserved, ResumeNeedsHold, HeldKeepsClock, TransportsFollowSeats, QuitIsFinal hold |
| `MatchHoldRetry` | 1 player, 3 connections, no symmetry | HoldResolves and the refinement of SeatLifecycle hold |
| `MatchHoldStale` | 1 player, 2 connections | DisconnectKeepsHold is violated |
| `MatchClock` | 2 players, 2 owners, frame counter up to 1 | 66,451 states; one accounted-for owner, no frame during loading, ghost clocks stop, stopTicker returns |
| `MatchStream` | 2 peers, ring of 2, 5 packets, two lost connections | 289,554 states; wire order, survivors, gate and progress hold |
| `Rooms` | 2 sessions, 2 rooms, 1 hero, halves of 1 seat, 7 packets, symmetry | 466,365 states; seats and membership, empty and destroyed rooms hold |
| `RoomsHost` | 3 sessions, 1 room, 5 packets | HostIsMember is violated |
| `Friends` | 3 accounts, 2 concurrent add-friend calls, limit 1, ids and clock up to 2, symmetry | 506,428 states; bilateral friendship, settled requests and distinct ids hold |
| `Loft` | 2 connections, 2 tablets, 2 slots on one page and 1 on another, legacy records of 2 copies, 3 copies and UIDs, 1 emblem, symmetry | 845,424 states; owned copies, addressed copies, paid ascensions and loads hold |
| `Purse` | one connection in a request of several sections while others run theirs, 5 inscriptions, pack in a pack, budget 2, merges of 2 | 138,240 states; natural balances, whole exchanges and the talent budget hold |
| `Identity` | a player, a device and the seed account, 2 passwords, ids up to 3, symmetry | 28,188 states; distinct ids, handles that lead home and accepted logins hold |
| `Chat` | 1 user, 2 streams, 1 post at a time, 3 messages, queues of 2, 2 alert streams of 1 | 200,144 states; nothing is lost unsaid or doubled, and backlogs drain |

Why these bounds. Two players are what it takes for one player's disconnect or
leave to disturb another's reservation, clock or stream. A third connection is
what it takes for a takeover of a transport while a second one is already
in its disconnect path. FailMax 1 (2 in the code) lets a single quick EOF reach the
refusal. Two owners let a clock be stopped and started again. A ring of 2 with
5 packets overflows, and two lost connections let both peers drop, so that the counter is
moved back and packets are numbered after it; Catchup 2 (4 in the code) gives batches of more than one
frame. Halves of one seat make every third join find its half full; seat 2 in
`Asked` stands for the byte values beyond the room, which JoinRoom accepts.
Seven packets are two sessions that create, join, pick, get ready, start and
leave. Three accounts are a friendship and somebody who asks one of its sides;
limit 1 (50 in the code) makes both answers of AskLimit happen; ids up to 2 are
a burst in one millisecond, and an id before and after a restart. In `Loft`, two copies of one tablet
and one of another are what the "first copy" lookups can confuse, and a second
page is what per-page uniqueness is about; every legacy record of up to two copies (MaxOwned) is an initial
state. In `Purse`, two kinds of gold, one of bronze and merges of 2
(4 in the code) give merges with duplicates and every refusal; its single slow
connection meets single sections of all the others. In `Identity`, ids up to 3 are one that is
undone and given again; the instance with two players and ids up to 4, too
large for a run, was explored to 1.5 million states without an error, and the
theorems cover every instance. In `Chat`, a queue of 2 (64 in the code)
overflows with the third message; two users without alert streams (2.5 million states) hold
too. Deadlock
checking is off in the first four modules and in `Friends`: a match, a bounded number of packets and the supply of ids end.

Fairness. `MatchHold` assumes only that time passes and that the runtime fires
timers; nothing of clients, networks or handlers. `MatchClock` assumes that
goroutines that can run do run, weakly; and strongly that an owner whose stop
channel is closed sees it, since Go's select picks among ready cases at random.
`MatchStream` assumes strongly that a process that needs a lock gets it: a Go
mutex in starvation mode goes to the longest waiter. `Chat` assumes that the loop
of a stream runs on and that a write ends, weakly: a stream is alone on its
connection, and two on one queue may each be overtaken for ever but not together.
`Rooms`, `Friends`, `Loft`, `Purse` and `Identity` have no liveness.

## What the code does not keep

Two comments promise more than the code does; `findings` in `PROJECT.json`
quotes them, and each has a run whose counterexample shows it:

- a stale transport can run the disconnect path after all and end the hold of
  the takeover that replaced it (`MatchHoldStale`);
- a departed survivor can be made host (`RoomsHost`).

The rest was met while modelling and is inside the models, but no run is about
it. In a match:

- a loading client that loses both connections keeps a seat that nothing
  vacates (`session/session.go:339`);
- DisarmIfIdle asks whether the room is idle and disarms in two sections; a StartPlay
  in between arms a clock that is then disarmed (`match/clock.go:221`, `:239`);
- packets numbered between a replay's copy and the opening of the rejoiner's gate do
  not reach it (`gs/handler.go:350`, `:377`, `:401`);
- the counter is moved back after MatchPeersFrozen was asked in another section
  (`gs/handler.go:302`, `:306`), and the ring is not cleared (`:311`). With two lost
  connections a peer may be live again by then, and the numbers of its packets go back and
  repeat; the order of the packets does not change, which is what WireOrder says. A
  peer that never lost its connection sees none of this (SurvivorGetsAll).

On an account:

- the comment of Purchase says that unique items which are already owned are not charged;
  canGrantLocked lets any hero through, so an owned hero is paid again;
- Debit clamps, so a page unlock (0x7c) goes through on a balance that is too
  small, and it pays and unlocks in two sections;
- socket requests (0x4f, 0x51) give back the inscriptions they read before their
  first section: two connections on one tablet return one inscription twice, or
  none, and of two equal ones in one tablet one is lost;
- a purchase of several tablets, or of a pack, asks for room for one: the loft can outgrow
  its capacity;
- a tablet may be in slots of several pages, once in each; the sentence of `DEVELOPMENT.md:37` on
  multiple slots holds per page only;
- a device whose account cannot be saved is answered as the seed account
  (`edge/edge.go:343`, `lobby/lobby.go:107`), and a store without the seed account gives
  the first registered player the id that bootstrap then answers with;
- a torn accounts file keeps the server from starting, while a torn Gaia file counts as
  empty and is overwritten;
- restore-tablet-pages may fill a slot of a page that already wears the copy, and the load then
  drops the higher slot: the tablet has moved within its page;
- an older binary keeps one set of sockets per tablet id, the first copy's.

In chat, an overflow may drop one message more than it needs, since a stream may
have made room between the two selects; a message that a stream has taken when its connection
ends is lost; an alert between the headers and the subscription reaches
nobody.

## Proofs

Every theorem is about every value of the constants that the module's named assumptions
admit: any players, connections, rooms, queues and bounds, where a run has two
or three of each. None of the invariants is inductive by itself; each module defines
the strengthening `IInv` (and what else it needs), which was checked by TLC on the
run's instance before it was proved, shows that Init establishes it and that every
action keeps it, and draws the conclusions with PTL.

**`MatchHoldProofs`**, for any fail limit and both values of Overlap, proves
`TypeOK`, `HoldIsReserved`, `ResumeNeedsHold` and `HeldKeepsClock`. The
assumptions are that None is neither a player nor a connection and that FailMax is
positive. `IInv` adds `MatchMembers` (a playing or
loading session is a room member, and loading ends before playing), `LoadingIsFresh`
(no connection of a loading session has played yet), `PlayingIsArmed` (while a playing
session has no armed clock, each of its connections that could reserve the seat is
still between StartPlay and Arm) and `UsedBeforePlaying`. `HeldKeepsClock` needs the
third: DetachGSForDisconnect makes a hold without looking at the clock.
Each action changes the record of one
session, so the module first states once per record operator (ClearHold, Idle,
Reserve, Drop, Claim, Resume, ...) what it does to each field, and the lemma
`Frame` carries the invariant over the sessions an action does not touch.

The second half of `MatchHoldProofs` goes on to what several connections of one client may
do together. `TransportInv` holds whatever clients do: a connection that serves the match
is attached to its seat, marked detached, or on the list of the takeover that
will mark it, and a seat has one that serves it at most. `ClientInv` is for clients that wait
for the answer to one ReLoginReq before the next (`~Overlap`): the handshake under way is the
newest connection's, a client that left has none for a seat, nobody plays
on a seat that is being claimed. With both, `TransportsFollowSeats` and `QuitIsFinal`
follow, and the safety part of the refinement: `LifecycleTheorem` says that every
section of every handler, timer and lobby call is a step of `SeatLifecycle` under the
mapping `SeatPhase`, or a stutter. The lemmas of the actions say what each does to
the seat it changes, field by field, and the theorems speak of fields only. Without
`~Overlap` the three are false (see `MatchHold` above); the runs have `Overlap = FALSE`.

**`MatchClockProofs`** proves `TypeOK`, `OwnersAreAccountedFor`, `HoldKeepsClockLit` and the
action property `NoFrameWhileLoading`, for any finite set of players
(`PlayersAssumption`; the barrier counts members). `HoldKeepsClockLit` needs `PlayingIsLit` (only the
moment between StartPlay's session update and Arm is excepted), `LeaversAreGone`
and `UnlightIsLast` (Disarm is reached when nobody is left). `NoFrameWhileLoading` needs
`BarrierHolds`: an owner that asked AllPlayersStarted in one section and numbers frames
in a later one may rely on the old answer, since members leave but nobody
comes back to loading.

**`MatchStreamProofs`** proves `TypeOK`, `WireOrder` and the action property `NoFarAheadLive`, for any
peers, ring, batches, number of packets and lost connections. The core of
`IInv` is `LocksAgree` (a lock is held in exactly the stages that claim it),
`NewComesLast` (packets that wait for the wire are behind all that is written and behind
what the holder of the wire has still to write: the hand-over of the two locks) and
`RejoinersWait` (a rejoiner has got nothing before its replay, and its old connections are
all that a copied recipient list can name). `SurvivorGetsAll` is proved for `~Early`, as the
run has it, from `SInv`: what a survivor has received, what is being written and what
waits for the wire are together all packets (`NothingSkipped`), and nobody moves the counter while
a survivor plays (`NobodyRewinds`).

**`RoomsProofs`** proves all four invariants of the run `Rooms`, for any sessions, rooms, heroes,
seats and number of packets. LeaveRoom, DestroyRoom, JoinRoom and the start let go of
room.mu between their sections, so `IInv` is mostly about what a handler may rely on in
between: where its session is (`IsWhere`), what a destroyer has done already (`DestroysRoom`), that a
session which names a room it is not in is about to be reset by somebody
(`NamesAreCovered`), that a room which can be joined is listed or about to be closed (`OpenIsListed`).
Empty, stranded and disagreeing rooms exclude each other only together: a room may be destroyed
because it is empty, and it stays empty because it is no longer listed.

**`FriendsProofs`** proves, for any accounts, any number of concurrent calls and any
limit, all four properties of the run `Friends`. Its `IInv` asks three things of
memory and of the file alike, since a restart turns the one into the other:
lists are mutual, requests settled, ids distinct and below the next one
(`Sound`). One lemma for each of Link, Unlink, Take and Put says that it keeps a
store sound; `SoundLater` carries soundness to a later next id, which is what a
restart and the clock need; `OneSection` does the saving for the actions that are
a single call.

**`IdentityProofs`** proves, for any players, devices, passwords and number of ids, the
three invariants of the run `Identity`. What a client was promised is about the
roster in memory, and a restart replaces that by the file; so `IInv` says that a
file which can be read has every account of the roster with its password (`Keeps`),
that both have distinct ids and the seed account (`Fine`), and that handles, logins
and data belong to accounts that exist (`Given`, `LoggedIn`, `Owned`). A registration that is undone
never touched the file or anybody's handle, which is where its id
may be given again. `HandlesApart` and `SameHandles` reduce handles to ids; `KeptFacts` says what
survives a roster that keeps another, and `NewAccount` that a registration makes
one.

**`ChatProofs`** proves both invariants of the run `Chat`, for any users, streams, posts, queues
and depths. `NothingLostNorDoubled` counts the places of a message; `IInv`
says the same with quantifiers (`InOnePlace`, `DueIsKept`), and what makes it true: a queue is one
user's (`OneOwner`), a queue that nobody has is empty (`NobodysAreEmpty`), a post
has a number of its own and one post at a time fans out (`PostsTakeTurns`), and what a post has
still to bring is nowhere yet (`NewIsNowhere`). The last lemma, `OnePlace`, turns the quantifiers into
the counts.

**`AccountProofs`** proves about both halves of an account. For **`Purse`**, all three properties of its run: `TypeOK`,
`TalentsShareTheBudget` and the action property `ExchangeIsWhole`, for any finite catalogue
(packs may contain one another in any way), any talents, prices and number of
connections. `PurseAssumption` says what the tables of the code satisfy: they
are finite, inscriptions are not currencies, packs are lists of things and positive
counts, and the sizes, prices and budgets that are configured are positive. `IInv`
is `TypeOK` with `TalentsShareTheBudget`: what is left of the budget is natural
only because the ranks were clamped. Here the proof is about data more than about
interleaving. A purchase adds sums over packs in packs (`ContentRows`: the
recursive function down to depth 4 exists, level by level), a migration
grants what an old record holds in a fold (`MigratedType`), clampTalentInfos gives each talent the smaller of
its wish and what those before it leave (`ClampedPrefix`), and a merge is whole because
the sum of how often each inscription is named is the number of names (`SumHits`,
`ExchangedSum`). Induction over an operator is out of the provers' reach, but
induction over a *set* of good subsets is first order: `SmallestSubset` takes it from
the well-foundedness of strict inclusion, and with it `FoldExists`, `FoldUnique`
and the lemmas on sums (`SumAdd`, `SumPlus`, `SumSame`, ...) speak of every finite set. The
module counts with `SumFunctionOnSet` for that reason: its argument is a function.

For **`Loft`**, `AccountProofs` proves all four properties of its run, `SlotsHoldOwnedCopies`,
`OnlyTheAddressedCopy`, `AscensionIsPaidOff` and `LoadingLosesNothing`, for any tablets, any finite
set of page slots, any unlock price and number of connections. `LoftAssumption` says that a page slot is a
pair of numbers and the price is positive. The inductive invariant `LoftInv` adds two facts
to the types. `Fits(inst, slots, next)` is `SlotsHoldOwnedCopies` as a predicate of any copies,
slots and counter, with one conjunct more: there are fewer copies than the counter says. That
follows from distinct UIDs below the counter, but as a conjunct no proof has to count for it, and it is
what bounds the counter when an older binary starts it again from the number of copies. The other fact is that a request to wear has a page slot.

- *The migration.* `Partial` is the set of states that it goes through: `Fits` of its copies
  and slots, and every id bound to one of the copies or to none. `BindSound` keeps it, and
  `MigrateSteps` carries it over the fold, by induction over the sets of slots that are done.
  So every legacy record becomes a loft, whichever ids are owned, doubled or missing on its pages.
- *The round trip through the mirror.* `Kept` is what a migration has made of a set of slots of a
  mirror: the copies are those of the mirror, a slot that is done has a copy of the id that it had, and the others
  are empty. The step (`BindKept`) is where the code could drop a tablet, when the copy that an id is
  bound to is on the page already and no other is free. `CopiesSuffice` excludes it by counting: copies
  of one id in different slots of a page are different copies, so there are at least as many as such slots, and
  the slots that are done are one fewer.
- *Crossing requests.* A request holds a UID, not a position. `Removed` and `Rewritten` say what
  a deletion and a flag make of the vector (`Spared`: the others keep their place or move down by one), and
  since UIDs are unique in `Fits`, at most the addressed copy changes.
- *The load.* `NormalizeIdle`: where `Fits` holds the normalisation drops nothing. After RestorePages it
  may drop slots, but `FirstSlotKept` finds the first slot of the page with the same copy, which stays.

Only model-checked: all liveness (`HoldResolves`, `GhostClockStops`, `StopTickerReturns`, `PacketsGetOut`,
`BacklogDrains`, and with the first the liveness part of `SeatsFollowLifecycle`), which
with ENABLED is out of the prover's reach. Every invariant and every action property of the passing
runs is a theorem.

## Not modelled

Byte layouts, encryption, presentation packets, HTTP routing and static answers,
socket options, profiling, commands that only read: sequential code without
state that the properties could relate. The pure tables of `domain/` are constants
of the models. The read-timeout frame pump, because the default
configuration has the dedicated ticker (FrameTicker true). The stall and grace
windows of IsMatchClockFrozen, because both are configured to 0. A second match
in one room (its ring and its ticker entry, see the hazards).

Of the accounts: ExpandTabletCapacity, UnlockSlot (0x4a), the choice of a page,
slot, flag or banner, and the nickname, each one assignment that no other section
reads. Age, gender, gateway and summoner spells are one action of `Identity`,
Mutate, which saves. A failed save is in `Identity` and `Friends` only: in `Loft` and
`Purse` it would return to a state that they have anyway. The client's reaction to an
answer, and chat in the lobby of the game server (`gs/chat.go`), which relays
and keeps nothing.

## Plan

1. A second match in one room, for the replay ring and the ticker entry; a seat
   hop that takes an exclusive hero into the other half.
2. `Loft` and `Purse` on one account, so that a deletion's sockets and an unlock's price meet.
