------------------------------- MODULE Rooms -------------------------------
(***************************************************************************)
(* Custom rooms before the match: who is seated where, who hosts, who may  *)
(* start (internal/session/session.go, with the lobby handler of e038,     *)
(* e03c and e02e in internal/lobby/lobby.go and the game-server handler of *)
(* seat hops, hero picks and Ready in internal/gs/handler.go).             *)
(*                                                                         *)
(* LeaveRoom, DestroyRoom, JoinRoom and the shared LoadMap drop room.mu    *)
(* between their sections; one action is one section.  Each session has    *)
(* two goroutines that run concurrently: its lobby connection (lobby[p])   *)
(* and its game connection (gs[p]).                                        *)
(*                                                                         *)
(* Members is a slice in the code; here it is a set, and the survivor that *)
(* LeaveRoom promotes is any of those it copied.  Skins, spells, tokens    *)
(* and options follow the hero or the room and are left out.               *)
(***************************************************************************)
EXTENDS Integers, FiniteSets

CONSTANTS
  Players,     \* sessions
  RoomIds,     \* ids that CreateRoom may hand out: a bound on created rooms
  None,        \* no room, no host, no hero
  Heroes,      \* heroes to pick
  Half,        \* seats in one team half: 5 in the code
  Asked,       \* seats a JoinRoom packet may ask for (one byte in the code)
  MaxSent      \* bound on packets

ASSUME NoneAssumption == None \notin Players \cup RoomIds \cup Heroes
ASSUME HalfAssumption == Half \in Nat \ {0}
ASSUME AskedAssumption == Asked \subseteq Nat
ASSUME MaxSentAssumption == MaxSent \in Nat

VARIABLES
  listed,      \* ids in the map rooms
  state,       \* state[r]: room.State, or "unborn"
  members,     \* members[r]: room.Members
  host,        \* host[r]: room.Host
  room,        \* room[p]: session.Room
  seat,        \* seat[p]: session.Seat
  hero,        \* hero[p]: session.SeatHeroID
  ready,       \* ready[p]: SeatReady, ReadyCancelled or neither
  loading,     \* sessions with MatchLoading set
  lobby,       \* lobby[p]: what p's lobby goroutine is about to do
  gs,          \* gs[p]: what p's game-server goroutine is about to do
  sent         \* packets served so far

roomVars == <<listed, state, members, host>>
sessVars == <<room, seat, hero, ready, loading>>
vars == <<listed, state, members, host, room, seat, hero, ready, loading,
          lobby, gs, sent>>

TeamSeats == 0..(2 * Half - 1)

\* sameTeamSeat
SameTeam(i, j) == (i < Half) = (j < Half)

\* The half a taken seat is replaced from, in ChangeSeat.
HalfOf(i) == IF i >= Half THEN Half..(2 * Half - 1) ELSE 0..(Half - 1)

LobbyStages == {"idle", "leave", "reset", "unlist", "close", "kick", "promote",
                "enter", "gone"}
After == {"idle", "create", "join", "gone"}
GSStages == {"idle", "count", "guests", "roster", "start", "load"}

\* What a call of LeaveRoom remembers: the room it leaves, the survivors it
\* copied (or the members DestroyRoom still has to reset), and what the
\* handler does next.
Call == [at : LobbyStages, from : RoomIds \cup {None}, rest : SUBSET Players,
         washost : BOOLEAN, then : After, to : RoomIds \cup {None},
         stays : BOOLEAN]

Start == [at : GSStages, of : RoomIds \cup {None}, roster : SUBSET Players]

TypeOK ==
  /\ listed \subseteq RoomIds
  /\ state \in [RoomIds -> {"unborn", "open", "match", "closed"}]
  /\ members \in [RoomIds -> SUBSET Players]
  /\ host \in [RoomIds -> Players \cup {None}]
  /\ room \in [Players -> RoomIds \cup {None}]
  /\ seat \in [Players -> Asked \cup TeamSeats]
  /\ hero \in [Players -> Heroes \cup {None}]
  /\ ready \in [Players -> {"no", "ready", "cancelled"}]
  /\ loading \subseteq Players
  /\ lobby \in [Players -> Call]
  /\ gs \in [Players -> Start]
  /\ sent \in 0..MaxSent

Idle == [at |-> "idle", from |-> None, rest |-> {}, washost |-> FALSE,
         then |-> "idle", to |-> None, stays |-> FALSE]

Free == [at |-> "idle", of |-> None, roster |-> {}]

Least(S, i) == i \in S /\ \A j \in S : i <= j

\* Seats of the other members of r.
Taken(r, p) == {seat[q] : q \in members[r] \ {p}}

-----------------------------------------------------------------------------
(* LeaveRoom and DestroyRoom.                                              *)

\* Where a handler goes once LeaveRoom has returned.
Returned(c) ==
  CASE c.then \in {"create", "join"} ->
         [Idle EXCEPT !.at = "enter", !.then = c.then, !.to = c.to, !.stays = c.stays]
    [] c.then = "gone" -> [Idle EXCEPT !.at = "gone"]
    [] c.then = "idle" -> Idle

\* LeaveRoom reads s.Room; without one it is done.  c says what follows.
Leave(p, c) ==
  lobby' = [lobby EXCEPT ![p] =
    IF room[p] = None THEN Returned(c) ELSE [c EXCEPT !.at = "leave", !.from = room[p]]]

\* Under room.mu: out of Members, and a copy of the survivors.
RemoveMember(p) ==
  LET r == lobby[p].from IN
  /\ lobby[p].at = "leave"
  /\ members' = [members EXCEPT ![r] = @ \ {p}]
  /\ lobby' = [lobby EXCEPT ![p] =
       [@ EXCEPT !.at = "reset", !.rest = members[r] \ {p},
                 !.washost = (host[r] = p)]]
  /\ UNCHANGED <<listed, state, host, sessVars, gs, sent>>

\* resetRoomStateLocked on the sessions of S.
ResetRoomState(S) ==
  /\ room' = [p \in Players |-> IF p \in S THEN None ELSE room[p]]
  /\ seat' = [p \in Players |-> IF p \in S THEN 0 ELSE seat[p]]
  /\ hero' = [p \in Players |-> IF p \in S THEN None ELSE hero[p]]
  /\ ready' = [p \in Players |-> IF p \in S THEN "no" ELSE ready[p]]
  /\ loading' = loading \ S

\* Under s.mu: the session forgets the room; then the room is destroyed when
\* it was empty, or gets another host.
ResetLeaver(p) ==
  LET c == lobby[p] IN
  /\ c.at = "reset"
  /\ ResetRoomState(IF room[p] = c.from THEN {p} ELSE {})
  /\ lobby' = [lobby EXCEPT ![p] =
       CASE c.rest = {}               -> [c EXCEPT !.at = "unlist", !.washost = FALSE]
         [] c.rest # {} /\ c.washost  -> [c EXCEPT !.at = "promote"]
         [] c.rest # {} /\ ~c.washost -> Returned(c)]
  /\ UNCHANGED <<roomVars, gs, sent>>

\* room.Host = survivors[0].
Promote(p) ==
  LET c == lobby[p] IN
  /\ c.at = "promote"
  /\ \E q \in c.rest : host' = [host EXCEPT ![c.from] = q]
  /\ lobby' = [lobby EXCEPT ![p] = Returned(lobby[p])]
  /\ UNCHANGED <<listed, state, members, sessVars, gs, sent>>

\* Mutant: an emptied room stays in the map.
KeepListed(p) ==
  /\ lobby[p].at = "unlist"
  /\ lobby' = [lobby EXCEPT ![p].at = "close"]
  /\ UNCHANGED <<listed, state, members, host, sessVars, gs, sent>>

\* DestroyRoom under roomMu.
Unlist(p) ==
  /\ lobby[p].at = "unlist"
  /\ listed' = listed \ {lobby[p].from}
  /\ lobby' = [lobby EXCEPT ![p].at = "close"]
  /\ UNCHANGED <<state, members, host, sessVars, gs, sent>>

\* Mutant: whoever came in meanwhile is dropped from Members but not reset.
CloseBlind(p) ==
  LET r == lobby[p].from IN
  /\ lobby[p].at = "close"
  /\ members' = [members EXCEPT ![r] = {}]
  /\ state' = [state EXCEPT ![r] = "closed"]
  /\ lobby' = [lobby EXCEPT ![p] = Returned(lobby[p])]
  /\ UNCHANGED <<listed, host, sessVars, gs, sent>>

\* Mutant: the destroyed room still looks open.
CloseStillOpen(p) ==
  LET r == lobby[p].from IN
  /\ lobby[p].at = "close"
  /\ members' = [members EXCEPT ![r] = {}]
  /\ lobby' = [lobby EXCEPT ![p] = [@ EXCEPT !.at = "kick", !.rest = members[r]]]
  /\ UNCHANGED <<listed, state, host, sessVars, gs, sent>>

\* DestroyRoom under room.mu: whoever is in Members now is to be reset.
Close(p) ==
  LET r == lobby[p].from IN
  /\ lobby[p].at = "close"
  /\ members' = [members EXCEPT ![r] = {}]
  /\ state' = [state EXCEPT ![r] = "closed"]
  /\ lobby' = [lobby EXCEPT ![p] = [@ EXCEPT !.at = "kick", !.rest = members[r]]]
  /\ UNCHANGED <<listed, host, sessVars, gs, sent>>

\* One of them under its s.mu, unless it is in another room by now.
Kick(p) ==
  LET c == lobby[p] IN
  /\ c.at = "kick"
  /\ \/ /\ c.rest = {}
        /\ lobby' = [lobby EXCEPT ![p] = Returned(lobby[p])]
        /\ UNCHANGED sessVars
     \/ \E q \in c.rest :
          /\ ResetRoomState(IF room[q] = c.from THEN {q} ELSE {})
          /\ lobby' = [lobby EXCEPT ![p].rest = @ \ {q}]
  /\ UNCHANGED <<roomVars, gs, sent>>

-----------------------------------------------------------------------------
(* The lobby's packets.                                                    *)

Packet == sent < MaxSent /\ sent' = sent + 1

\* p's lobby handler is free to serve one more packet.
LobbyPacket(p) == lobby[p].at = "idle" /\ Packet

\* e038: CreateRoom leaves the old room first.
CreateRoom(p) ==
  /\ LobbyPacket(p)
  /\ Leave(p, [Idle EXCEPT !.then = "create"])
  /\ UNCHANGED <<roomVars, sessVars, gs>>

\* e03c: JoinRoom looks at the state, and leaves any other room.  Nothing
\* keeps the room open until it comes back to it in EnterRoom.
JoinRoom(p, r) ==
  /\ LobbyPacket(p)
  /\ r \in listed /\ state[r] = "open"
  /\ IF room[p] = r
       THEN lobby' = [lobby EXCEPT ![p] =
              [Idle EXCEPT !.at = "enter", !.then = "join", !.to = r, !.stays = TRUE]]
       ELSE Leave(p, [Idle EXCEPT !.then = "join", !.to = r])
  /\ UNCHANGED <<roomVars, sessVars, gs>>

\* e02e.
QuitRoom(p) ==
  /\ LobbyPacket(p)
  /\ room[p] # None
  /\ Leave(p, Idle)
  /\ UNCHANGED <<roomVars, sessVars, gs>>

\* session.Destroy: a session that is loading, or in a room that plays, keeps
\* its seat, and its lobby handler is gone; any other one leaves.
LobbyEOF(p) ==
  /\ LobbyPacket(p)
  /\ IF p \in loading \/ (room[p] # None /\ state[room[p]] = "match")
       THEN lobby' = [lobby EXCEPT ![p] = [Idle EXCEPT !.at = "gone"]]
       ELSE Leave(p, [Idle EXCEPT !.then = "gone"])
  /\ UNCHANGED <<roomVars, sessVars, gs>>

\* CreateRoom under roomMu: a new room with its host in seat 0.
OpenRoom(p) ==
  /\ lobby[p].at = "enter" /\ lobby[p].then = "create"
  /\ \E r \in RoomIds :
       /\ state[r] = "unborn"
       /\ listed' = listed \cup {r}
       /\ state' = [state EXCEPT ![r] = "open"]
       /\ members' = [members EXCEPT ![r] = {p}]
       /\ host' = [host EXCEPT ![r] = p]
       /\ room' = [room EXCEPT ![p] = r]
  /\ seat' = [seat EXCEPT ![p] = 0]
  /\ hero' = [hero EXCEPT ![p] = None]
  /\ ready' = [ready EXCEPT ![p] = "no"]
  /\ lobby' = [lobby EXCEPT ![p] = Idle]
  /\ UNCHANGED <<loading, gs, sent>>

\* The requested seat, or the lowest free one when somebody else has it.
JoinSeat(r, p, want, got) ==
  \/ want \notin Taken(r, p) /\ got = want
  \/ want \in Taken(r, p) /\ Least(TeamSeats \ Taken(r, p), got)

\* JoinRoom under room.mu: refused when closed, in a match or full.
EnterRoom(p) ==
  LET c == lobby[p]
      r == c.to
  IN
  /\ c.at = "enter" /\ c.then = "join"
  /\ \/ /\ state[r] = "open"
        /\ \E want \in Asked, got \in Asked \cup TeamSeats :
             /\ JoinSeat(r, p, want, got)
             /\ seat' = [seat EXCEPT ![p] = got]
        /\ members' = [members EXCEPT ![r] = @ \cup {p}]
        /\ room' = [room EXCEPT ![p] = r]
        /\ hero' = [hero EXCEPT ![p] = IF c.stays THEN @ ELSE None]
        /\ ready' = [ready EXCEPT ![p] = "no"]
     \/ /\ state[r] # "open" \/ (Asked \cap Taken(r, p) # {} /\ TeamSeats \subseteq Taken(r, p))
        /\ UNCHANGED <<members, room, seat, hero, ready>>
  /\ lobby' = [lobby EXCEPT ![p] = Idle]
  /\ UNCHANGED <<listed, state, host, loading, gs, sent>>

-----------------------------------------------------------------------------
(* The game server's packets.                                              *)

\* p's game-server handler is free to serve one more packet.
GamePacket(p) == gs[p].at = "idle" /\ Packet

\* The requested seat, or the lowest free one of its half.
HopSeat(r, p, want, got) ==
  \/ want \notin Taken(r, p) /\ got = want
  \/ want \in Taken(r, p) /\ Least(HalfOf(want) \ Taken(r, p), got)

\* op9/0x1006.
ChangeSeat(p) ==
  /\ GamePacket(p)
  /\ \E want, got \in TeamSeats :
       /\ IF room[p] = None
            THEN got = want
            ELSE p \in members[room[p]] /\ HopSeat(room[p], p, want, got)
       /\ seat' = [seat EXCEPT ![p] = got]
  /\ UNCHANGED <<roomVars, room, hero, ready, loading, lobby, gs>>

\* No other member in the same half has hero h.
HeroFree(p, h) ==
  room[p] # None =>
    /\ p \in members[room[p]]
    /\ \A q \in members[room[p]] \ {p} :
         hero[q] = h => ~SameTeam(seat[p], seat[q])

\* op9/0x1008.
ClaimSeatHero(p, h) ==
  /\ GamePacket(p)
  /\ HeroFree(p, h)
  /\ hero' = [hero EXCEPT ![p] = h]
  /\ UNCHANGED <<roomVars, room, seat, ready, loading, lobby, gs>>

\* op9/0x100C with READY=0 or READY=1.
ApplyReadyFromSkill(p) ==
  /\ GamePacket(p)
  /\ \E r \in {"cancelled", IF hero[p] # None THEN "ready"
                            ELSE IF ready[p] = "cancelled" THEN "cancelled" ELSE "no"} :
       ready' = [ready EXCEPT ![p] = r]
  /\ UNCHANGED <<roomVars, room, seat, hero, loading, lobby, gs>>

\* op9/0x2001, AcceptReadyStart: not without a hero or after a READY=0.  The
\* handler goes on with the room it finds now, if there is one.
AcceptReadyStart(p) ==
  /\ GamePacket(p)
  /\ hero[p] # None /\ ready[p] # "cancelled"
  /\ ready' = [ready EXCEPT ![p] = "ready"]
  /\ gs' = IF room[p] = None THEN gs
            ELSE [gs EXCEPT ![p] = [Free EXCEPT !.at = "count", !.of = room[p]]]
  /\ UNCHANGED <<roomVars, room, seat, hero, loading, lobby>>

Goes(p, to) == gs' = [gs EXCEPT ![p].at = to]
Stops(p) == gs' = [gs EXCEPT ![p] = Free]

\* MemberCount: a lone player starts, among several only the host goes on.
CountMembers(p) ==
  LET r == gs[p].of IN
  /\ gs[p].at = "count"
  /\ IF Cardinality(members[r]) >= 2
       THEN IF host[r] = p THEN Goes(p, "guests") ELSE Stops(p)
       ELSE gs' = [gs EXCEPT ![p] = [@ EXCEPT !.at = "start", !.roster = {}]]
  /\ UNCHANGED <<roomVars, sessVars, lobby, sent>>

\* GuestsReady under room.mu.
GuestsReady(p) ==
  LET r == gs[p].of IN
  /\ gs[p].at = "guests"
  /\ IF \A q \in members[r] \ {host[r]} : ready[q] = "ready"
       THEN Goes(p, "roster") ELSE Stops(p)
  /\ UNCHANGED <<roomVars, sessVars, lobby, sent>>

\* broadcastSharedLoadMap: a copy of the members, each of which has a hero.
TakeRoster(p) ==
  LET now == members[gs[p].of] IN
  /\ gs[p].at = "roster"
  /\ IF \A q \in now : hero[q] # None
       THEN gs' = [gs EXCEPT ![p] = [@ EXCEPT !.at = "start", !.roster = now]]
       ELSE Stops(p)
  /\ UNCHANGED <<roomVars, sessVars, lobby, sent>>

\* Mutant: the room waits for the load screens in a state of its own.
StartSlowly(p) ==
  /\ gs[p].at = "start"
  /\ state' = [state EXCEPT ![gs[p].of] = "starting"]
  /\ Goes(p, "load")
  /\ UNCHANGED <<listed, members, host, sessVars, lobby, sent>>

\* Under room.mu, whatever became of the room since.
StartMatch(p) ==
  /\ gs[p].at = "start"
  /\ state' = [state EXCEPT ![gs[p].of] = "match"]
  /\ Goes(p, "load")
  /\ UNCHANGED <<listed, members, host, sessVars, lobby, sent>>

\* SetMatchLoading(true) on the copied members, each under its s.mu.
SetMatchLoading(p) ==
  /\ gs[p].at = "load"
  /\ \/ /\ gs[p].roster = {}
        /\ Stops(p)
        /\ UNCHANGED loading
     \/ \E q \in gs[p].roster :
          /\ loading' = loading \cup {q}
          /\ gs' = [gs EXCEPT ![p].roster = @ \ {q}]
  /\ UNCHANGED <<roomVars, room, seat, hero, ready, lobby, sent>>

-----------------------------------------------------------------------------
Init ==
  /\ listed = {}
  /\ state = [r \in RoomIds |-> "unborn"]
  /\ members = [r \in RoomIds |-> {}]
  /\ host = [r \in RoomIds |-> None]
  /\ room = [p \in Players |-> None]
  /\ seat = [p \in Players |-> 0]
  /\ hero = [p \in Players |-> None]
  /\ ready = [p \in Players |-> "no"]
  /\ loading = {}
  /\ lobby = [p \in Players |-> Idle]
  /\ gs = [p \in Players |-> Free]
  /\ sent = 0

\* The rest of a lobby call that has begun.
Leaving(p) ==
  RemoveMember(p) \/ ResetLeaver(p) \/ Promote(p) \/ Unlist(p) \/ Close(p) \/ Kick(p)
Asking(p) ==
  \/ CreateRoom(p) \/ QuitRoom(p) \/ LobbyEOF(p)
  \/ \E r \in RoomIds : JoinRoom(p, r)
Seating(p) ==
  ChangeSeat(p) \/ ApplyReadyFromSkill(p) \/ \E h \in Heroes : ClaimSeatHero(p, h)
Starting(p) ==
  \/ AcceptReadyStart(p) \/ CountMembers(p) \/ GuestsReady(p)
  \/ TakeRoster(p) \/ StartMatch(p) \/ SetMatchLoading(p)

Next == \E p \in Players :
  Leaving(p) \/ Asking(p) \/ OpenRoom(p) \/ EnterRoom(p) \/ Seating(p) \/ Starting(p)

Spec == Init /\ [][Next]_vars

-----------------------------------------------------------------------------
\* Seats and membership agree, whatever joins, hops, leaves and teardowns are
\* under way.  Two members of a room never share a seat (LoadMap sends one
\* PlayerInfo per seat); a member's session names the room; and a session that
\* names a room is a member of it, unless somebody who has begun to take it out
\* will still reset it.
MembershipAgrees ==
  /\ \A r \in RoomIds : \A p, q \in members[r] : seat[p] = seat[q] => p = q
  /\ \A p \in Players, r \in RoomIds :
       /\ p \in members[r] => room[p] = r
       /\ room[p] = r /\ p \notin members[r] =>
            \/ lobby[p].at = "reset" /\ lobby[p].from = r
            \/ \E q \in Players :
                 lobby[q].at = "kick" /\ lobby[q].from = r /\ p \in lobby[q].rest

\* Nobody is stranded in a room that is gone: whoever slipped into a room that
\* was being destroyed, between JoinRoom's first look and its second one, is
\* put out again by the DestroyRoom that is still under way.
NobodyIsStranded ==
  \A r \in RoomIds \ listed : members[r] # {} =>
    \E p \in Players : lobby[p].at = "close" /\ lobby[p].from = r

\* An empty room is not advertised for ever: whoever saw it empty is still on
\* the way to DestroyRoom.
EmptyRoomsGo ==
  \A r \in listed : members[r] = {} =>
    \E p \in Players : /\ lobby[p].from = r /\ lobby[p].rest = {}
                       /\ lobby[p].at \in {"reset", "unlist"}

-----------------------------------------------------------------------------
(* What the comments promise and the code does not keep.                   *)

\* "Host leave with survivors (seat lobby or in-match) promotes": once nobody
\* is on the way out, a room with members has a host among them.
HostIsMember ==
  \A r \in RoomIds :
    r \in listed /\ members[r] # {} /\ (\A p \in Players : lobby[p].from # r)
      => host[r] \in members[r]
=============================================================================
