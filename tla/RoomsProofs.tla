---------------------------- MODULE RoomsProofs ----------------------------
(***************************************************************************)
(* Proofs about Rooms, for any sessions, rooms, heroes, seats and number   *)
(* of packets: seats and membership agree, nobody is stranded in a room    *)
(* that is gone, and an empty room goes.  The three hang together by what  *)
(* every lobby handler knows between two sections of LeaveRoom, JoinRoom   *)
(* and DestroyRoom, although it holds no lock there.                       *)
(***************************************************************************)
EXTENDS Rooms, TLAPS

\* Two members of a room have different seats.
SeatsApart ==
  \A r \in RoomIds : \A p, q \in members[r] : seat[p] = seat[q] => p = q

\* A member's session names the room.
MembersKnow == \A p \in Players, r \in RoomIds : p \in members[r] => room[p] = r

\* Somebody is going to reset the session of p, which still names r.
WillReset(p, r) ==
  \/ lobby[p].at = "reset" /\ lobby[p].from = r
  \/ \E q \in Players :
       lobby[q].at = "kick" /\ lobby[q].from = r /\ p \in lobby[q].rest

NamesAreCovered ==
  \A p \in Players, r \in RoomIds :
    room[p] = r /\ p \notin members[r] => WillReset(p, r)

\* What the lobby handler of p relies on between two sections.
KnowsRooms(p) ==
  /\ lobby[p].at \notin {"idle", "enter", "gone"} => lobby[p].from \in RoomIds
  /\ lobby[p].at = "enter" => lobby[p].then \in {"create", "join"}
  /\ lobby[p].then = "join" => lobby[p].to \in RoomIds
  /\ lobby[p].from # None => state[lobby[p].from] # "unborn"
  /\ lobby[p].to # None => state[lobby[p].to] # "unborn"

IsWhere(p) ==
  /\ lobby[p].at \in {"leave", "reset"} => room[p] \in {None, lobby[p].from}
  /\ lobby[p].at = "reset" => p \notin members[lobby[p].from]
  /\ lobby[p].at \in {"unlist", "close", "kick", "promote"} => room[p] = None
  /\ lobby[p].at = "enter" => room[p] = None \/ (lobby[p].then = "join" /\ room[p] = lobby[p].to)

DestroysRoom(p) ==
  /\ lobby[p].at \in {"close", "kick"} => lobby[p].from \notin listed
  /\ lobby[p].at = "kick" => /\ members[lobby[p].from] = {}
                             /\ state[lobby[p].from] \in {"closed", "match"}

LobbyKnows == \A p \in Players : KnowsRooms(p) /\ IsWhere(p) /\ DestroysRoom(p)

\* A game handler is about a room that was created.
GameKnows ==
  \A p \in Players : gs[p].at # "idle" => gs[p].of \in RoomIds /\ state[gs[p].of] # "unborn"

\* Nothing is known of a room that was not created.
UnbornIsUnknown ==
  \A r \in RoomIds : state[r] = "unborn" =>
    members[r] = {} /\ r \notin listed /\ \A p \in Players : room[p] # r

\* A room that can be joined is listed, or about to be closed.
OpenIsListed ==
  \A r \in RoomIds : state[r] = "open" /\ r \notin listed =>
    \E p \in Players : lobby[p].at = "close" /\ lobby[p].from = r

\* The inductive invariant.
IInv ==
  /\ TypeOK
  /\ SeatsApart /\ MembersKnow /\ NamesAreCovered
  /\ LobbyKnows /\ GameKnows
  /\ UnbornIsUnknown /\ OpenIsListed
  /\ NobodyIsStranded /\ EmptyRoomsGo

-----------------------------------------------------------------------------
(* Calls.                                                                  *)

LEMMA IdleIsCall == Idle \in Call /\ Free \in Start
  BY DEF Idle, Call, LobbyStages, After, Free, Start, GSStages

\* What a handler goes on with after LeaveRoom: nothing is left to do in the
\* room it left.
LEMMA ReturnedFacts ==
  ASSUME NEW c \in Call
  PROVE  /\ Returned(c) \in Call
         /\ Returned(c).at \in {"idle", "enter", "gone"}
         /\ Returned(c).from = None
         /\ Returned(c).to \in {None, c.to}
         /\ Returned(c).at = "enter" => Returned(c).then \in {"create", "join"}
         /\ Returned(c).then = "join" => Returned(c).to = c.to /\ c.then = "join"
         /\ Returned(c).stays => c.stays
<1>1. CASE c.then \in {"create", "join"}
  BY <1>1 DEF Returned, Idle, Call, LobbyStages, After
<1>2. CASE c.then = "gone"
  BY <1>2 DEF Returned, Idle, Call, LobbyStages, After
<1>3. CASE c.then \notin {"create", "join", "gone"}
  BY <1>3 DEF Returned, Idle, Call, LobbyStages, After
<1> QED
  BY <1>1, <1>2, <1>3

-----------------------------------------------------------------------------
(* Types.                                                                  *)

LEMMA LeaveType ==
  ASSUME TypeOK, NEW p \in Players, NEW c \in Call, Leave(p, c)
  PROVE  lobby' \in [Players -> Call]
<1>1. Returned(c) \in Call
  BY ReturnedFacts
<1>2. [c EXCEPT !.at = "leave", !.from = room[p]] \in Call
  BY DEF Call, LobbyStages, TypeOK
<1> QED
  BY <1>1, <1>2 DEF Leave, TypeOK

LEMMA FirstSeat == 0 \in TeamSeats
  BY HalfAssumption DEF TeamSeats

LEMMA ResetType ==
  ASSUME TypeOK, NEW S, ResetRoomState(S)
  PROVE  /\ room' \in [Players -> RoomIds \cup {None}]
         /\ seat' \in [Players -> Asked \cup TeamSeats]
         /\ hero' \in [Players -> Heroes \cup {None}]
         /\ ready' \in [Players -> {"no", "ready", "cancelled"}]
         /\ loading' \subseteq Players
  BY FirstSeat DEF TypeOK, ResetRoomState

LEMMA LeavingType ==
  ASSUME IInv, NEW p \in Players, Leaving(p)
  PROVE  TypeOK'
<1> DEFINE c == lobby[p]
<1>0. /\ c \in Call /\ Returned(c) \in Call
      /\ c.at \notin {"idle", "enter", "gone"} => c.from \in RoomIds
  BY ReturnedFacts DEF IInv, TypeOK, LobbyKnows, KnowsRooms
<1> USE DEF IInv, TypeOK
<1>1. CASE RemoveMember(p)
  BY <1>0, <1>1 DEF RemoveMember, Call, LobbyStages, sessVars
<1>2. CASE ResetLeaver(p)
  <2>1. lobby' \in [Players -> Call]
    <3>1. CASE c.rest = {}
      BY <1>0, <1>2, <3>1 DEF ResetLeaver, Call, LobbyStages
    <3>2. CASE c.rest # {} /\ c.washost
      BY <1>0, <1>2, <3>2 DEF ResetLeaver, Call, LobbyStages
    <3>3. CASE c.rest # {} /\ ~c.washost
      BY <1>0, <1>2, <3>3 DEF ResetLeaver
    <3> QED
      BY <1>0, <3>1, <3>2, <3>3 DEF Call
  <2> QED
    BY <1>2, <2>1, ResetType DEF ResetLeaver, roomVars, TeamSeats
<1>3. CASE Promote(p)
  BY <1>0, <1>3 DEF Promote, Call, sessVars
<1>4. CASE Unlist(p)
  BY <1>0, <1>4 DEF Unlist, Call, LobbyStages, sessVars
<1>5. CASE Close(p)
  BY <1>0, <1>5 DEF Close, Call, LobbyStages, sessVars
<1>6. CASE Kick(p)
  <2>1. CASE UNCHANGED sessVars /\ lobby' = [lobby EXCEPT ![p] = Returned(c)]
    BY <1>0, <1>6, <2>1 DEF Kick, roomVars, sessVars
  <2>2. ASSUME NEW q \in c.rest,
               ResetRoomState(IF room[q] = c.from THEN {q} ELSE {}),
               lobby' = [lobby EXCEPT ![p].rest = @ \ {q}]
        PROVE  TypeOK'
    <3>1. lobby' \in [Players -> Call]
      BY <1>0, <2>2 DEF Call
    <3>2. UNCHANGED <<roomVars, gs, sent>>
      BY <1>6 DEF Kick
    <3> QED
      BY <2>2, <3>1, <3>2, ResetType DEF roomVars
  <2> QED
    BY <1>6, <2>1, <2>2 DEF Kick
<1> QED
  BY <1>1, <1>2, <1>3, <1>4, <1>5, <1>6 DEF Leaving

LEMMA PacketType == TypeOK /\ Packet => sent' \in 0 .. MaxSent
  BY MaxSentAssumption DEF TypeOK, Packet

LEMMA AskingType ==
  ASSUME IInv, NEW p \in Players, Asking(p)
  PROVE  TypeOK'
<1> USE IdleIsCall, PacketType DEF IInv
<1>1. CASE CreateRoom(p)
  <2>1. [Idle EXCEPT !.then = "create"] \in Call
    BY DEF Idle, Call, LobbyStages, After
  <2>2. lobby' \in [Players -> Call]
    BY <1>1, <2>1, LeaveType DEF CreateRoom
  <2> QED
    BY <1>1, <2>2 DEF CreateRoom, LobbyPacket, TypeOK, roomVars, sessVars
<1>2. CASE QuitRoom(p)
  <2>1. lobby' \in [Players -> Call]
    BY <1>2, LeaveType DEF QuitRoom
  <2> QED
    BY <1>2, <2>1 DEF QuitRoom, LobbyPacket, TypeOK, roomVars, sessVars
<1>3. CASE LobbyEOF(p)
  <2>1. /\ [Idle EXCEPT !.then = "gone"] \in Call
        /\ [Idle EXCEPT !.at = "gone"] \in Call
    BY DEF Idle, Call, LobbyStages, After
  <2>2. lobby' \in [Players -> Call]
    BY <1>3, <2>1, LeaveType DEF LobbyEOF, TypeOK
  <2> QED
    BY <1>3, <2>2 DEF LobbyEOF, LobbyPacket, TypeOK, roomVars, sessVars
<1>4. ASSUME NEW r \in RoomIds, JoinRoom(p, r)
      PROVE  TypeOK'
  <2>1. /\ [Idle EXCEPT !.then = "join", !.to = r] \in Call
        /\ [Idle EXCEPT !.at = "enter", !.then = "join", !.to = r, !.stays = TRUE] \in Call
    BY DEF Idle, Call, LobbyStages, After
  <2>2. lobby' \in [Players -> Call]
    BY <1>4, <2>1, LeaveType DEF JoinRoom, TypeOK
  <2> QED
    BY <1>4, <2>2 DEF JoinRoom, LobbyPacket, TypeOK, roomVars, sessVars
<1> QED
  BY <1>1, <1>2, <1>3, <1>4 DEF Asking

LEMMA EnteringType ==
  ASSUME IInv, NEW p \in Players, OpenRoom(p) \/ EnterRoom(p)
  PROVE  TypeOK'
<1>1. lobby' \in [Players -> Call]
  BY IdleIsCall DEF IInv, TypeOK, OpenRoom, EnterRoom
<1>2. CASE OpenRoom(p)
  BY <1>1, <1>2, FirstSeat DEF IInv, TypeOK, OpenRoom
<1>3. CASE EnterRoom(p)
  <2>1. lobby[p].to \in RoomIds
    BY <1>3 DEF IInv, LobbyKnows, KnowsRooms, EnterRoom
  <2>2. seat' \in [Players -> Asked \cup TeamSeats]
    <3>1. \/ seat' = seat
          \/ \E got \in Asked \cup TeamSeats : seat' = [seat EXCEPT ![p] = got]
      BY <1>3 DEF EnterRoom
    <3> QED
      BY <3>1 DEF IInv, TypeOK
  <2>3. \/ UNCHANGED <<members, room, hero, ready>>
        \/ /\ members' = [members EXCEPT ![lobby[p].to] = @ \cup {p}]
           /\ room' = [room EXCEPT ![p] = lobby[p].to]
           /\ \E h \in {hero[p], None} : hero' = [hero EXCEPT ![p] = h]
           /\ ready' = [ready EXCEPT ![p] = "no"]
    BY <1>3 DEF EnterRoom
  <2>4. UNCHANGED <<listed, state, host, loading, gs, sent>>
    BY <1>3 DEF EnterRoom
  <2> QED
    BY <1>1, <2>1, <2>2, <2>3, <2>4 DEF IInv, TypeOK
<1> QED
  BY <1>2, <1>3

LEMMA SeatingType ==
  ASSUME IInv, NEW p \in Players, Seating(p)
  PROVE  TypeOK'
<1> USE PacketType DEF IInv, TypeOK, GamePacket, roomVars
<1>1. CASE ChangeSeat(p)
  <2>1. \E got \in TeamSeats : seat' = [seat EXCEPT ![p] = got]
    BY <1>1 DEF ChangeSeat
  <2> QED
    BY <1>1, <2>1 DEF ChangeSeat
<1>2. CASE ApplyReadyFromSkill(p)
  <2>1. \E r \in {"no", "ready", "cancelled"} : ready' = [ready EXCEPT ![p] = r]
    BY <1>2 DEF ApplyReadyFromSkill
  <2> QED
    BY <1>2, <2>1 DEF ApplyReadyFromSkill
<1>3. ASSUME NEW h \in Heroes, ClaimSeatHero(p, h)
      PROVE  TypeOK'
  BY <1>3 DEF ClaimSeatHero
<1> QED
  BY <1>1, <1>2, <1>3 DEF Seating

LEMMA StartType ==
  ASSUME IInv, NEW p \in Players, Starting(p)
  PROVE  gs' \in [Players -> Start]
<1>0. /\ gs \in [Players -> Start] /\ Free \in Start
      /\ gs[p].at # "idle" => members[gs[p].of] \in SUBSET Players
  BY IdleIsCall DEF IInv, TypeOK, GameKnows
<1>1. CASE AcceptReadyStart(p)
  <2>1. room[p] # None => [Free EXCEPT !.at = "count", !.of = room[p]] \in Start
    BY DEF IInv, TypeOK, Free, Start, GSStages
  <2> QED
    BY <1>0, <1>1, <2>1 DEF AcceptReadyStart
<1>2. CASE CountMembers(p)
  <2>1. \/ gs' = [gs EXCEPT ![p] = [gs[p] EXCEPT !.at = "guests"]]
        \/ gs' = [gs EXCEPT ![p] = Free]
        \/ gs' = [gs EXCEPT ![p] = [gs[p] EXCEPT !.at = "start", !.roster = {}]]
    BY <1>2 DEF CountMembers, Goes, Stops
  <2>2. /\ [gs[p] EXCEPT !.at = "guests"] \in Start
        /\ [gs[p] EXCEPT !.at = "start", !.roster = {}] \in Start
    BY <1>0 DEF Start, GSStages
  <2> QED
    BY <1>0, <2>1, <2>2
<1>3. CASE GuestsReady(p)
  BY <1>0, <1>3 DEF GuestsReady, Goes, Stops, Start, GSStages
<1>4. CASE TakeRoster(p)
  <2>1. \/ gs' = [gs EXCEPT ![p] = [gs[p] EXCEPT !.at = "start", !.roster = members[gs[p].of]]]
        \/ gs' = [gs EXCEPT ![p] = Free]
    BY <1>4 DEF TakeRoster, Stops
  <2>2. [gs[p] EXCEPT !.at = "start", !.roster = members[gs[p].of]] \in Start
    BY <1>0, <1>4 DEF TakeRoster, Start, GSStages
  <2> QED
    BY <1>0, <2>1, <2>2
<1>5. CASE StartMatch(p)
  BY <1>0, <1>5 DEF StartMatch, Goes, Start, GSStages
<1>6. CASE SetMatchLoading(p)
  <2>1. \/ gs' = [gs EXCEPT ![p] = Free]
        \/ \E q \in gs[p].roster : gs' = [gs EXCEPT ![p].roster = @ \ {q}]
    BY <1>6 DEF SetMatchLoading, Stops
  <2> QED
    BY <1>0, <2>1 DEF Start
<1> QED
  BY <1>1, <1>2, <1>3, <1>4, <1>5, <1>6 DEF Starting

LEMMA StartingType ==
  ASSUME IInv, NEW p \in Players, Starting(p)
  PROVE  TypeOK'
<1> USE StartType DEF IInv, TypeOK, roomVars, sessVars
<1>1. CASE AcceptReadyStart(p)
  BY <1>1, PacketType DEF AcceptReadyStart, GamePacket
<1>2. CASE CountMembers(p)
  BY <1>2 DEF CountMembers
<1>3. CASE GuestsReady(p)
  BY <1>3 DEF GuestsReady
<1>4. CASE TakeRoster(p)
  BY <1>4 DEF TakeRoster
<1>5. CASE StartMatch(p)
  BY <1>5 DEF StartMatch, GameKnows
<1>6. CASE SetMatchLoading(p)
  <2>1. \/ loading' = loading
        \/ \E q \in gs[p].roster : loading' = loading \cup {q}
    BY <1>6 DEF SetMatchLoading
  <2>2. gs[p].roster \subseteq Players
    BY DEF Start
  <2> QED
    BY <1>6, <2>1, <2>2 DEF SetMatchLoading
<1> QED
  BY <1>1, <1>2, <1>3, <1>4, <1>5, <1>6 DEF Starting

-----------------------------------------------------------------------------
(* LeaveRoom and DestroyRoom.                                              *)

Knows(p) == KnowsRooms(p) /\ IsWhere(p) /\ DestroysRoom(p)

\* A step of p's handler takes nothing from what the others know, as long as it
\* puts nobody else anywhere, and brings no room back that was closed.
LEMMA OthersKnow ==
  ASSUME IInv, NEW p \in Players,
         \A q \in Players \ {p} : lobby'[q] = lobby[q] /\ room'[q] \in {room[q], None},
         \A x \in RoomIds :
           /\ members'[x] \subseteq members[x] \cup {p}
           /\ state[x] # "unborn" => state'[x] # "unborn" /\ (x \in listed' => x \in listed)
           /\ state[x] \in {"closed", "match"} =>
                state'[x] \in {"closed", "match"} /\ members'[x] \subseteq members[x]
  PROVE  \A q \in Players \ {p} : Knows(q)'
<1> SUFFICES ASSUME NEW q \in Players \ {p} PROVE Knows(q)'
  OBVIOUS
<1> DEFINE f == lobby[q].from
<1>1. /\ KnowsRooms(q) /\ IsWhere(q) /\ DestroysRoom(q)
      /\ lobby[q] \in Call /\ lobby'[q] = lobby[q] /\ room'[q] \in {room[q], None}
  BY DEF IInv, TypeOK, LobbyKnows
<1>2. lobby[q].from \in RoomIds \cup {None} /\ lobby[q].to \in RoomIds \cup {None}
  BY <1>1 DEF Call
<1>3. KnowsRooms(q)'
  BY <1>1, <1>2 DEF KnowsRooms
<1>4. IsWhere(q)'
  <2>1. lobby[q].at = "reset" => q \notin members'[f]
    BY <1>1 DEF KnowsRooms, IsWhere
  <2> QED
    BY <1>1, <2>1 DEF IsWhere
<1>5. DestroysRoom(q)'
  <2>1. lobby[q].at \in {"close", "kick"} => f \in RoomIds /\ f \notin listed'
    BY <1>1, NoneAssumption DEF KnowsRooms, DestroysRoom
  <2>2. lobby[q].at = "kick" => members'[f] = {} /\ state'[f] \in {"closed", "match"}
    BY <1>1, <2>1 DEF DestroysRoom
  <2> QED
    BY <1>1, <2>1, <2>2 DEF DestroysRoom
<1> QED
  BY <1>3, <1>4, <1>5 DEF Knows

LEMMA RemoveMemberStep ==
  ASSUME IInv, NEW p \in Players, RemoveMember(p)
  PROVE  IInv'
<1> DEFINE r == lobby[p].from
<1>1. /\ r \in RoomIds /\ lobby[p].at = "leave" /\ room[p] \in {None, r}
      /\ lobby[p] \in Call
      /\ members[r] \in SUBSET Players
  BY DEF IInv, TypeOK, LobbyKnows, KnowsRooms, IsWhere, RemoveMember
<1>2. /\ lobby'[p].at = "reset" /\ lobby'[p].from = r /\ lobby'[p].rest = members[r] \ {p}
      /\ lobby'[p].then = lobby[p].then /\ lobby'[p].to = lobby[p].to
      /\ \A q \in Players \ {p} : lobby'[q] = lobby[q]
  BY <1>1 DEF IInv, TypeOK, RemoveMember, Call
<1>3. /\ members'[r] = members[r] \ {p}
      /\ \A x \in RoomIds \ {r} : members'[x] = members[x]
      /\ \A x \in RoomIds : members'[x] \subseteq members[x]
  BY <1>1 DEF IInv, TypeOK, RemoveMember
<1>4. UNCHANGED <<listed, state, host, room, seat, gs>>
  BY DEF RemoveMember, sessVars
<1> HIDE DEF r
<1>5. TypeOK'
  BY LeavingType DEF Leaving
<1>6. SeatsApart'
  BY <1>3, <1>4 DEF IInv, SeatsApart
<1>7. MembersKnow'
  BY <1>3, <1>4 DEF IInv, MembersKnow
<1>8. NamesAreCovered'
  BY <1>1, <1>2, <1>3, <1>4 DEF IInv, NamesAreCovered, WillReset
<1>9. LobbyKnows'
  <2>1. Knows(p)'
    <3>1. KnowsRooms(p) /\ r # None /\ state[r] # "unborn"
      BY <1>1, NoneAssumption DEF IInv, LobbyKnows, KnowsRooms, r
    <3> QED
      BY <1>1, <1>2, <1>3, <1>4, <3>1 DEF Knows, KnowsRooms, IsWhere, DestroysRoom
  <2>2. \A q \in Players \ {p} : Knows(q)'
    BY <1>2, <1>3, <1>4, OthersKnow
  <2> QED
    BY <2>1, <2>2 DEF LobbyKnows, Knows
<1>10. GameKnows'
  BY <1>4 DEF IInv, GameKnows
<1>11. UnbornIsUnknown'
  BY <1>3, <1>4 DEF IInv, UnbornIsUnknown
<1>12. OpenIsListed'
  BY <1>1, <1>2, <1>4 DEF IInv, OpenIsListed
<1>13. NobodyIsStranded'
  BY <1>1, <1>2, <1>3, <1>4 DEF IInv, NobodyIsStranded
<1>14. EmptyRoomsGo'
  <2> SUFFICES ASSUME NEW x \in listed, members'[x] = {}
               PROVE  \E q \in Players :
                        /\ lobby'[q].from = x /\ lobby'[q].rest = {}
                        /\ lobby'[q].at \in {"reset", "unlist"}
    BY <1>4 DEF EmptyRoomsGo
  <2>1. CASE x = r
    BY <1>2, <1>3, <2>1
  <2>2. CASE x # r
    <3>1. members[x] = {}
      BY <1>3, <2>2 DEF IInv, TypeOK
    <3>2. PICK q \in Players : /\ lobby[q].from = x /\ lobby[q].rest = {}
                               /\ lobby[q].at \in {"reset", "unlist"}
      BY <3>1 DEF IInv, EmptyRoomsGo
    <3> QED
      BY <1>2, <2>2, <3>2 DEF r
  <2> QED
    BY <2>1, <2>2
<1> QED
  BY <1>5, <1>6, <1>7, <1>8, <1>9, <1>10, <1>11, <1>12, <1>13, <1>14 DEF IInv

\* The leaver's session forgets the room.  It is no member of it any more, so
\* that no seat and no member changes.
LEMMA ResetLeaverStep ==
  ASSUME IInv, NEW p \in Players, ResetLeaver(p)
  PROVE  IInv'
<1> DEFINE c == lobby[p]
           r == lobby[p].from
<1>1. /\ c \in Call /\ c.at = "reset" /\ room[p] \in {None, r}
      /\ r \in RoomIds /\ r # None /\ state[r] # "unborn" /\ p \notin members[r]
      /\ KnowsRooms(p)
  BY NoneAssumption DEF IInv, TypeOK, LobbyKnows, KnowsRooms, IsWhere, ResetLeaver
<1>2. \A x \in RoomIds : p \notin members[x]
  BY <1>1, NoneAssumption DEF IInv, MembersKnow
<1>3. /\ room'[p] = None
      /\ \A q \in Players \ {p} : room'[q] = room[q] /\ seat'[q] = seat[q]
      /\ \A q \in Players \ {p} : lobby'[q] = lobby[q]
      /\ UNCHANGED <<listed, state, members, host, gs>>
  BY <1>1 DEF IInv, TypeOK, ResetLeaver, ResetRoomState, roomVars
<1>4. \/ /\ c.rest = {}
         /\ lobby'[p].at = "unlist" /\ lobby'[p].rest = {}
         /\ lobby'[p].from = r /\ lobby'[p].then = c.then /\ lobby'[p].to = c.to
      \/ /\ c.rest # {}
         /\ lobby'[p].at = "promote"
         /\ lobby'[p].from = r /\ lobby'[p].then = c.then /\ lobby'[p].to = c.to
      \/ c.rest # {} /\ lobby'[p] = Returned(c)
  <2>1. CASE c.rest = {}
    BY <1>1, <2>1 DEF IInv, TypeOK, ResetLeaver, Call
  <2>2. CASE c.rest # {} /\ c.washost
    BY <1>1, <2>2 DEF IInv, TypeOK, ResetLeaver, Call
  <2>3. CASE c.rest # {} /\ ~c.washost
    BY <1>1, <2>3 DEF IInv, TypeOK, ResetLeaver, Call
  <2> QED
    BY <1>1, <2>1, <2>2, <2>3 DEF Call
<1>5. /\ Returned(c).at \in {"idle", "enter", "gone"} /\ Returned(c).from = None
      /\ Returned(c).to \in {None, c.to}
      /\ Returned(c).at = "enter" => Returned(c).then \in {"create", "join"}
      /\ Returned(c).then = "join" => Returned(c).to = c.to /\ c.then = "join"
  BY <1>1, ReturnedFacts
<1> HIDE DEF c, r
<1>6. TypeOK'
  BY LeavingType DEF Leaving
<1>7. SeatsApart'
  BY <1>2, <1>3 DEF IInv, TypeOK, SeatsApart
<1>8. MembersKnow'
  BY <1>2, <1>3 DEF IInv, MembersKnow
<1>9. NamesAreCovered'
  <2> SUFFICES ASSUME NEW q \in Players, NEW x \in RoomIds, room'[q] = x, q \notin members[x]
               PROVE  WillReset(q, x)'
    BY <1>3 DEF NamesAreCovered
  <2>1. q # p /\ room[q] = x
    BY <1>3, NoneAssumption
  <2>2. WillReset(q, x)
    BY <2>1 DEF IInv, NamesAreCovered
  <2> QED
    BY <1>1, <1>3, <2>1, <2>2 DEF WillReset, c
<1>10. LobbyKnows'
  <2>1. Knows(p)'
    BY <1>1, <1>3, <1>4, <1>5 DEF Knows, KnowsRooms, IsWhere, DestroysRoom, c, r
  <2>2. \A q \in Players \ {p} : Knows(q)'
    BY <1>3, OthersKnow
  <2> QED
    BY <2>1, <2>2 DEF LobbyKnows, Knows
<1>11. GameKnows'
  BY <1>3 DEF IInv, GameKnows
<1>12. UnbornIsUnknown'
  BY <1>3, NoneAssumption DEF IInv, UnbornIsUnknown
<1>13. OpenIsListed' /\ NobodyIsStranded'
  BY <1>1, <1>3 DEF IInv, OpenIsListed, NobodyIsStranded, c
<1>14. EmptyRoomsGo'
  <2> SUFFICES ASSUME NEW x \in listed, members[x] = {}
               PROVE  \E q \in Players :
                        /\ lobby'[q].from = x /\ lobby'[q].rest = {}
                        /\ lobby'[q].at \in {"reset", "unlist"}
    BY <1>3 DEF EmptyRoomsGo
  <2>1. PICK q \in Players : /\ lobby[q].from = x /\ lobby[q].rest = {}
                             /\ lobby[q].at \in {"reset", "unlist"}
    BY DEF IInv, EmptyRoomsGo
  <2> QED
    BY <1>3, <1>4, <2>1 DEF c, r
<1> QED
  BY <1>6, <1>7, <1>8, <1>9, <1>10, <1>11, <1>12, <1>13, <1>14 DEF IInv

\* What every later section of LeaveRoom starts from.
LEMMA LeaverFacts ==
  ASSUME IInv, NEW p \in Players,
         lobby[p].at \in {"leave", "reset", "unlist", "close", "kick", "promote"}
  PROVE  /\ lobby[p] \in Call /\ lobby[p].from \in RoomIds /\ lobby[p].from # None
         /\ state[lobby[p].from] # "unborn"
         /\ KnowsRooms(p) /\ IsWhere(p) /\ DestroysRoom(p)
  BY NoneAssumption DEF IInv, TypeOK, LobbyKnows, KnowsRooms

\* The handler leaves LeaveRoom, and nobody else's business is touched.
LEMMA ReturnStep ==
  ASSUME IInv, NEW p \in Players,
         lobby[p].at \in {"promote", "kick"},
         lobby' = [lobby EXCEPT ![p] = Returned(lobby[p])],
         lobby[p].at = "kick" => lobby[p].rest = {},
         UNCHANGED <<listed, state, members, sessVars, gs>>,
         TypeOK'
  PROVE  IInv'
<1> DEFINE c == lobby[p]
<1>1. /\ c \in Call /\ KnowsRooms(p) /\ room[p] = None
      /\ \A q \in Players \ {p} : lobby'[q] = lobby[q]
      /\ lobby'[p] = Returned(c)
      /\ UNCHANGED <<room, seat>>
  BY LeaverFacts DEF IInv, TypeOK, IsWhere, sessVars
<1>2. /\ Returned(c).at \in {"idle", "enter", "gone"} /\ Returned(c).from = None
      /\ Returned(c).to \in {None, c.to}
      /\ Returned(c).at = "enter" => Returned(c).then \in {"create", "join"}
      /\ Returned(c).then = "join" => Returned(c).to = c.to /\ c.then = "join"
  BY <1>1, ReturnedFacts
<1>3. SeatsApart' /\ MembersKnow' /\ GameKnows' /\ UnbornIsUnknown'
  BY <1>1 DEF IInv, SeatsApart, MembersKnow, GameKnows, UnbornIsUnknown
<1>4. NamesAreCovered'
  <2> SUFFICES ASSUME NEW q \in Players, NEW x \in RoomIds, room[q] = x, q \notin members[x]
               PROVE  WillReset(q, x)'
    BY <1>1 DEF NamesAreCovered
  <2>1. WillReset(q, x) /\ q # p
    BY <1>1, NoneAssumption DEF IInv, NamesAreCovered
  <2> QED
    BY <1>1, <2>1 DEF WillReset
<1>5. LobbyKnows'
  <2>1. Knows(p)'
    BY <1>1, <1>2 DEF Knows, KnowsRooms, IsWhere, DestroysRoom
  <2>2. \A q \in Players \ {p} : Knows(q)'
    BY <1>1, OthersKnow
  <2> QED
    BY <2>1, <2>2 DEF LobbyKnows, Knows
<1>6. OpenIsListed' /\ NobodyIsStranded'
  BY <1>1 DEF IInv, OpenIsListed, NobodyIsStranded
<1>7. EmptyRoomsGo'
  BY <1>1 DEF IInv, EmptyRoomsGo
<1> QED
  BY <1>3, <1>4, <1>5, <1>6, <1>7 DEF IInv

LEMMA PromoteStep ==
  ASSUME IInv, NEW p \in Players, Promote(p)
  PROVE  IInv'
  BY ReturnStep, LeavingType DEF Promote, Leaving

LEMMA UnlistStep ==
  ASSUME IInv, NEW p \in Players, Unlist(p)
  PROVE  IInv'
<1> DEFINE c == lobby[p]
           r == lobby[p].from
<1>1. /\ c \in Call /\ c.at = "unlist" /\ room[p] = None
      /\ r \in RoomIds /\ r # None /\ state[r] # "unborn"
      /\ KnowsRooms(p)
  BY LeaverFacts DEF Unlist, IsWhere
<1>2. /\ lobby'[p].at = "close" /\ lobby'[p].from = r
      /\ lobby'[p].then = c.then /\ lobby'[p].to = c.to
      /\ \A q \in Players \ {p} : lobby'[q] = lobby[q]
      /\ listed' = listed \ {r}
      /\ UNCHANGED <<state, members, host, room, seat, gs>>
  BY <1>1 DEF IInv, TypeOK, Unlist, Call, sessVars
<1> HIDE DEF c, r
<1>3. TypeOK'
  BY LeavingType DEF Leaving
<1>4. SeatsApart' /\ MembersKnow' /\ GameKnows' /\ UnbornIsUnknown'
  BY <1>2 DEF IInv, SeatsApart, MembersKnow, GameKnows, UnbornIsUnknown
<1>5. NamesAreCovered'
  BY <1>1, <1>2 DEF IInv, NamesAreCovered, WillReset, c
<1>6. LobbyKnows'
  <2>1. Knows(p)'
    BY <1>1, <1>2 DEF Knows, KnowsRooms, IsWhere, DestroysRoom, c, r
  <2>2. \A q \in Players \ {p} : Knows(q)'
    BY <1>2, OthersKnow
  <2> QED
    BY <2>1, <2>2 DEF LobbyKnows, Knows
<1>7. OpenIsListed' /\ NobodyIsStranded'
  BY <1>1, <1>2 DEF IInv, OpenIsListed, NobodyIsStranded, c
<1>8. EmptyRoomsGo'
  BY <1>1, <1>2 DEF IInv, EmptyRoomsGo, c, r
<1> QED
  BY <1>3, <1>4, <1>5, <1>6, <1>7, <1>8 DEF IInv

\* Whoever is in the room when it is closed is on the list of its destroyer.
LEMMA CloseStep ==
  ASSUME IInv, NEW p \in Players, Close(p)
  PROVE  IInv'
<1> DEFINE c == lobby[p]
           r == lobby[p].from
<1>1. /\ c \in Call /\ c.at = "close" /\ room[p] = None
      /\ r \in RoomIds /\ r # None /\ state[r] # "unborn" /\ r \notin listed
      /\ KnowsRooms(p)
  BY LeaverFacts DEF Close, IsWhere, DestroysRoom
<1>2. /\ lobby'[p].at = "kick" /\ lobby'[p].from = r /\ lobby'[p].rest = members[r]
      /\ lobby'[p].then = c.then /\ lobby'[p].to = c.to
      /\ \A q \in Players \ {p} : lobby'[q] = lobby[q]
      /\ UNCHANGED <<listed, host, room, seat, gs>>
  BY <1>1 DEF IInv, TypeOK, Close, Call, sessVars
<1>3. /\ members'[r] = {} /\ state'[r] = "closed"
      /\ \A x \in RoomIds \ {r} : members'[x] = members[x] /\ state'[x] = state[x]
  BY <1>1 DEF IInv, TypeOK, Close
<1> HIDE DEF c, r
<1>4. TypeOK'
  BY LeavingType DEF Leaving
<1>5. SeatsApart' /\ MembersKnow'
  BY <1>2, <1>3 DEF IInv, SeatsApart, MembersKnow
<1>6. GameKnows' /\ UnbornIsUnknown'
  BY <1>2, <1>3 DEF IInv, GameKnows, UnbornIsUnknown
<1>7. NamesAreCovered'
  <2> SUFFICES ASSUME NEW q \in Players, NEW x \in RoomIds, room[q] = x, q \notin members'[x]
               PROVE  WillReset(q, x)'
    BY <1>2 DEF NamesAreCovered
  <2>1. CASE q \in members[x]
    BY <1>2, <1>3, <2>1 DEF WillReset
  <2>2. CASE q \notin members[x]
    BY <1>1, <1>2, <2>2 DEF IInv, NamesAreCovered, WillReset, c
  <2> QED
    BY <2>1, <2>2
<1>8. LobbyKnows'
  <2>1. Knows(p)'
    BY <1>1, <1>2, <1>3 DEF Knows, KnowsRooms, IsWhere, DestroysRoom, IInv, TypeOK, Call, c, r
  <2>2. \A q \in Players \ {p} : Knows(q)'
    BY <1>1, <1>2, <1>3, OthersKnow
  <2> QED
    BY <2>1, <2>2 DEF LobbyKnows, Knows
<1>9. OpenIsListed'
  BY <1>2, <1>3 DEF IInv, OpenIsListed, r
<1>10. NobodyIsStranded'
  BY <1>2, <1>3 DEF IInv, NobodyIsStranded, r
<1>11. EmptyRoomsGo'
  <2> SUFFICES ASSUME NEW x \in listed, members'[x] = {}
               PROVE  \E q \in Players :
                        /\ lobby'[q].from = x /\ lobby'[q].rest = {}
                        /\ lobby'[q].at \in {"reset", "unlist"}
    BY <1>2 DEF EmptyRoomsGo
  <2>1. x \in RoomIds \ {r} /\ members[x] = {}
    BY <1>1, <1>3 DEF IInv, TypeOK
  <2>2. PICK q \in Players : /\ lobby[q].from = x /\ lobby[q].rest = {}
                             /\ lobby[q].at \in {"reset", "unlist"}
    BY <2>1 DEF IInv, EmptyRoomsGo
  <2> QED
    BY <1>1, <1>2, <2>2 DEF c
<1> QED
  BY <1>4, <1>5, <1>6, <1>7, <1>8, <1>9, <1>10, <1>11 DEF IInv

\* A kicked session that still names the room is a member of none.
LEMMA KickStep ==
  ASSUME IInv, NEW p \in Players, Kick(p)
  PROVE  IInv'
<1> DEFINE c == lobby[p]
           r == lobby[p].from
<1>1. /\ c \in Call /\ c.at = "kick" /\ room[p] = None
      /\ r \in RoomIds /\ r # None /\ members[r] = {}
      /\ KnowsRooms(p) /\ DestroysRoom(p)
  BY LeaverFacts DEF Kick, IsWhere, DestroysRoom
<1>2. TypeOK' /\ UNCHANGED <<listed, state, members, host, gs>>
  BY LeavingType DEF Leaving, Kick, roomVars
<1>3. CASE c.rest = {} /\ lobby' = [lobby EXCEPT ![p] = Returned(c)] /\ UNCHANGED sessVars
  BY <1>1, <1>2, <1>3, ReturnStep
<1>4. ASSUME NEW q \in c.rest,
             ResetRoomState(IF room[q] = r THEN {q} ELSE {}),
             lobby' = [lobby EXCEPT ![p].rest = @ \ {q}]
      PROVE  IInv'
  <2>1. /\ q \in Players
        /\ lobby'[p].at = "kick" /\ lobby'[p].from = r /\ lobby'[p].rest = c.rest \ {q}
        /\ lobby'[p].then = c.then /\ lobby'[p].to = c.to
        /\ \A x \in Players \ {p} : lobby'[x] = lobby[x]
    BY <1>1, <1>4 DEF IInv, TypeOK, Call
  <2>2. /\ room'[q] # r /\ room'[q] \in {room[q], None}
        /\ \A x \in Players \ {q} : room'[x] = room[x] /\ seat'[x] = seat[x]
    BY <1>1, <1>4, <2>1 DEF IInv, TypeOK, ResetRoomState
  <2>3. room[q] = r => \A x \in RoomIds : q \notin members[x]
    BY <1>1, <2>1 DEF IInv, MembersKnow
  <2>4. room[q] # r => room'[q] = room[q] /\ seat'[q] = seat[q]
    BY <1>4, <2>1 DEF IInv, TypeOK, ResetRoomState
  <2> HIDE DEF c, r
  <2>5. SeatsApart'
    BY <1>2, <2>2, <2>3, <2>4 DEF IInv, TypeOK, SeatsApart
  <2>6. MembersKnow'
    BY <1>2, <2>2, <2>3, <2>4 DEF IInv, MembersKnow
  <2>7. NamesAreCovered'
    <3> SUFFICES ASSUME NEW y \in Players, NEW x \in RoomIds, room'[y] = x, y \notin members[x]
                 PROVE  WillReset(y, x)'
      BY <1>2 DEF NamesAreCovered
    <3>1. room[y] = x /\ (y = q => x # r)
      BY <2>1, <2>2, NoneAssumption
    <3>2. WillReset(y, x)
      BY <3>1 DEF IInv, NamesAreCovered
    <3> QED
      BY <1>1, <2>1, <3>1, <3>2 DEF WillReset, c, r
  <2>8. LobbyKnows'
    <3>1. Knows(p)'
      BY <1>1, <1>2, <2>1, <2>2 DEF Knows, KnowsRooms, IsWhere, DestroysRoom, c, r
    <3>2. \A x \in Players \ {p} : Knows(x)'
      BY <1>2, <2>1, <2>2, OthersKnow
    <3> QED
      BY <3>1, <3>2 DEF LobbyKnows, Knows
  <2>9. GameKnows' /\ UnbornIsUnknown'
    BY <1>2, <2>1, <2>2, NoneAssumption DEF IInv, GameKnows, UnbornIsUnknown
  <2>10. OpenIsListed' /\ NobodyIsStranded' /\ EmptyRoomsGo'
    BY <1>1, <1>2, <2>1 DEF IInv, OpenIsListed, NobodyIsStranded, EmptyRoomsGo, c
  <2> QED
    BY <1>2, <2>5, <2>6, <2>7, <2>8, <2>9, <2>10 DEF IInv
<1> QED
  BY <1>3, <1>4 DEF Kick

-----------------------------------------------------------------------------
(* The lobby's packets.                                                    *)

\* An idle handler takes up a packet: whatever it will do, it is so far nobody
\* who resets or destroys.
LEMMA AskStep ==
  ASSUME IInv, NEW p \in Players, lobby[p].at = "idle",
         \A q \in Players \ {p} : lobby'[q] = lobby[q],
         UNCHANGED <<listed, state, members, room, seat, gs>>,
         TypeOK', Knows(p)'
  PROVE  IInv'
<1>1. SeatsApart' /\ MembersKnow' /\ GameKnows' /\ UnbornIsUnknown'
  BY DEF IInv, SeatsApart, MembersKnow, GameKnows, UnbornIsUnknown
<1>2. NamesAreCovered'
  <2> SUFFICES ASSUME NEW q \in Players, NEW x \in RoomIds, room[q] = x, q \notin members[x]
               PROVE  WillReset(q, x)'
    BY DEF NamesAreCovered
  <2>1. WillReset(q, x)
    BY DEF IInv, NamesAreCovered
  <2> QED
    BY <2>1 DEF WillReset
<1>3. LobbyKnows'
  <2>1. \A q \in Players \ {p} : Knows(q)'
    BY OthersKnow
  <2> QED
    BY <2>1 DEF LobbyKnows, Knows
<1>4. OpenIsListed' /\ NobodyIsStranded'
  BY DEF IInv, OpenIsListed, NobodyIsStranded
<1>5. EmptyRoomsGo'
  BY DEF IInv, EmptyRoomsGo
<1> QED
  BY <1>1, <1>2, <1>3, <1>4, <1>5 DEF IInv

\* LeaveRoom's first look at s.Room, for a handler that will come back for a
\* room it knows to exist.
LEMMA LeaveKnows ==
  ASSUME IInv, NEW p \in Players, NEW c \in Call, Leave(p, c),
         UNCHANGED <<listed, state, members, room>>,
         c.then = "join" => c.to \in RoomIds,
         c.to # None => state[c.to] # "unborn"
  PROVE  Knows(p)'
<1>1. CASE room[p] = None
  <2>1. lobby'[p] = Returned(c)
    BY <1>1 DEF Leave, IInv, TypeOK
  <2> QED
    BY <1>1, <2>1, ReturnedFacts, NoneAssumption DEF Knows, KnowsRooms, IsWhere, DestroysRoom
<1>2. CASE room[p] # None
  <2>1. /\ lobby'[p].at = "leave" /\ lobby'[p].from = room[p]
        /\ lobby'[p].then = c.then /\ lobby'[p].to = c.to
    BY <1>2 DEF Leave, IInv, TypeOK, Call
  <2>2. room[p] \in RoomIds /\ state[room[p]] # "unborn"
    BY <1>2 DEF IInv, TypeOK, UnbornIsUnknown
  <2> QED
    BY <2>1, <2>2 DEF Knows, KnowsRooms, IsWhere, DestroysRoom
<1> QED
  BY <1>1, <1>2

LEMMA AskingStep ==
  ASSUME IInv, NEW p \in Players, Asking(p)
  PROVE  IInv'
<1>1. /\ lobby[p].at = "idle"
      /\ UNCHANGED <<listed, state, members, room, seat, gs>>
  BY DEF Asking, CreateRoom, QuitRoom, LobbyEOF, JoinRoom, LobbyPacket, roomVars, sessVars
<1>2. \A q \in Players \ {p} : lobby'[q] = lobby[q]
  BY DEF Asking, CreateRoom, QuitRoom, LobbyEOF, JoinRoom, Leave, IInv, TypeOK
<1>3. Knows(p)'
  <2>1. CASE CreateRoom(p)
    <3>1. /\ [Idle EXCEPT !.then = "create"] \in Call
          /\ [Idle EXCEPT !.then = "create"].then = "create"
          /\ [Idle EXCEPT !.then = "create"].to = None
      BY DEF Idle, Call, LobbyStages, After
    <3> QED
      BY <1>1, <2>1, <3>1, LeaveKnows DEF CreateRoom
  <2>2. CASE QuitRoom(p)
    <3>1. Idle.then = "idle" /\ Idle.to = None
      BY DEF Idle
    <3> QED
      BY <1>1, <2>2, <3>1, IdleIsCall, LeaveKnows DEF QuitRoom
  <2>3. CASE LobbyEOF(p)
    <3>1. /\ [Idle EXCEPT !.then = "gone"] \in Call
          /\ [Idle EXCEPT !.then = "gone"].then = "gone"
          /\ [Idle EXCEPT !.then = "gone"].to = None
      BY DEF Idle, Call, LobbyStages, After
    <3>2. \/ Leave(p, [Idle EXCEPT !.then = "gone"])
          \/ lobby'[p] = [Idle EXCEPT !.at = "gone"]
      BY <2>3 DEF LobbyEOF, IInv, TypeOK
    <3>3. CASE lobby'[p] = [Idle EXCEPT !.at = "gone"]
      BY <3>3 DEF Knows, KnowsRooms, IsWhere, DestroysRoom, Idle
    <3> QED
      BY <1>1, <3>1, <3>2, <3>3, LeaveKnows
  <2>4. ASSUME NEW r \in RoomIds, JoinRoom(p, r)
        PROVE  Knows(p)'
    <3>1. /\ [Idle EXCEPT !.then = "join", !.to = r] \in Call
          /\ [Idle EXCEPT !.then = "join", !.to = r].then = "join"
          /\ [Idle EXCEPT !.then = "join", !.to = r].to = r
      BY DEF Idle, Call, LobbyStages, After
    <3>2. state[r] # "unborn"
      BY <2>4 DEF JoinRoom
    <3>3. CASE room[p] = r
      <4>1. lobby'[p] = [Idle EXCEPT !.at = "enter", !.then = "join", !.to = r, !.stays = TRUE]
        BY <2>4, <3>3 DEF JoinRoom, IInv, TypeOK
      <4> QED
        BY <1>1, <3>2, <3>3, <4>1 DEF Knows, KnowsRooms, IsWhere, DestroysRoom, Idle
    <3>4. CASE room[p] # r
      <4>1. Leave(p, [Idle EXCEPT !.then = "join", !.to = r])
        BY <2>4, <3>4 DEF JoinRoom
      <4> QED
        BY <1>1, <3>1, <3>2, <4>1, LeaveKnows
    <3> QED
      BY <3>3, <3>4
  <2> QED
    BY <2>1, <2>2, <2>3, <2>4 DEF Asking
<1> QED
  BY <1>1, <1>2, <1>3, AskingType, AskStep

\* A new room has one member, and nobody knew of it.
LEMMA OpenRoomStep ==
  ASSUME IInv, NEW p \in Players, OpenRoom(p)
  PROVE  IInv'
<1>1. PICK r \in RoomIds :
        /\ state[r] = "unborn"
        /\ listed' = listed \cup {r}
        /\ state' = [state EXCEPT ![r] = "open"]
        /\ members' = [members EXCEPT ![r] = {p}]
        /\ room' = [room EXCEPT ![p] = r]
  BY DEF OpenRoom
<1>2. /\ room[p] = None /\ lobby[p].at = "enter" /\ lobby'[p] = Idle
      /\ room'[p] = r /\ r # None
      /\ \A q \in Players \ {p} :
           lobby'[q] = lobby[q] /\ room'[q] = room[q] /\ seat'[q] = seat[q]
      /\ gs' = gs
  BY <1>1, NoneAssumption DEF OpenRoom, IInv, TypeOK, LobbyKnows, IsWhere
<1>3. /\ members'[r] = {p} /\ state'[r] = "open"
      /\ \A x \in RoomIds \ {r} : members'[x] = members[x] /\ state'[x] = state[x]
  BY <1>1 DEF IInv, TypeOK
<1>4. /\ members[r] = {} /\ r \notin listed
      /\ \A q \in Players : room[q] # r
  BY <1>1 DEF IInv, UnbornIsUnknown
<1>5. \A x \in RoomIds : p \notin members[x]
  BY <1>2, NoneAssumption DEF IInv, MembersKnow
<1>6. TypeOK'
  BY EnteringType
<1>7. SeatsApart'
  BY <1>2, <1>3, <1>5 DEF IInv, TypeOK, SeatsApart
<1>8. MembersKnow'
  BY <1>2, <1>3, <1>5 DEF IInv, MembersKnow
<1>9. NamesAreCovered'
  <2> SUFFICES ASSUME NEW q \in Players, NEW x \in RoomIds, room'[q] = x, q \notin members'[x]
               PROVE  WillReset(q, x)'
    BY DEF NamesAreCovered
  <2>1. q # p /\ room[q] = x /\ x # r /\ q \notin members[x]
    BY <1>2, <1>3, <1>4
  <2>2. WillReset(q, x)
    BY <2>1 DEF IInv, NamesAreCovered
  <2> QED
    BY <1>2, <2>1, <2>2 DEF WillReset
<1>10. LobbyKnows'
  <2>1. Knows(p)'
    BY <1>2 DEF Knows, KnowsRooms, IsWhere, DestroysRoom, Idle
  <2>2. \A q \in Players \ {p} : Knows(q)'
    BY <1>1, <1>2, <1>3, <1>4, OthersKnow
  <2> QED
    BY <2>1, <2>2 DEF LobbyKnows, Knows
<1>11. GameKnows'
  BY <1>2, <1>3 DEF IInv, GameKnows
<1>12. UnbornIsUnknown'
  BY <1>1, <1>2, <1>3 DEF IInv, UnbornIsUnknown
<1>13. OpenIsListed' /\ NobodyIsStranded'
  BY <1>1, <1>2, <1>3 DEF IInv, OpenIsListed, NobodyIsStranded
<1>14. EmptyRoomsGo'
  <2> SUFFICES ASSUME NEW x \in listed', members'[x] = {}
               PROVE  \E q \in Players :
                        /\ lobby'[q].from = x /\ lobby'[q].rest = {}
                        /\ lobby'[q].at \in {"reset", "unlist"}
    BY DEF EmptyRoomsGo
  <2>1. x \in listed /\ members[x] = {}
    BY <1>1, <1>3 DEF IInv, TypeOK
  <2>2. PICK q \in Players : /\ lobby[q].from = x /\ lobby[q].rest = {}
                             /\ lobby[q].at \in {"reset", "unlist"}
    BY <2>1 DEF IInv, EmptyRoomsGo
  <2> QED
    BY <1>2, <2>2
<1> QED
  BY <1>6, <1>7, <1>8, <1>9, <1>10, <1>11, <1>12, <1>13, <1>14 DEF IInv

\* Whatever seat JoinRoom hands out, no other member has it.
LEMMA JoinSeatIsFree ==
  ASSUME NEW r, NEW p, NEW want, NEW got, JoinSeat(r, p, want, got) \/ HopSeat(r, p, want, got)
  PROVE  got \notin Taken(r, p)
  BY DEF JoinSeat, HopSeat, Least

\* JoinRoom comes in only while the room is open: a room that is open and not
\* listed any more still has its destroyer before the section that empties it.
LEMMA EnterRoomStep ==
  ASSUME IInv, NEW p \in Players, EnterRoom(p)
  PROVE  IInv'
<1> DEFINE r == lobby[p].to
<1>1. /\ r \in RoomIds /\ r # None
      /\ room[p] \in {None, r} /\ lobby[p].at = "enter" /\ lobby'[p] = Idle
      /\ \A q \in Players \ {p} : lobby'[q] = lobby[q]
      /\ UNCHANGED <<listed, state, host, gs>>
  BY NoneAssumption DEF EnterRoom, IInv, TypeOK, LobbyKnows, KnowsRooms, IsWhere
<1>2. TypeOK'
  BY EnteringType
<1>3. Knows(p)'
  BY <1>1 DEF Knows, KnowsRooms, IsWhere, DestroysRoom, Idle
<1>4. CASE UNCHANGED <<members, room, seat>>
  <2>1. SeatsApart' /\ MembersKnow' /\ GameKnows' /\ UnbornIsUnknown'
    BY <1>1, <1>4 DEF IInv, SeatsApart, MembersKnow, GameKnows, UnbornIsUnknown
  <2>2. NamesAreCovered'
    <3> SUFFICES ASSUME NEW q \in Players, NEW x \in RoomIds, room[q] = x, q \notin members[x]
                 PROVE  WillReset(q, x)'
      BY <1>4 DEF NamesAreCovered
    <3>1. WillReset(q, x)
      BY DEF IInv, NamesAreCovered
    <3> QED
      BY <1>1, <3>1 DEF WillReset
  <2>3. LobbyKnows'
    <3>1. \A q \in Players \ {p} : Knows(q)'
      BY <1>1, <1>4, OthersKnow
    <3> QED
      BY <1>3, <3>1 DEF LobbyKnows, Knows
  <2>4. OpenIsListed' /\ NobodyIsStranded' /\ EmptyRoomsGo'
    BY <1>1, <1>4 DEF IInv, OpenIsListed, NobodyIsStranded, EmptyRoomsGo
  <2> QED
    BY <1>2, <2>1, <2>2, <2>3, <2>4 DEF IInv
<1>5. ASSUME state[r] = "open",
             NEW got \in Asked \cup TeamSeats, got \notin Taken(r, p),
             seat' = [seat EXCEPT ![p] = got],
             members' = [members EXCEPT ![r] = @ \cup {p}],
             room' = [room EXCEPT ![p] = r]
      PROVE  IInv'
  <2>1. /\ members'[r] = members[r] \cup {p}
        /\ \A x \in RoomIds \ {r} : members'[x] = members[x] /\ p \notin members[x]
        /\ room'[p] = r /\ seat'[p] = got
        /\ \A q \in Players \ {p} : room'[q] = room[q] /\ seat'[q] = seat[q]
        /\ \A x \in RoomIds : members[x] \subseteq Players
    BY <1>1, <1>5, NoneAssumption DEF IInv, TypeOK, MembersKnow
  <2>2. \A q \in members[r] \ {p} : seat[q] # got
    BY <1>5 DEF Taken
  <2> HIDE DEF r
  <2>3. SeatsApart'
    BY <1>1, <2>1, <2>2 DEF IInv, SeatsApart
  <2>4. MembersKnow'
    BY <1>1, <2>1 DEF IInv, MembersKnow
  <2>5. NamesAreCovered'
    <3> SUFFICES ASSUME NEW q \in Players, NEW x \in RoomIds, room'[q] = x, q \notin members'[x]
                 PROVE  WillReset(q, x)'
      BY DEF NamesAreCovered
    <3>1. q # p /\ room[q] = x /\ q \notin members[x]
      BY <2>1
    <3>2. WillReset(q, x)
      BY <3>1 DEF IInv, NamesAreCovered
    <3> QED
      BY <1>1, <3>2 DEF WillReset
  <2>6. LobbyKnows'
    <3>1. \A q \in Players \ {p} : Knows(q)'
      BY <1>1, <1>5, <2>1, OthersKnow
    <3> QED
      BY <1>3, <3>1 DEF LobbyKnows, Knows
  <2>7. GameKnows' /\ UnbornIsUnknown'
    BY <1>1, <1>5, <2>1 DEF IInv, GameKnows, UnbornIsUnknown
  <2>8. OpenIsListed'
    BY <1>1 DEF IInv, OpenIsListed
  <2>9. NobodyIsStranded'
    <3> SUFFICES ASSUME NEW x \in RoomIds \ listed, members'[x] # {}
                 PROVE  \E q \in Players : lobby'[q].at = "close" /\ lobby'[q].from = x
      BY <1>1 DEF NobodyIsStranded
    <3>1. PICK q \in Players : lobby[q].at = "close" /\ lobby[q].from = x
      BY <1>5, <2>1 DEF IInv, OpenIsListed, NobodyIsStranded
    <3> QED
      BY <1>1, <3>1
  <2>10. EmptyRoomsGo'
    <3> SUFFICES ASSUME NEW x \in listed, members'[x] = {}
                 PROVE  \E q \in Players :
                          /\ lobby'[q].from = x /\ lobby'[q].rest = {}
                          /\ lobby'[q].at \in {"reset", "unlist"}
      BY <1>1 DEF EmptyRoomsGo
    <3>1. members[x] = {}
      BY <2>1 DEF IInv, TypeOK
    <3>2. PICK q \in Players : /\ lobby[q].from = x /\ lobby[q].rest = {}
                               /\ lobby[q].at \in {"reset", "unlist"}
      BY <3>1 DEF IInv, EmptyRoomsGo
    <3> QED
      BY <1>1, <3>2
  <2> QED
    BY <1>2, <2>3, <2>4, <2>5, <2>6, <2>7, <2>8, <2>9, <2>10 DEF IInv
<1>6. \/ UNCHANGED <<members, room, seat>>
      \/ /\ state[r] = "open"
         /\ \E want \in Asked, got \in Asked \cup TeamSeats :
              JoinSeat(r, p, want, got) /\ seat' = [seat EXCEPT ![p] = got]
         /\ members' = [members EXCEPT ![r] = @ \cup {p}]
         /\ room' = [room EXCEPT ![p] = r]
  BY DEF EnterRoom
<1> QED
  BY <1>4, <1>5, <1>6, JoinSeatIsFree

-----------------------------------------------------------------------------
(* The game server's packets.                                              *)

\* A step that touches no room, no room pointer and no lobby handler.
LEMMA ElsewhereStep ==
  ASSUME IInv, UNCHANGED <<roomVars, room, lobby>>, TypeOK', SeatsApart', GameKnows'
  PROVE  IInv'
<1> USE DEF roomVars
<1>1. MembersKnow' /\ NamesAreCovered'
  BY DEF IInv, MembersKnow, NamesAreCovered, WillReset
<1>2. LobbyKnows'
  BY DEF IInv, LobbyKnows, KnowsRooms, IsWhere, DestroysRoom
<1>3. UnbornIsUnknown' /\ OpenIsListed'
  BY DEF IInv, UnbornIsUnknown, OpenIsListed
<1>4. NobodyIsStranded' /\ EmptyRoomsGo'
  BY DEF IInv, NobodyIsStranded, EmptyRoomsGo
<1> QED
  BY <1>1, <1>2, <1>3, <1>4 DEF IInv

LEMMA SeatingStep ==
  ASSUME IInv, NEW p \in Players, Seating(p)
  PROVE  IInv'
<1>1. TypeOK' /\ UNCHANGED <<roomVars, room, lobby, gs>>
  BY SeatingType DEF Seating, ChangeSeat, ApplyReadyFromSkill, ClaimSeatHero
<1>2. GameKnows'
  BY <1>1 DEF IInv, GameKnows, roomVars
<1>3. SeatsApart'
  <2>1. CASE seat' = seat
    BY <1>1, <2>1 DEF IInv, SeatsApart, roomVars
  <2>2. CASE ChangeSeat(p)
    <3>1. PICK want \in TeamSeats, got \in TeamSeats :
            /\ room[p] # None => HopSeat(room[p], p, want, got)
            /\ seat' = [seat EXCEPT ![p] = got]
      BY <2>2 DEF ChangeSeat
    <3>2. seat'[p] = got /\ \A q \in Players \ {p} : seat'[q] = seat[q]
      BY <3>1 DEF IInv, TypeOK
    <3>3. \A r \in RoomIds : p \in members[r] => \A q \in members[r] \ {p} : seat[q] # got
      BY <3>1, JoinSeatIsFree, NoneAssumption DEF IInv, MembersKnow, Taken
    <3> QED
      BY <1>1, <3>2, <3>3 DEF IInv, TypeOK, SeatsApart, roomVars
  <2> QED
    BY <2>1, <2>2 DEF Seating, ApplyReadyFromSkill, ClaimSeatHero
<1> QED
  BY <1>1, <1>2, <1>3, ElsewhereStep

\* A match starts in a room that was created, whatever became of it since.
LEMMA StartMatchStep ==
  ASSUME IInv, NEW p \in Players, StartMatch(p)
  PROVE  IInv'
<1> DEFINE r == gs[p].of
<1>1. /\ r \in RoomIds /\ state[r] # "unborn"
      /\ state' = [state EXCEPT ![r] = "match"]
      /\ UNCHANGED <<listed, members, host, room, seat, lobby>>
      /\ \A q \in Players : gs'[q].of = gs[q].of
      /\ \A q \in Players \ {p} : gs'[q] = gs[q]
  BY DEF StartMatch, Goes, IInv, TypeOK, GameKnows, Start, sessVars
<1>2. state'[r] = "match" /\ \A x \in RoomIds \ {r} : state'[x] = state[x]
  BY <1>1 DEF IInv, TypeOK
<1>3. TypeOK'
  BY StartingType DEF Starting
<1> HIDE DEF r
<1>4. SeatsApart' /\ MembersKnow' /\ NamesAreCovered'
  BY <1>1 DEF IInv, SeatsApart, MembersKnow, NamesAreCovered, WillReset
<1>5. LobbyKnows'
  <2> SUFFICES ASSUME NEW q \in Players PROVE Knows(q)'
    BY DEF LobbyKnows, Knows
  <2>1. /\ KnowsRooms(q) /\ IsWhere(q) /\ DestroysRoom(q) /\ lobby[q] \in Call
    BY DEF IInv, LobbyKnows, TypeOK
  <2>2. lobby[q].from \in RoomIds \cup {None} /\ lobby[q].to \in RoomIds \cup {None}
    BY <2>1 DEF Call
  <2>3. KnowsRooms(q)' /\ IsWhere(q)'
    BY <1>1, <1>2, <2>1, <2>2 DEF KnowsRooms, IsWhere
  <2>4. lobby[q].at = "kick" => lobby[q].from \in RoomIds
    BY <2>1 DEF KnowsRooms
  <2>5. DestroysRoom(q)'
    BY <1>1, <1>2, <2>1, <2>4 DEF DestroysRoom
  <2> QED
    BY <2>3, <2>5 DEF Knows
<1>6. GameKnows'
  BY <1>1, <1>2 DEF IInv, GameKnows, r
<1>7. UnbornIsUnknown' /\ OpenIsListed'
  BY <1>1, <1>2 DEF IInv, UnbornIsUnknown, OpenIsListed
<1>8. NobodyIsStranded' /\ EmptyRoomsGo'
  BY <1>1 DEF IInv, NobodyIsStranded, EmptyRoomsGo
<1> QED
  BY <1>3, <1>4, <1>5, <1>6, <1>7, <1>8 DEF IInv

LEMMA StartingStep ==
  ASSUME IInv, NEW p \in Players, Starting(p)
  PROVE  IInv'
<1>1. CASE StartMatch(p)
  BY <1>1, StartMatchStep
<1>2. CASE ~StartMatch(p)
  <2>1. TypeOK' /\ UNCHANGED <<roomVars, room, seat, lobby>>
    BY <1>2, StartingType DEF Starting, AcceptReadyStart, CountMembers, GuestsReady,
       TakeRoster, SetMatchLoading, sessVars
  <2>2. SeatsApart'
    BY <2>1 DEF IInv, SeatsApart, roomVars
  <2>3. GameKnows'
    <3>1. \A q \in Players \ {p} : gs'[q] = gs[q]
      BY <1>2 DEF Starting, AcceptReadyStart, CountMembers, GuestsReady, TakeRoster,
         SetMatchLoading, Goes, Stops, IInv, TypeOK
    <3>2. gs'[p].at # "idle" => gs'[p].of \in RoomIds /\ state[gs'[p].of] # "unborn"
      <4>1. CASE AcceptReadyStart(p)
        <5>1. room[p] # None => room[p] \in RoomIds /\ state[room[p]] # "unborn"
          BY DEF IInv, TypeOK, UnbornIsUnknown
        <5> QED
          BY <4>1, <5>1 DEF AcceptReadyStart, GamePacket, Free, IInv, TypeOK
      <4>2. CASE ~AcceptReadyStart(p)
        <5>0. gs \in [Players -> Start] /\ gs[p] \in Start
          BY DEF IInv, TypeOK
        <5>1. gs[p].at # "idle" /\ (gs'[p].of = gs[p].of \/ gs'[p] = Free)
          <6>1. CASE CountMembers(p)
            <7>1. \/ gs' = [gs EXCEPT ![p] = [gs[p] EXCEPT !.at = "guests"]]
                  \/ gs' = [gs EXCEPT ![p] = Free]
                  \/ gs' = [gs EXCEPT ![p] = [gs[p] EXCEPT !.at = "start", !.roster = {}]]
              BY <6>1 DEF CountMembers, Goes, Stops
            <7>2. /\ [gs[p] EXCEPT !.at = "guests"].of = gs[p].of
                  /\ [gs[p] EXCEPT !.at = "start", !.roster = {}].of = gs[p].of
              BY <5>0 DEF Start
            <7>3. gs[p].at = "count"
              BY <6>1 DEF CountMembers
            <7> QED
              BY <5>0, <7>1, <7>2, <7>3
          <6>2. CASE GuestsReady(p)
            BY <5>0, <6>2 DEF GuestsReady, Goes, Stops, Start
          <6>3. CASE TakeRoster(p)
            <7>1. \/ gs' = [gs EXCEPT ![p] = Free]
                  \/ \E now : gs' = [gs EXCEPT ![p] =
                                     [gs[p] EXCEPT !.at = "start", !.roster = now]]
              BY <6>3 DEF TakeRoster, Stops
            <7>2. \A now : [gs[p] EXCEPT !.at = "start", !.roster = now].of = gs[p].of
              BY <5>0 DEF Start
            <7>3. gs[p].at = "roster"
              BY <6>3 DEF TakeRoster
            <7> QED
              BY <5>0, <7>1, <7>2, <7>3
          <6>4. CASE SetMatchLoading(p)
            BY <5>0, <6>4 DEF SetMatchLoading, Stops, Start
          <6> QED
            BY <1>2, <4>2, <6>1, <6>2, <6>3, <6>4 DEF Starting
        <5> QED
          BY <5>1 DEF IInv, GameKnows, Free
      <4> QED
        BY <4>1, <4>2
    <3> QED
      BY <2>1, <3>1, <3>2 DEF IInv, GameKnows, roomVars
  <2> QED
    BY <2>1, <2>2, <2>3, ElsewhereStep
<1> QED
  BY <1>1, <1>2

-----------------------------------------------------------------------------
(* The invariant.                                                          *)

LEMMA InitIInv == Init => IInv
<1> SUFFICES ASSUME Init PROVE IInv
  OBVIOUS
<1>1. TypeOK
  BY IdleIsCall, FirstSeat, MaxSentAssumption DEF Init, TypeOK
<1>2. SeatsApart /\ MembersKnow /\ NamesAreCovered /\ GameKnows
  BY NoneAssumption DEF Init, SeatsApart, MembersKnow, NamesAreCovered, GameKnows, Free
<1>3. LobbyKnows
  BY DEF Init, LobbyKnows, KnowsRooms, IsWhere, DestroysRoom, Idle
<1>4. UnbornIsUnknown /\ OpenIsListed /\ NobodyIsStranded /\ EmptyRoomsGo
  BY NoneAssumption DEF Init, UnbornIsUnknown, OpenIsListed, NobodyIsStranded, EmptyRoomsGo
<1> QED
  BY <1>1, <1>2, <1>3, <1>4 DEF IInv

LEMMA NextIInv == IInv /\ [Next]_vars => IInv'
<1> SUFFICES ASSUME IInv, [Next]_vars PROVE IInv'
  OBVIOUS
<1>1. ASSUME NEW p \in Players,
             \/ Leaving(p) \/ Asking(p) \/ OpenRoom(p) \/ EnterRoom(p)
             \/ Seating(p) \/ Starting(p)
      PROVE  IInv'
  <2>1. CASE Leaving(p)
    BY <2>1, RemoveMemberStep, ResetLeaverStep, PromoteStep, UnlistStep, CloseStep, KickStep
       DEF Leaving
  <2> QED
    BY <1>1, <2>1, AskingStep, OpenRoomStep, EnterRoomStep, SeatingStep, StartingStep
<1>2. CASE UNCHANGED vars
  <2>1. UNCHANGED <<roomVars, room, lobby>> /\ TypeOK' /\ SeatsApart' /\ GameKnows'
    BY <1>2 DEF IInv, TypeOK, SeatsApart, GameKnows, vars, roomVars
  <2> QED
    BY <2>1, ElsewhereStep
<1> QED
  BY <1>1, <1>2 DEF Next

\* What LeaveRoom, DestroyRoom, JoinRoom and the game server's handlers rely on
\* between their sections, taken together, survives every step of every session.
THEOREM Invariance == Spec => []IInv
  BY InitIInv, NextIInv, PTL DEF Spec

\* Every variable keeps its type, for any number of sessions, rooms and packets.
THEOREM TypeCorrect == Spec => []TypeOK
<1>1. IInv => TypeOK
  BY DEF IInv
<1> QED
  BY <1>1, Invariance, PTL

\* Two members of a room never share a seat, a member's session names the room,
\* and a session that names a room it is not a member of is about to be reset by
\* the LeaveRoom or DestroyRoom that took it out.
THEOREM MembershipTheorem == Spec => []MembershipAgrees
<1>1. IInv => MembershipAgrees
  BY DEF IInv, SeatsApart, MembersKnow, NamesAreCovered, WillReset, MembershipAgrees
<1> QED
  BY <1>1, Invariance, PTL

\* Nobody is left in a room that is off the map, but while the DestroyRoom that
\* took it off the map has yet to come to its members.
THEOREM StrandedTheorem == Spec => []NobodyIsStranded
<1>1. IInv => NobodyIsStranded
  BY DEF IInv
<1> QED
  BY <1>1, Invariance, PTL

\* A listed room without members is being destroyed by the one who emptied it.
THEOREM EmptyRoomsTheorem == Spec => []EmptyRoomsGo
<1>1. IInv => EmptyRoomsGo
  BY DEF IInv
<1> QED
  BY <1>1, Invariance, PTL
=============================================================================
