----------------------------- MODULE MatchHold -----------------------------
(***************************************************************************)
(* Mid-match reconnect of one room: internal/session/session.go (the seat  *)
(* reservation kept in every Session) and internal/gs/handler.go (the      *)
(* goroutine that serves each game-server connection).                     *)
(*                                                                         *)
(* The room has had its LoadMap: State is "match", every member has a live *)
(* custom connection and is loading.  From there connections drop, stay    *)
(* silently half-open, are taken over by a newer ReLoginReq, race the      *)
(* 90 s hold timer and the deferred disconnect path of older connections.  *)
(*                                                                         *)
(* One action is one critical section of the code (s.mu, or room.mu with   *)
(* s.mu inside).  A connection's handler is a process: pc[c] says which    *)
(* section it runs next.  Wall-clock time is three flags per session that  *)
(* the actions HoldDeadline, AckWindowCloses and CooldownEnds move.  Seat, *)
(* hero and room id are constant while a match runs, so the snapshot that  *)
(* ClaimMatchHold compares with them is left out.                          *)
(***************************************************************************)
EXTENDS Integers, FiniteSets

CONSTANTS
  Players,      \* the sessions that were seated when LoadMap was broadcast
  Conns,        \* game-server connections (net.Conn and its connState)
  None,         \* no connection: a nil matchResumePending
  FailMax,      \* config.MatchReloginFailMax
  Overlap       \* may a client start a ReLoginReq while an earlier one is
                \* still in the server's handshake?

ASSUME NoneAssumption == None \notin Conns \cup Players
ASSUME FailMaxAssumption == FailMax \in Nat \ {0}
ASSUME OverlapAssumption == Overlap \in BOOLEAN

VARIABLES
  sess,       \* sess[p]: the fields of p's Session that the match uses
  armed,      \* room.MatchClockArmed
  timers,     \* <<p, g>>: time.AfterFunc(ttl, expireMatchHold(p, g)) pending
  pc,         \* pc[c]: the next section of the handler goroutine of c
  owner,      \* owner[c]: the player whose GUID c carries
  transient,  \* connections with connState.playing set
  detached,   \* connections with connState.detached set
  stale,      \* stale[c]: transports c's takeover still has to mark and close
  current,    \* current[p]: the newest connection p's client opened
  lobby,      \* players whose lobby connection is up
  quit        \* players whose client left the match on purpose

sessionVars == <<sess, armed, timers>>
clientVars  == <<current, lobby, quit>>
vars == <<sess, armed, timers, pc, owner, transient, detached, stale,
          current, lobby, quit>>

Session ==
  [member  : BOOLEAN,              \* in room.Members, and s.Room = room
   playing : BOOLEAN,              \* MatchPlaying
   loading : BOOLEAN,              \* MatchLoading
   hold    : BOOLEAN,              \* MatchHold
   overdue : BOOLEAN,              \* now >= MatchHoldUntil
   await   : BOOLEAN,              \* MatchAwaitResumePing
   gen     : Nat,                  \* matchHoldGeneration
   pending : Conns \cup {None},    \* matchResumePending
   gs      : SUBSET Conns,         \* GSConns
   fails   : Nat,                  \* SoftResumeFails
   fresh   : BOOLEAN,              \* softResumeAt set, inside its window
   cooling : BOOLEAN]              \* softFailAt younger than the cooldown

Stages ==
  {"unused", "live", "arming", "nohold", "retire", "reclaim", "claimed",
   "refused", "accepted", "acked", "resumed", "eof", "detach", "disarm",
   "closed"}

TypeOK ==
  /\ sess \in [Players -> Session]
  /\ armed \in BOOLEAN
  /\ timers \subseteq Players \X Nat
  /\ pc \in [Conns -> Stages]
  /\ owner \in [Conns -> Players \cup {None}]
  /\ \A c \in Conns : pc[c] # "unused" => owner[c] \in Players
  /\ transient \subseteq Conns
  /\ detached \subseteq Conns
  /\ stale \in [Conns -> SUBSET Conns]
  /\ current \in [Players -> Conns]
  /\ lobby \subseteq Players
  /\ quit \subseteq Players

-----------------------------------------------------------------------------
(* Helpers on one session record, each under s.mu.                         *)

\* Mutants: a generation that runs backwards, a claim that is not forgotten.
GenBackwards(s) ==
  [s EXCEPT !.gen = @ - 1, !.hold = FALSE, !.overdue = FALSE, !.pending = None]
ClaimKept(s) ==
  [s EXCEPT !.gen = @ + 1, !.hold = FALSE, !.overdue = FALSE]

\* clearMatchHoldLocked
ClearHold(s) ==
  [s EXCEPT !.gen = @ + 1, !.hold = FALSE, !.overdue = FALSE, !.pending = None]

\* The hold that DetachGSForDisconnect and TakeoverMatchSession both write:
\* a new generation and deadline, and every playing latch cleared.
Reserve(s) ==
  [s EXCEPT !.gen = @ + 1, !.hold = TRUE, !.overdue = FALSE, !.await = FALSE,
            !.playing = FALSE, !.loading = FALSE]

\* Mutant: the callback captures the generation before it is incremented.
TimerOfOldGen(p) == <<p, sess[p].gen>>

\* The AfterFunc armed with the new hold carries the hold's own generation.
HoldTimer(p) == <<p, sess[p].gen + 1>>

\* MarkGSLeave, and the last disconnect of a session that gets no hold.
\* MatchAwaitResumePing and the soft-fail counters survive.
Idle(s) == [ClearHold(s) EXCEPT !.playing = FALSE, !.loading = FALSE]

\* expireMatchHold, LeaveRoom and resetRoomStateLocked on the leaving session.
Vacate(s) == [Idle(s) EXCEPT !.member = FALSE]

\* detachGSLocked of c, and c's claim with it.
Drop(s, c) ==
  [s EXCEPT !.gs = @ \ {c}, !.pending = IF @ = c THEN None ELSE @]

\* What a claim by c does to the held session: the hold itself stays set.
Claim(s, c) ==
  [s EXCEPT !.pending = c, !.gs = @ \cup {c}, !.playing = FALSE, !.loading = FALSE]

\* The resumed session: it plays again but stays frozen until its first op3.
Resume(s) ==
  [ClearHold(s) EXCEPT !.playing = TRUE, !.loading = FALSE, !.await = TRUE]

\* Mutant: only playing members keep the clock, as before 2026-09-18.
AlivePlaying(ss) == \E p \in Players : ss[p].member /\ ss[p].playing

\* Any room member that is playing or held (sendFrames and DisarmIfIdle).
Alive(ss) == \E p \in Players :
               ss[p].member /\ (ss[p].playing \/ ss[p].hold)

\* The clock after member p left: the observer disarms a destroyed room.
ArmedAfterLeave(p) == armed /\ \E q \in Players \ {p} : sess[q].member

LeaveEffect(p) ==
  /\ sess' = [sess EXCEPT ![p] = Vacate(@)]
  /\ armed' = ArmedAfterLeave(p)

At(c, from, to) == pc[c] = from /\ pc' = [pc EXCEPT ![c] = to]

-----------------------------------------------------------------------------
(* A live connection serves packets (handlePkt).                           *)

\* op9/0x2003: connState.playing, SetMatchPlaying and SetMatchLoading; the
\* clock is armed in a section of its own.  A client sends it once, after
\* its LoadMap, on the connection it uses.
StartPlay(c) ==
  LET p == owner[c] IN
  /\ At(c, "live", "arming")
  /\ c = current[p] /\ sess[p].loading
  /\ sess' = [sess EXCEPT ![p] = [@ EXCEPT !.playing = TRUE, !.loading = FALSE]]
  /\ transient' = transient \cup {c}
  /\ UNCHANGED <<armed, timers, owner, detached, stale, clientVars>>

\* clock.Arm, skipped when the session has no room any more.
Arm(c) ==
  /\ At(c, "arming", "live")
  /\ armed' = (armed \/ sess[owner[c]].member)
  /\ UNCHANGED <<sess, timers, owner, transient, detached, stale, clientVars>>

\* op3: NoteSoftResumeStable (replayMatchResume ends in it too).  Bytes that
\* were read before a takeover closed the socket are still served.
Ping(c) ==
  LET p == owner[c] IN
  /\ pc[c] = "live"
  /\ sess[p].await
  /\ sess' = [sess EXCEPT ![p] =
       [@ EXCEPT !.await = FALSE, !.fails = 0, !.fresh = FALSE]]
  /\ UNCHANGED <<armed, timers, pc, owner, transient, detached, stale, clientVars>>

\* op9/0x3001: the connection's latches and MarkGSLeave.  The session stays a
\* room member, and MatchAwaitResumePing keeps its value.
LeaveGS(c) ==
  LET p == owner[c] IN
  /\ pc[c] = "live"
  /\ c = current[p] /\ p \notin quit
  /\ transient' = transient \ {c}
  /\ sess' = [sess EXCEPT ![p] = Idle(@)]
  /\ quit' = quit \cup {p}
  /\ UNCHANGED <<armed, timers, pc, owner, detached, stale, current, lobby>>

-----------------------------------------------------------------------------
(* The deferred disconnect path of Handle, after EOF or a failed ReLogin.  *)

\* Where the goroutine goes when it returns: `detached` is read first.
Unwind(c) == IF c \in detached THEN "closed" ELSE "eof"

\* Read fails: the peer closed, keepalive gave up, or a takeover closed it.
EOF(c) ==
  /\ At(c, "live", Unwind(c))
  /\ UNCHANGED <<sessionVars, owner, transient, detached, stale, clientVars>>

\* An EOF shortly after a ReLoginAck is a failed soft resume.
CountEOF(s) ==
  IF s.fresh
    THEN [s EXCEPT !.fails = @ + 1, !.fresh = FALSE, !.cooling = TRUE]
    ELSE s

NoteSoftResumeEOF(c) ==
  /\ At(c, "eof", "detach")
  /\ sess' = [sess EXCEPT ![owner[c]] = CountEOF(@)]
  /\ UNCHANGED <<armed, timers, owner, transient, detached, stale, clientVars>>

LastTransport(c) == sess[owner[c]].gs \subseteq {c}

\* A hold needs a seated session, and either a transport that was playing on
\* a session that is, or the transport whose ReLogin claim is pending.
HoldEligible(c) ==
  LET s == sess[owner[c]] IN
  s.member /\ (s.pending = c \/ (c \in transient /\ s.playing))

\* DetachGSForDisconnect: not the last transport, into a hold, or for good.
DetachGS(c) ==
  LET p == owner[c] IN
  /\ pc[c] = "detach"
  /\ \/ /\ ~LastTransport(c)
        /\ sess' = [sess EXCEPT ![p].gs = @ \ {c}]
        /\ timers' = timers
        /\ pc' = [pc EXCEPT ![c] = "closed"]
     \/ /\ LastTransport(c) /\ HoldEligible(c)
        /\ sess' = [sess EXCEPT ![p] = Reserve(Drop(@, c))]
        /\ timers' = timers \cup {HoldTimer(p)}
        /\ pc' = [pc EXCEPT ![c] = "closed"]
     \/ /\ LastTransport(c) /\ ~HoldEligible(c)
        /\ sess' = [sess EXCEPT ![p] = Idle(Drop(@, c))]
        /\ timers' = timers
        /\ pc' = [pc EXCEPT ![c] = IF sess[p].member THEN "disarm" ELSE "closed"]
  /\ UNCHANGED <<armed, owner, transient, detached, stale, clientVars>>

\* DisarmIfIdle, after a last transport that left no hold behind.
DisarmIfIdle(c) ==
  /\ At(c, "disarm", "closed")
  /\ armed' = (armed /\ Alive(sess))
  /\ UNCHANGED <<sess, timers, owner, transient, detached, stale, clientVars>>

-----------------------------------------------------------------------------
(* handleReLogin: the first packet of a new connection is op9/4.           *)

Handshaking == {"nohold", "retire", "reclaim", "claimed", "refused",
                "accepted", "acked", "resumed"}

\* Mutant: the claim does not look whether the seat is held.
Unheld(p) == sess[p].member /\ armed

Claimable(p) == sess[p].member /\ sess[p].hold /\ armed

\* ClaimMatchHold by c, with the handler's next section when there is no hold.
\* It calls expireMatchHold itself on an overdue hold: one more callback.
ClaimMatchHold(c, p, nohold) ==
  \/ /\ Claimable(p) /\ ~sess[p].overdue
     /\ sess' = [sess EXCEPT ![p] = Claim(@, c)]
     /\ timers' = timers
     /\ pc' = [pc EXCEPT ![c] = "claimed"]
  \/ /\ Claimable(p) /\ sess[p].overdue
     /\ timers' = timers \cup {<<p, sess[p].gen>>}
     /\ sess' = sess
     /\ pc' = [pc EXCEPT ![c] = "closed"]
  \/ /\ ~Claimable(p)
     /\ UNCHANGED <<sess, timers>>
     /\ pc' = [pc EXCEPT ![c] = nohold]

\* A client that has not left opens a new connection and asks for its seat,
\* whether or not the server has noticed that the old transport is dead.
ReLogin(c, p) ==
  /\ pc[c] = "unused"
  /\ p \notin quit
  /\ Overlap \/ pc[current[p]] \notin Handshaking
  /\ owner' = [owner EXCEPT ![c] = p]
  /\ current' = [current EXCEPT ![p] = c]
  /\ ClaimMatchHold(c, p, "nohold")
  /\ UNCHANGED <<armed, transient, detached, stale, lobby, quit>>

\* The owner is in the match, still attached through a dead socket.
LiveOwner(p) ==
  /\ sess[p].member /\ armed /\ ~sess[p].hold
  /\ sess[p].playing \/ sess[p].await
  /\ sess[p].gs # {}

\* TakeoverMatchSession reserves the seat now, or the ReLogin is rejected.
TakeoverMatchSession(c) ==
  LET p == owner[c] IN
  /\ pc[c] = "nohold"
  /\ \/ /\ LiveOwner(p)
        /\ stale' = [stale EXCEPT ![c] = sess[p].gs]
        /\ sess' = [sess EXCEPT ![p] = Reserve([@ EXCEPT !.gs = {}, !.pending = None])]
        /\ timers' = timers \cup {HoldTimer(p)}
        /\ pc' = [pc EXCEPT ![c] = "retire"]
     \/ /\ ~LiveOwner(p)
        /\ pc' = [pc EXCEPT ![c] = "closed"]
        /\ UNCHANGED <<stale, sess, timers>>
  /\ UNCHANGED <<armed, owner, transient, detached, clientVars>>

\* Mutant: the stale transport is closed without being marked.
RetireUnmarked(c) ==
  /\ pc[c] = "retire"
  /\ \E d \in stale[c] :
       /\ stale' = [stale EXCEPT ![c] = @ \ {d}]
       /\ pc' = [pc EXCEPT ![c] = IF stale[c] = {d} THEN "reclaim" ELSE "retire"]
  /\ UNCHANGED <<sessionVars, owner, transient, detached, clientVars>>

\* One stale transport is marked detached and closed: its read will fail.
Retire(c) ==
  /\ pc[c] = "retire"
  /\ \E d \in stale[c] :
       /\ detached' = detached \cup {d}
       /\ stale' = [stale EXCEPT ![c] = @ \ {d}]
       /\ pc' = [pc EXCEPT ![c] = IF stale[c] = {d} THEN "reclaim" ELSE "retire"]
  /\ UNCHANGED <<sessionVars, owner, transient, clientVars>>

\* The second ClaimMatchHold, which is not followed by another takeover.
Reclaim(c) ==
  /\ pc[c] = "reclaim"
  /\ ClaimMatchHold(c, owner[c], "closed")
  /\ UNCHANGED <<armed, owner, transient, detached, stale, clientVars>>

\* SoftResumeRefuse: refuse while FailMax quick EOFs are younger than the
\* cooldown, and start counting again once they are not.
SoftResumeRefuse(c) ==
  LET p == owner[c]
      looping == sess[p].fails >= FailMax
  IN
  /\ pc[c] = "claimed"
  /\ \/ /\ looping /\ sess[p].cooling
        /\ pc' = [pc EXCEPT ![c] = "refused"]
        /\ sess' = sess
     \/ /\ looping /\ ~sess[p].cooling
        /\ pc' = [pc EXCEPT ![c] = "accepted"]
        /\ sess' = [sess EXCEPT ![p].fails = 0]
     \/ /\ ~looping
        /\ pc' = [pc EXCEPT ![c] = "accepted"]
        /\ sess' = sess
  /\ UNCHANGED <<armed, timers, owner, transient, detached, stale, clientVars>>

\* AbandonMatchResume, then the handler marks itself detached and returns.
AbandonMatchResume(c) ==
  LET p == owner[c] IN
  /\ At(c, "refused", "closed")
  /\ sess' = [sess EXCEPT ![p] = Drop(@, c)]
  /\ detached' = detached \cup {c}
  /\ UNCHANGED <<armed, timers, owner, transient, stale, clientVars>>

\* connState takes the session over and the ReLoginAck is written, or not.
ReLoginAck(c) ==
  /\ pc[c] = "accepted"
  /\ \E next \in {"acked", Unwind(c)} : pc' = [pc EXCEPT ![c] = next]
  /\ UNCHANGED <<sessionVars, owner, transient, detached, stale, clientVars>>

\* Mutant: the Ack alone completes the resume.
AckedOnly(c) == armed

\* The claim is still this connection's, attached, in the room and the match.
ClaimStands(c) ==
  LET s == sess[owner[c]] IN
  s.pending = c /\ s.member /\ armed /\ c \in s.gs

\* CompleteMatchResume, under room.mu and s.mu.
CompleteMatchResume(c) ==
  LET p == owner[c] IN
  /\ pc[c] = "acked"
  /\ \/ /\ ClaimStands(c)
        /\ sess' = [sess EXCEPT ![p] = Resume(@)]
        /\ pc' = [pc EXCEPT ![c] = "resumed"]
     \/ /\ ~ClaimStands(c)
        /\ pc' = [pc EXCEPT ![c] = Unwind(c)]
        /\ sess' = sess
  /\ UNCHANGED <<armed, timers, owner, transient, detached, stale, clientVars>>

\* connState.playing, then NoteSoftResumeAck starts the quick-EOF window.
NoteSoftResumeAck(c) ==
  /\ At(c, "resumed", "live")
  /\ transient' = transient \cup {c}
  /\ sess' = [sess EXCEPT ![owner[c]].fresh = TRUE]
  /\ UNCHANGED <<armed, timers, owner, detached, stale, clientVars>>

-----------------------------------------------------------------------------
(* Timers, the clock's idle check and the lobby.                           *)

\* TTL passes: from here ClaimMatchHold and the timer see the hold as over.
HoldDeadline(p) ==
  /\ sess[p].hold /\ ~sess[p].overdue
  /\ sess' = [sess EXCEPT ![p].overdue = TRUE]
  /\ UNCHANGED <<armed, timers, pc, owner, transient, detached, stale, clientVars>>

\* The callback of one AfterFunc.  A stale generation does nothing; the
\* current one runs once the deadline has passed and vacates the seat.
ExpireMatchHold(p, g) ==
  LET live == sess[p].hold /\ sess[p].gen = g IN
  /\ <<p, g>> \in timers
  /\ timers' = timers \ {<<p, g>>}
  /\ \/ live /\ sess[p].overdue /\ LeaveEffect(p)
     \/ ~live /\ UNCHANGED <<sess, armed>>
  /\ UNCHANGED <<pc, owner, transient, detached, stale, clientVars>>

AckWindowCloses(p) ==
  /\ sess[p].fresh
  /\ sess' = [sess EXCEPT ![p].fresh = FALSE]
  /\ UNCHANGED <<armed, timers, pc, owner, transient, detached, stale, clientVars>>

CooldownEnds(p) ==
  /\ sess[p].cooling
  /\ sess' = [sess EXCEPT ![p].cooling = FALSE]
  /\ UNCHANGED <<armed, timers, pc, owner, transient, detached, stale, clientVars>>

\* sendFrames of the room ticker disarms a clock with nobody playing or held.
IdleTick ==
  /\ armed /\ ~Alive(sess)
  /\ armed' = FALSE
  /\ UNCHANGED <<sess, timers, pc, owner, transient, detached, stale, clientVars>>

\* e02e on the lobby connection: LeaveRoom, voluntarily.
QuitRoom(p) ==
  /\ p \in lobby /\ sess[p].member
  /\ LeaveEffect(p)
  /\ quit' = quit \cup {p}
  /\ UNCHANGED <<timers, pc, owner, transient, detached, stale, current, lobby>>

\* session.Destroy on lobby EOF: a seat of a room in "match" is preserved, and
\* LeaveRoom has only the hold to clear for a session without a room.
LobbyEOF(p) ==
  /\ p \in lobby
  /\ lobby' = lobby \ {p}
  /\ sess' = [sess EXCEPT ![p] = IF @.member THEN @ ELSE ClearHold(@)]
  /\ UNCHANGED <<armed, timers, pc, owner, transient, detached, stale, current, quit>>

-----------------------------------------------------------------------------
Seated ==
  [member |-> TRUE, playing |-> FALSE, loading |-> TRUE, hold |-> FALSE,
   overdue |-> FALSE, await |-> FALSE, gen |-> 0, pending |-> None, gs |-> {},
   fails |-> 0, fresh |-> FALSE, cooling |-> FALSE]

\* Just after broadcastSharedLoadMap: each player on a connection of its own.
Init ==
  /\ current \in {f \in [Players -> Conns] :
                    \A p, q \in Players : f[p] = f[q] => p = q}
  /\ sess = [p \in Players |-> [Seated EXCEPT !.gs = {current[p]}]]
  /\ armed = FALSE
  /\ timers = {}
  /\ pc = [c \in Conns |-> IF \E p \in Players : current[p] = c
                             THEN "live" ELSE "unused"]
  /\ owner = [c \in Conns |-> IF \E p \in Players : current[p] = c
                                THEN CHOOSE p \in Players : current[p] = c
                                ELSE None]
  /\ transient = {}
  /\ detached = {}
  /\ stale = [c \in Conns |-> {}]
  /\ lobby = Players
  /\ quit = {}

Handler(c) ==
  \/ StartPlay(c) \/ Arm(c) \/ Ping(c) \/ LeaveGS(c)
  \/ EOF(c) \/ NoteSoftResumeEOF(c) \/ DetachGS(c) \/ DisarmIfIdle(c)
  \/ \E p \in Players : ReLogin(c, p)
  \/ TakeoverMatchSession(c) \/ Retire(c) \/ Reclaim(c)
  \/ SoftResumeRefuse(c) \/ AbandonMatchResume(c) \/ ReLoginAck(c)
  \/ CompleteMatchResume(c) \/ NoteSoftResumeAck(c)

Next ==
  \/ \E c \in Conns : Handler(c)
  \/ \E p \in Players :
       \/ HoldDeadline(p) \/ AckWindowCloses(p) \/ CooldownEnds(p)
       \/ QuitRoom(p) \/ LobbyEOF(p)
  \/ \E t \in timers : ExpireMatchHold(t[1], t[2])
  \/ IdleTick

\* Time passes and the runtime fires timers; nothing is assumed of clients,
\* the network or the handlers.
Fairness ==
  /\ \A p \in Players : WF_vars(HoldDeadline(p))
  /\ \A p \in Players : WF_vars(\E g \in {t[2] : t \in timers} : ExpireMatchHold(p, g))

Spec == Init /\ [][Next]_vars /\ Fairness

-----------------------------------------------------------------------------
(* Safety.                                                                 *)

\* A held seat is really reserved: its session is still a room member, is
\* neither playing nor loading nor waiting for the resume ping, and a timer of
\* its own generation is pending, so no seat can stay reserved for ever
\* (DetachGSForDisconnect, TakeoverMatchSession, expireMatchHold).
HoldIsReserved ==
  \A p \in Players : sess[p].hold =>
    /\ sess[p].member
    /\ ~sess[p].playing /\ ~sess[p].loading /\ ~sess[p].await
    /\ <<p, sess[p].gen>> \in timers

\* A claim is only ever pending on a live reservation, so CompleteMatchResume
\* never brings back a seat that expired, was left or was given up meanwhile.
ResumeNeedsHold ==
  \A p \in Players : sess[p].pending # None => sess[p].hold

\* The frame clock stays armed while anybody is held, whoever else drops,
\* quits or idles: ClaimMatchHold rejects every claim on a disarmed clock.
HeldKeepsClock ==
  \A p \in Players : sess[p].hold => armed

\* Transports and seats agree.  Newest connection wins: two live transports of
\* one player that would both run the in-match disconnect path exist only while
\* a takeover still has one of them on its list.  A playing session has a
\* transport, or no disconnect would ever reserve its seat or free it, and its
\* clock would tick for nobody.
TransportsFollowSeats ==
  /\ \A c, d \in {x \in transient \ detached : pc[x] = "live"} :
       owner[c] = owner[d] /\ c # d =>
         \E b \in Conns : c \in stale[b] \/ d \in stale[b]
  /\ \A p \in Players : sess[p].playing => sess[p].gs # {}

\* A client that left on purpose is never reserved or resumed again, even by
\* a ReLogin, takeover or timer that was already under way (LeaveRoom,
\* MarkGSLeave, and the comment of DetachGSForDisconnect).
QuitIsFinal ==
  [][\A p \in quit :
        ~sess[p].playing /\ ~sess[p].hold
          => ~sess'[p].playing /\ ~sess'[p].hold]_vars

\* Every reservation ends: it is resumed, given up, or vacated by its timer.
HoldResolves ==
  \A p \in Players : sess[p].hold ~> ~sess[p].hold

-----------------------------------------------------------------------------
(* The abstract view: one phase per seat.                                  *)

SeatPhase(s) ==
  CASE ~s.member            -> "vacant"
    [] s.member /\ s.hold    -> "reserved"
    [] s.member /\ s.playing /\ ~s.hold -> "playing"
    [] s.member /\ s.loading /\ ~s.hold /\ ~s.playing -> "loading"
    [] s.member /\ ~s.hold /\ ~s.playing /\ ~s.loading -> "idle"

Lifecycle == INSTANCE SeatLifecycle
               WITH seat <- [p \in Players |-> SeatPhase(sess[p])]

\* The whole machinery implements SeatLifecycle: seats resume only out of a
\* reservation, reserve only out of play, and never come back once given up.
SeatsFollowLifecycle == Lifecycle!Spec

-----------------------------------------------------------------------------
(* What the comments promise and the code does not keep.                   *)

\* "they must NOT run the disconnect path (that would clear the hold that was
\* just created)": a disconnecting transport never ends a reservation.
DisconnectKeepsHold ==
  [][\A c \in Conns : pc[c] = "detach" /\ pc'[c] # "detach" /\ sess[owner[c]].hold
        => sess'[owner[c]].hold]_vars
=============================================================================
