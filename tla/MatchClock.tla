----------------------------- MODULE MatchClock -----------------------------
(***************************************************************************)
(* The life of a room's frame clock: internal/match/clock.go with the      *)
(* dedicated ticker (config.FrameTicker).  StartPlay arms the clock and    *)
(* starts one owner goroutine; a closing game socket may disarm it; the    *)
(* last member to leave the room does; and the owner exits by itself when  *)
(* it finds the clock disarmed or nobody in the match.                     *)
(*                                                                         *)
(* The clock's state is spread over two locks, room.mu (MatchClockArmed    *)
(* and the frame counter) and Clock.mu (the maps armed and tickers), and   *)
(* Arm, Disarm and DisarmIfIdle take them one after the other.  One action *)
(* is one critical section.  The goroutine of p's game connection and the  *)
(* one that runs LeaveRoom for p (lobby or hold timer) are the workers     *)
(* <<"gs", p>> and <<"lobby", p>>.  Which connection of a player counts is *)
(* the subject of MatchHold; here each player has a phase.                 *)
(***************************************************************************)
EXTENDS Integers, FiniteSets

CONSTANTS
  Players,     \* the members when LoadMap was broadcast
  Tickers,     \* owner goroutines that may be started: a bound on restarts
  None,        \* no ticker registered
  MaxFrame     \* bound on the frame counter MatchSFrame

ASSUME PlayersAssumption == IsFiniteSet(Players)
ASSUME NoneAssumption == None \notin Tickers
ASSUME MaxFrameAssumption == MaxFrame \in Nat \ {0}

VARIABLES
  phase,      \* phase[p]: what p's Session says about the match
  lit,        \* room.MatchClockArmed
  sframe,     \* room.MatchSFrame
  anchored,   \* Clock.armed has an entry for the room
  entry,      \* the ticker in Clock.tickers[room], or None
  owner,      \* owner[t]: the next section of t's goroutine
  stopped,    \* tickers whose stop channel is closed
  pc,         \* pc[w]: the next section of worker w
  waitsFor    \* waitsFor[w]: the ticker whose done channel w waits for

clockVars == <<lit, sframe, anchored, entry>>
vars == <<phase, lit, sframe, anchored, entry, owner, stopped, pc, waitsFor>>

Workers == {"gs", "lobby"} \X Players

Phases == {"loading", "playing", "held", "idle", "left"}
OwnerStages == {"unborn", "select", "barrier", "send", "recheck", "exited"}
WorkerStages == {"live", "arm", "anchor", "start", "check", "unlight",
                 "forget", "unregister", "wait", "done"}

TypeOK ==
  /\ phase \in [Players -> Phases]
  /\ lit \in BOOLEAN
  /\ sframe \in 0..MaxFrame
  /\ anchored \in BOOLEAN
  /\ entry \in Tickers \cup {None}
  /\ owner \in [Tickers -> OwnerStages]
  /\ stopped \subseteq Tickers
  /\ pc \in [Workers -> WorkerStages]
  /\ waitsFor \in [Workers -> Tickers \cup {None}]

Members == {p \in Players : phase[p] # "left"}

\* Members that are playing or held (DisarmIfIdle, sendFrames).
Alive == {p \in Members : phase[p] \in {"playing", "held"}}

\* Mutant: a loading member is no barrier.
NoBarrier == TRUE

\* AllPlayersStarted: with two members or more, none of them is loading.
AllPlayersStarted ==
  Cardinality(Members) < 2 \/ \A p \in Members : phase[p] # "loading"

Running(t) == owner[t] \notin {"unborn", "exited"}

At(w, from, to) == pc[w] = from /\ pc' = [pc EXCEPT ![w] = to]

-----------------------------------------------------------------------------
(* Arm, by the handler of op9/0x2003.                                      *)

\* SetMatchPlaying(true), SetMatchLoading(false); the room is read here.
StartPlay(p) ==
  /\ At(<<"gs", p>>, "live", "arm")
  /\ phase[p] = "loading"
  /\ phase' = [phase EXCEPT ![p] = "playing"]
  /\ UNCHANGED <<clockVars, owner, stopped, waitsFor>>

\* Mutant: the restarted counter is one too low.
ArmBelow(p) ==
  /\ At(<<"gs", p>>, "arm", "anchor")
  /\ sframe' = IF lit THEN sframe ELSE -1
  /\ lit' = TRUE
  /\ UNCHANGED <<phase, anchored, entry, owner, stopped, waitsFor>>

\* room.mu: the counters restart only on a clock that was not armed.
Arm(p) ==
  /\ At(<<"gs", p>>, "arm", "anchor")
  /\ sframe' = IF lit THEN sframe ELSE 0
  /\ lit' = TRUE
  /\ UNCHANGED <<phase, anchored, entry, owner, stopped, waitsFor>>

\* Clock.mu: the entry in armed.
Anchor(p) ==
  /\ At(<<"gs", p>>, "anchor", "start")
  /\ anchored' = TRUE
  /\ UNCHANGED <<phase, lit, sframe, entry, owner, stopped, waitsFor>>

\* Mutant: a second StartPlay starts a second owner.
StartAgain(p) ==
  /\ At(<<"gs", p>>, "start", "live")
  /\ \E t \in Tickers :
       /\ owner[t] = "unborn"
       /\ entry' = t
       /\ owner' = [owner EXCEPT ![t] = "select"]
  /\ UNCHANGED <<phase, lit, sframe, anchored, stopped, waitsFor>>

\* Clock.mu: startTicker registers and starts an owner, unless there is one.
StartTicker(p) ==
  /\ At(<<"gs", p>>, "start", "live")
  /\ \/ /\ entry # None
        /\ UNCHANGED <<entry, owner>>
     \/ /\ entry = None
        /\ \E t \in Tickers :
             /\ owner[t] = "unborn"
             /\ entry' = t
             /\ owner' = [owner EXCEPT ![t] = "select"]
  /\ UNCHANGED <<phase, lit, sframe, anchored, stopped, waitsFor>>

-----------------------------------------------------------------------------
(* Players come and go.                                                    *)

\* op9/0x3001: MarkGSLeave.
LeaveGS(p) ==
  /\ pc[<<"gs", p>>] = "live"
  /\ phase[p] \in {"loading", "playing"}
  /\ phase' = [phase EXCEPT ![p] = "idle"]
  /\ UNCHANGED <<clockVars, owner, stopped, pc, waitsFor>>

\* The last game socket of p closes: a playing seat is reserved, any other
\* one is idle and its handler calls DisarmIfIdle if p is in the room.
EOF(p) ==
  /\ pc[<<"gs", p>>] = "live"
  /\ phase' = [phase EXCEPT ![p] =
       CASE @ = "playing"               -> "held"
         [] @ = "loading"               -> "idle"
         [] @ \notin {"playing", "loading"} -> @]
  /\ pc' = [pc EXCEPT ![<<"gs", p>>] =
       IF phase[p] \in {"loading", "idle"} THEN "check" ELSE "done"]
  /\ UNCHANGED <<clockVars, owner, stopped, waitsFor>>

\* CompleteMatchResume on a new connection: only while the clock is armed.
CompleteMatchResume(p) ==
  /\ At(<<"gs", p>>, "done", "live")
  /\ phase[p] = "held" /\ lit
  /\ phase' = [phase EXCEPT ![p] = "playing"]
  /\ UNCHANGED <<clockVars, owner, stopped, waitsFor>>

\* LeaveRoom by e02e or an expired hold.  The room-leave observer of the game
\* server disarms the clock of a room that nobody is left in.
LeaveRoom(p) ==
  /\ p \in Members
  /\ phase' = [phase EXCEPT ![p] = "left"]
  /\ pc' = [pc EXCEPT ![<<"lobby", p>>] =
              IF Members = {p} THEN "unlight" ELSE "done"]
  /\ UNCHANGED <<clockVars, owner, stopped, waitsFor>>

-----------------------------------------------------------------------------
(* Disarm and DisarmIfIdle.                                                *)

\* Mutant: only playing members keep the clock, as before held ones did.
CheckPlaying(w) ==
  /\ At(w, "check", IF \E p \in Members : phase[p] = "playing"
                      THEN "done" ELSE "forget")
  /\ lit' = (lit /\ \E p \in Members : phase[p] = "playing")
  /\ UNCHANGED <<phase, sframe, anchored, entry, owner, stopped, waitsFor>>

\* DisarmIfIdle under room.mu: nothing while somebody is playing or held.
DisarmIfIdle(w) ==
  /\ At(w, "check", IF Alive # {} THEN "done" ELSE "forget")
  /\ lit' = (lit /\ Alive # {})
  /\ UNCHANGED <<phase, sframe, anchored, entry, owner, stopped, waitsFor>>

\* Disarm under room.mu.
Disarm(w) ==
  /\ At(w, "unlight", "forget")
  /\ lit' = FALSE
  /\ UNCHANGED <<phase, sframe, anchored, entry, owner, stopped, waitsFor>>

\* Both go on under Clock.mu: delete(armed, room).
Forget(w) ==
  /\ At(w, "forget", "unregister")
  /\ anchored' = FALSE
  /\ UNCHANGED <<phase, lit, sframe, entry, owner, stopped, waitsFor>>

\* Mutant: the stop channel is never closed.
UnregisterOnly(w) ==
  /\ At(w, "unregister", IF entry = None THEN "done" ELSE "wait")
  /\ entry' = None
  /\ waitsFor' = [waitsFor EXCEPT ![w] = entry]
  /\ UNCHANGED <<phase, lit, sframe, anchored, owner, stopped>>

\* stopTicker takes the ticker out of the map and closes its stop channel.
StopTicker(w) ==
  /\ At(w, "unregister", IF entry = None THEN "done" ELSE "wait")
  /\ entry' = None
  /\ stopped' = stopped \cup ({entry} \ {None})
  /\ waitsFor' = [waitsFor EXCEPT ![w] = entry]
  /\ UNCHANGED <<phase, lit, sframe, anchored, owner>>

\* Its last line: <-rt.done.
AwaitDone(w) ==
  /\ At(w, "wait", "done")
  /\ owner[waitsFor[w]] = "exited"
  /\ waitsFor' = [waitsFor EXCEPT ![w] = None]
  /\ UNCHANGED <<phase, clockVars, owner, stopped>>

-----------------------------------------------------------------------------
(* The owner goroutine: select, then tickOnce.                             *)

Goes(t, to) == owner' = [owner EXCEPT ![t] = to]

\* A tick: Clock.armed first, and the owner of a forgotten room exits.
Tick(t) ==
  /\ owner[t] = "select"
  /\ Goes(t, IF anchored THEN "barrier" ELSE "exited")
  /\ UNCHANGED <<phase, clockVars, stopped, pc, waitsFor>>

\* The select picks the closed stop channel instead.
Stop(t) ==
  /\ owner[t] = "select" /\ t \in stopped
  /\ Goes(t, "exited")
  /\ UNCHANGED <<phase, clockVars, stopped, pc, waitsFor>>

Barrier(t) ==
  /\ owner[t] = "barrier"
  /\ Goes(t, IF AllPlayersStarted THEN "send" ELSE "select")
  /\ UNCHANGED <<phase, clockVars, stopped, pc, waitsFor>>

\* Mutant: an idle room is skipped and its clock left armed.
SendToNobody(t) ==
  /\ owner[t] = "send"
  /\ Goes(t, "recheck")
  /\ sframe' = IF lit /\ Alive # {} /\ sframe < MaxFrame THEN sframe + 1 ELSE sframe
  /\ UNCHANGED <<phase, lit, anchored, entry, stopped, pc, waitsFor>>

\* sendFrames under room.mu: number a frame, or disarm an idle room.
SendFrames(t) ==
  /\ owner[t] = "send"
  /\ Goes(t, "recheck")
  /\ lit' = (lit /\ Alive # {})
  /\ sframe' = IF lit' /\ sframe < MaxFrame THEN sframe + 1 ELSE sframe
  /\ UNCHANGED <<phase, anchored, entry, stopped, pc, waitsFor>>

\* tickOnce ends by asking whether the room is still armed.
Recheck(t) ==
  /\ owner[t] = "recheck"
  /\ Goes(t, IF lit THEN "select" ELSE "exited")
  /\ UNCHANGED <<phase, clockVars, stopped, pc, waitsFor>>

-----------------------------------------------------------------------------
\* Just after broadcastSharedLoadMap.
Init ==
  /\ phase = [p \in Players |-> "loading"]
  /\ lit = FALSE /\ sframe = 0 /\ anchored = FALSE
  /\ entry = None
  /\ owner = [t \in Tickers |-> "unborn"]
  /\ stopped = {}
  /\ pc = [w \in Workers |-> IF w[1] = "gs" THEN "live" ELSE "done"]
  /\ waitsFor = [w \in Workers |-> None]

Starting(p) == Arm(p) \/ Anchor(p) \/ StartTicker(p)
Stopping(w) == DisarmIfIdle(w) \/ Disarm(w) \/ Forget(w) \/ StopTicker(w) \/ AwaitDone(w)
Owning(t) == Tick(t) \/ Barrier(t) \/ SendFrames(t) \/ Recheck(t)

Next ==
  \/ \E p \in Players :
       \/ StartPlay(p) \/ Starting(p)
       \/ LeaveGS(p) \/ EOF(p) \/ CompleteMatchResume(p) \/ LeaveRoom(p)
  \/ \E w \in Workers : Stopping(w)
  \/ \E t \in Tickers : Owning(t) \/ Stop(t)

\* Goroutines that can run do run, the ticker keeps ticking, and a select with
\* a closed stop channel does not pick the tick for ever.  Nothing is assumed
\* of players.
Fairness ==
  /\ \A p \in Players : WF_vars(Starting(p))
  /\ \A w \in Workers : WF_vars(Stopping(w))
  /\ \A t \in Tickers : WF_vars(Owning(t)) /\ SF_vars(Stop(t))

Spec == Init /\ [][Next]_vars /\ Fairness

-----------------------------------------------------------------------------
\* No owner goroutine escapes: a running one is the registered one, or the
\* one a stopTicker waits for ("frames must have exactly one source").
OwnersAreAccountedFor ==
  \A t \in Tickers : Running(t) =>
    entry = t \/ \E w \in Workers : pc[w] = "wait" /\ waitsFor[w] = t

\* The StartPlay barrier: no frame is numbered while a member of a shared
\* match still loads, however StartPlays, drops and leaves interleave with the
\* tick between AllPlayersStarted and sendFrames.
NoFrameWhileLoading ==
  [][sframe' > sframe =>
       Cardinality(Members) < 2 \/ \A p \in Members : phase[p] # "loading"]_vars

\* A held seat can be claimed: ClaimMatchHold demands an armed clock, so no
\* disconnect, leave or idle tick of the others disarms it under a hold.
HoldKeepsClockLit ==
  \A p \in Players : phase[p] = "held" => lit

\* No ghost clock: once nobody plays, is held, loads or is about to arm, every
\* owner exits, or somebody comes back.
GhostClockStops ==
  \A t \in Tickers :
    (Running(t) /\ \A p \in Players : phase[p] \in {"idle", "left"})
      ~> ~Running(t)

\* stopTicker comes back: the owner it waits for always reaches its exit.
StopTickerReturns ==
  \A w \in Workers : pc[w] = "wait" ~> pc[w] # "wait"
=============================================================================
