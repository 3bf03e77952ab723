-------------------------- MODULE MatchClockProofs --------------------------
(***************************************************************************)
(* Proofs about MatchClock, for any finite set of players, any number of   *)
(* owner goroutines and any frame counter: a running owner is registered   *)
(* or waited for, a held seat finds the clock armed, and no frame is       *)
(* numbered while a member still loads.                                    *)
(***************************************************************************)
EXTENDS MatchClock, FiniteSetTheorems, TLAPS

\* A session that plays or is held has an armed clock, but for the moment
\* between StartPlay's session update and Arm.
PlayingIsLit ==
  \A p \in Players :
    phase[p] \in {"playing", "held"} /\ pc[<<"gs", p>>] # "arm" => lit

\* A handler on the way to Arm belongs to a session that plays, or that
\* LeaveRoom has taken out meanwhile.
ArmersPlay ==
  \A p \in Players : pc[<<"gs", p>>] = "arm" => phase[p] \in {"playing", "left"}

\* LeaveRoom runs once for a member, and Disarm only when nobody is left.
LeaversAreGone ==
  \A p \in Players : p \in Members => pc[<<"lobby", p>>] = "done"
UnlightIsLast ==
  \A w \in Workers : pc[w] = "unlight" => Members = {}

\* An owner that has passed the barrier may go on: nobody comes back to loading.
BarrierHolds ==
  \A t \in Tickers : owner[t] = "send" => AllPlayersStarted

\* The inductive invariant.
IInv ==
  /\ TypeOK
  /\ OwnersAreAccountedFor
  /\ PlayingIsLit /\ ArmersPlay
  /\ LeaversAreGone /\ UnlightIsLast
  /\ BarrierHolds

-----------------------------------------------------------------------------
(* The barrier and the members.                                            *)

LEMMA MembersAreFinite ==
  ASSUME NEW S \in SUBSET Players
  PROVE  IsFiniteSet(S) /\ Cardinality(S) \in Nat
  BY PlayersAssumption, FS_Subset, FS_CardinalityType

\* The barrier stays open when members leave and nobody begins to load.
LEMMA BarrierStaysOpen ==
  ASSUME AllPlayersStarted, Members' \subseteq Members,
         \A p \in Members' : phase[p] # "loading" => phase'[p] # "loading"
  PROVE  AllPlayersStarted'
<1>1. Members \subseteq Players /\ Members' \subseteq Players
  BY DEF Members
<1>2. Cardinality(Members') <= Cardinality(Members)
  BY <1>1, MembersAreFinite, FS_Subset
<1>3. CASE Cardinality(Members) < 2
  BY <1>1, <1>2, <1>3, MembersAreFinite DEF AllPlayersStarted
<1>4. CASE \A p \in Members : phase[p] # "loading"
  BY <1>4 DEF AllPlayersStarted
<1> QED
  BY <1>3, <1>4 DEF AllPlayersStarted

LEMMA SamePhase ==
  ASSUME phase' = phase
  PROVE  Members' = Members /\ Alive' = Alive /\ AllPlayersStarted' = AllPlayersStarted
  BY DEF Members, Alive, AllPlayersStarted

\* What a step has to respect that touches neither the owners nor the tickers
\* registered or waited for.
LEMMA OwnersKept ==
  ASSUME OwnersAreAccountedFor, UNCHANGED <<entry, owner, waitsFor>>,
         \A w \in Workers : pc[w] = "wait" => pc'[w] = "wait"
  PROVE  OwnersAreAccountedFor'
  BY DEF OwnersAreAccountedFor, Running

-----------------------------------------------------------------------------
(* Players come and go.                                                    *)

LEMMA PlayerStep ==
  ASSUME IInv, NEW p \in Players,
         StartPlay(p) \/ LeaveGS(p) \/ EOF(p) \/ CompleteMatchResume(p)
  PROVE  IInv'
<1> DEFINE w == <<"gs", p>>
<1>1. w \in Workers /\ \A q \in Players : <<"lobby", q>> # w
  BY DEF Workers
<1>2. /\ UNCHANGED <<lit, sframe, anchored, entry, owner, stopped, waitsFor>>
      /\ \A v \in Workers \ {w} : pc'[v] = pc[v]
      /\ \A q \in Players \ {p} : phase'[q] = phase[q]
  BY <1>1 DEF StartPlay, LeaveGS, EOF, CompleteMatchResume, At, IInv, TypeOK, clockVars
<1>3. /\ pc[w] \in {"live", "done"} /\ pc'[w] \in {"live", "arm", "check", "done"}
      /\ phase'[p] \in Phases /\ phase'[p] # "loading"
      /\ phase'[p] = "left" <=> phase[p] = "left"
      /\ pc'[w] = "arm" => phase'[p] = "playing"
      /\ phase'[p] \in {"playing", "held"} /\ pc'[w] # "arm" => lit
  <2>1. CASE StartPlay(p)
    BY <1>1, <2>1 DEF StartPlay, At, IInv, TypeOK, Phases
  <2>2. CASE LeaveGS(p)
    BY <1>1, <2>2 DEF LeaveGS, IInv, TypeOK, Phases
  <2>3. CASE EOF(p)
    BY <1>1, <2>3 DEF EOF, IInv, TypeOK, Phases, PlayingIsLit
  <2>4. CASE CompleteMatchResume(p)
    BY <1>1, <2>4 DEF CompleteMatchResume, At, IInv, TypeOK, Phases
  <2> QED
    BY <2>1, <2>2, <2>3, <2>4
<1>4. Members' = Members
  BY <1>2, <1>3 DEF Members
<1>5. TypeOK'
  <2>1. phase' \in [Players -> Phases]
    <3>1. \E x \in Phases : phase' = [phase EXCEPT ![p] = x]
      BY <1>3 DEF StartPlay, LeaveGS, EOF, CompleteMatchResume, IInv, TypeOK
    <3> QED
      BY <3>1 DEF IInv, TypeOK
  <2>2. pc' \in [Workers -> WorkerStages]
    BY <1>1 DEF StartPlay, LeaveGS, EOF, CompleteMatchResume, At, IInv, TypeOK, WorkerStages
  <2> QED
    BY <1>2, <2>1, <2>2 DEF IInv, TypeOK
<1>6. OwnersAreAccountedFor'
  BY <1>1, <1>2, <1>3, OwnersKept DEF IInv
<1> HIDE DEF w
<1>7. PlayingIsLit' /\ ArmersPlay'
  <2> SUFFICES ASSUME NEW q \in Players
               PROVE  /\ phase'[q] \in {"playing", "held"} /\ pc'[<<"gs", q>>] # "arm" => lit
                      /\ pc'[<<"gs", q>>] = "arm" => phase'[q] \in {"playing", "left"}
    BY <1>2 DEF PlayingIsLit, ArmersPlay
  <2>1. CASE q = p
    BY <1>3, <2>1 DEF w
  <2>2. CASE q # p
    <3>1. <<"gs", q>> \in Workers \ {w}
      BY <2>2 DEF Workers, w
    <3> QED
      BY <1>2, <2>2, <3>1 DEF IInv, PlayingIsLit, ArmersPlay
  <2> QED
    BY <2>1, <2>2
<1>8. LeaversAreGone'
  <2>1. \A q \in Players : <<"lobby", q>> \in Workers \ {w}
    BY <1>1 DEF Workers
  <2> QED
    BY <1>2, <1>4, <2>1 DEF IInv, LeaversAreGone
<1>9. UnlightIsLast'
  BY <1>2, <1>3, <1>4 DEF IInv, UnlightIsLast
<1>10. BarrierHolds'
  <2>1. \A q \in Members' : phase[q] # "loading" => phase'[q] # "loading"
    BY <1>2, <1>3 DEF Members
  <2> QED
    BY <1>2, <1>4, <2>1, BarrierStaysOpen DEF IInv, BarrierHolds
<1> QED
  BY <1>5, <1>6, <1>7, <1>8, <1>9, <1>10 DEF IInv

\* LeaveRoom takes its member out for good; the last one is to disarm.
LEMMA LeaveRoomStep ==
  ASSUME IInv, NEW p \in Players, LeaveRoom(p)
  PROVE  IInv'
<1> DEFINE w == <<"lobby", p>>
<1>1. w \in Workers /\ \A q \in Players : <<"gs", q>> # w
  BY DEF Workers
<1>2. /\ UNCHANGED <<lit, sframe, anchored, entry, owner, stopped, waitsFor>>
      /\ \A v \in Workers \ {w} : pc'[v] = pc[v]
      /\ \A q \in Players \ {p} : phase'[q] = phase[q]
      /\ phase'[p] = "left" /\ pc[w] = "done"
      /\ pc'[w] = IF Members = {p} THEN "unlight" ELSE "done"
  BY <1>1 DEF LeaveRoom, IInv, TypeOK, LeaversAreGone, clockVars
<1>3. Members' = Members \ {p}
  BY <1>2 DEF Members
<1>4. TypeOK'
  BY DEF LeaveRoom, IInv, TypeOK, clockVars, Phases, WorkerStages
<1>5. OwnersAreAccountedFor'
  BY <1>1, <1>2, OwnersKept DEF IInv
<1> HIDE DEF w
<1>6. PlayingIsLit' /\ ArmersPlay'
  <2> SUFFICES ASSUME NEW q \in Players
               PROVE  /\ phase'[q] \in {"playing", "held"} /\ pc'[<<"gs", q>>] # "arm" => lit
                      /\ pc'[<<"gs", q>>] = "arm" => phase'[q] \in {"playing", "left"}
    BY <1>2 DEF PlayingIsLit, ArmersPlay
  <2>1. <<"gs", q>> \in Workers \ {w}
    BY <1>1 DEF Workers
  <2> QED
    BY <1>2, <2>1 DEF IInv, PlayingIsLit, ArmersPlay
<1>7. LeaversAreGone'
  <2>1. \A q \in Players \ {p} : <<"lobby", q>> \in Workers \ {w}
    BY DEF Workers, w
  <2> QED
    BY <1>2, <1>3, <2>1 DEF IInv, LeaversAreGone
<1>8. UnlightIsLast'
  BY <1>2, <1>3 DEF IInv, UnlightIsLast
<1>9. BarrierHolds'
  <2>1. \A q \in Members' : phase[q] # "loading" => phase'[q] # "loading"
    BY <1>2 DEF Members
  <2> QED
    BY <1>2, <1>3, <2>1, BarrierStaysOpen DEF IInv, BarrierHolds
<1> QED
  BY <1>4, <1>5, <1>6, <1>7, <1>8, <1>9 DEF IInv

-----------------------------------------------------------------------------
(* Arm, Disarm, DisarmIfIdle.                                              *)

\* A worker's step that leaves the owners alone and keeps the clock lit for
\* whoever needs it.
LEMMA WorkerStep ==
  ASSUME IInv, NEW w \in Workers, TypeOK', phase' = phase,
         OwnersAreAccountedFor',
         \A t \in Tickers : owner'[t] = "send" => owner[t] = "send",
         \A v \in Workers \ {w} : pc'[v] = pc[v],
         pc[w] # "done", pc'[w] \notin {"arm", "unlight"},
         w[1] = "gs" => pc[w] # "live",
         lit' \/ (~lit /\ pc[w] # "arm") \/ Alive = {}
  PROVE  IInv'
<1>1. Members' = Members /\ AllPlayersStarted' = AllPlayersStarted
  BY SamePhase
<1>2. PlayingIsLit'
  <2> SUFFICES ASSUME NEW q \in Players, phase[q] \in {"playing", "held"},
                      pc'[<<"gs", q>>] # "arm"
               PROVE  lit'
    BY DEF PlayingIsLit
  <2>1. <<"gs", q>> \in Workers /\ q \in Alive
    BY DEF Workers, Alive, Members
  <2> QED
    BY <2>1 DEF IInv, PlayingIsLit
<1>3. ArmersPlay'
  <2>1. \A q \in Players : <<"gs", q>> \in Workers
    BY DEF Workers
  <2> QED
    BY <2>1 DEF IInv, ArmersPlay
<1>4. LeaversAreGone'
  <2>1. \A q \in Players : <<"lobby", q>> \in Workers
    BY DEF Workers
  <2> QED
    BY <1>1, <2>1 DEF IInv, LeaversAreGone
<1>5. UnlightIsLast' /\ BarrierHolds'
  BY <1>1 DEF IInv, UnlightIsLast, BarrierHolds
<1> QED
  BY <1>2, <1>3, <1>4, <1>5 DEF IInv

LEMMA StartingStep ==
  ASSUME IInv, NEW p \in Players, Starting(p)
  PROVE  IInv'
<1> DEFINE w == <<"gs", p>>
<1>1. w \in Workers /\ w[1] = "gs"
  BY DEF Workers
<1>2. /\ pc[w] \in {"arm", "anchor", "start"}
      /\ pc'[w] \in {"anchor", "start", "live"}
      /\ \A v \in Workers \ {w} : pc'[v] = pc[v]
      /\ pc' \in [Workers -> WorkerStages]
      /\ phase' = phase /\ waitsFor' = waitsFor /\ stopped' = stopped
  BY <1>1 DEF Starting, Arm, Anchor, StartTicker, At, IInv, TypeOK, WorkerStages
<1>3. lit' \/ (~lit /\ pc[w] # "arm")
  BY DEF Starting, Arm, Anchor, StartTicker, At, IInv, TypeOK
<1>4. \/ UNCHANGED <<entry, owner>>
      \/ /\ entry = None
         /\ \E t \in Tickers :
              owner[t] = "unborn" /\ entry' = t /\ owner' = [owner EXCEPT ![t] = "select"]
  BY DEF Starting, Arm, Anchor, StartTicker
<1>5. TypeOK'
  <2>1. lit' \in BOOLEAN /\ anchored' \in BOOLEAN
    BY DEF Starting, Arm, Anchor, StartTicker, IInv, TypeOK
  <2>2. sframe' \in 0 .. MaxFrame
    <3>1. sframe' = sframe \/ sframe' = 0
      BY DEF Starting, Arm, Anchor, StartTicker
    <3> QED
      BY <3>1, MaxFrameAssumption DEF IInv, TypeOK
  <2>3. entry' \in Tickers \cup {None} /\ owner' \in [Tickers -> OwnerStages]
    BY <1>4 DEF IInv, TypeOK, OwnerStages
  <2> QED
    BY <1>2, <2>1, <2>2, <2>3 DEF IInv, TypeOK
<1> HIDE DEF w
<1>6. OwnersAreAccountedFor'
  BY <1>2, <1>4, NoneAssumption DEF IInv, TypeOK, OwnersAreAccountedFor, Running
<1>7. \A t \in Tickers : owner'[t] = "send" => owner[t] = "send"
  BY <1>4 DEF IInv, TypeOK
<1> QED
  BY <1>1, <1>2, <1>3, <1>5, <1>6, <1>7, WorkerStep

LEMMA StoppingStep ==
  ASSUME IInv, NEW w \in Workers, Stopping(w)
  PROVE  IInv'
<1>1. /\ pc[w] \in {"check", "unlight", "forget", "unregister", "wait"}
      /\ pc'[w] \in {"done", "forget", "unregister", "wait"}
      /\ \A v \in Workers \ {w} : pc'[v] = pc[v]
      /\ pc' \in [Workers -> WorkerStages]
      /\ phase' = phase /\ owner' = owner
  BY DEF Stopping, DisarmIfIdle, Disarm, Forget, StopTicker, AwaitDone, At, clockVars,
     IInv, TypeOK, WorkerStages
<1>2. TypeOK'
  <2>1. lit' \in BOOLEAN /\ anchored' \in BOOLEAN /\ sframe' = sframe
    BY DEF Stopping, DisarmIfIdle, Disarm, Forget, StopTicker, AwaitDone, clockVars,
       IInv, TypeOK
  <2>2. /\ entry' \in Tickers \cup {None} /\ stopped' \subseteq Tickers
        /\ waitsFor' \in [Workers -> Tickers \cup {None}]
    BY DEF Stopping, DisarmIfIdle, Disarm, Forget, StopTicker, AwaitDone, clockVars,
       IInv, TypeOK
  <2> QED
    BY <1>1, <2>1, <2>2 DEF IInv, TypeOK
<1>3. lit' \/ (~lit /\ pc[w] # "arm") \/ Alive = {}
  <2>1. CASE DisarmIfIdle(w)
    BY <1>1, <2>1 DEF DisarmIfIdle
  <2>2. CASE Disarm(w)
    BY <2>2 DEF Disarm, At, IInv, UnlightIsLast, Alive
  <2> QED
    BY <1>1, <2>1, <2>2 DEF Stopping, Forget, StopTicker, AwaitDone, clockVars, IInv, TypeOK
<1>4. OwnersAreAccountedFor'
  <2>1. CASE DisarmIfIdle(w) \/ Disarm(w) \/ Forget(w)
    <3>1. UNCHANGED <<entry, waitsFor>> /\ pc[w] # "wait"
      BY <2>1 DEF DisarmIfIdle, Disarm, Forget, At
    <3> QED
      BY <1>1, <3>1, OwnersKept DEF IInv
  <2>2. CASE StopTicker(w)
    <3>1. /\ pc[w] = "unregister" /\ waitsFor'[w] = entry
          /\ entry # None => pc'[w] = "wait"
          /\ \A v \in Workers \ {w} : waitsFor'[v] = waitsFor[v]
      BY <2>2 DEF StopTicker, At, IInv, TypeOK
    <3> QED
      BY <1>1, <3>1, NoneAssumption DEF IInv, OwnersAreAccountedFor, Running
  <2>3. CASE AwaitDone(w)
    <3>1. /\ owner[waitsFor[w]] = "exited" /\ entry' = entry
          /\ \A v \in Workers \ {w} : waitsFor'[v] = waitsFor[v]
      BY <2>3 DEF AwaitDone, IInv, TypeOK, clockVars
    <3> QED
      BY <1>1, <3>1 DEF IInv, OwnersAreAccountedFor, Running
  <2> QED
    BY <2>1, <2>2, <2>3 DEF Stopping
<1> QED
  BY <1>1, <1>2, <1>3, <1>4, WorkerStep

-----------------------------------------------------------------------------
(* The owner goroutine.                                                    *)

\* Owners never come back to life, pass the barrier only when it is open, and
\* disarm only a room in which nobody plays or is held.
LEMMA OwnerStep ==
  ASSUME IInv, NEW t \in Tickers, Owning(t) \/ Stop(t)
  PROVE  IInv'
<1>1. /\ UNCHANGED <<phase, anchored, entry, stopped, pc, waitsFor>>
      /\ Running(t)
      /\ \E x \in OwnerStages :
           /\ owner' = [owner EXCEPT ![t] = x]
           /\ x = "send" => AllPlayersStarted
  BY DEF Owning, Stop, Tick, Barrier, SendFrames, Recheck, Goes, Running, OwnerStages,
     clockVars
<1>2. /\ lit' \in BOOLEAN /\ sframe' \in 0 .. MaxFrame
      /\ lit => lit' \/ Alive = {}
  <2>1. CASE SendFrames(t)
    <3>1. /\ lit' \in BOOLEAN
          /\ lit => lit' \/ Alive = {}
      BY <2>1 DEF SendFrames
    <3>2. sframe' = sframe \/ (sframe < MaxFrame /\ sframe' = sframe + 1)
      BY <2>1 DEF SendFrames
    <3> QED
      BY <3>1, <3>2, MaxFrameAssumption DEF IInv, TypeOK
  <2>2. CASE lit' = lit /\ sframe' = sframe
    BY <2>2 DEF IInv, TypeOK
  <2> QED
    BY <2>1, <2>2 DEF Owning, Stop, Tick, Barrier, Recheck, clockVars
<1>3. TypeOK'
  BY <1>1, <1>2 DEF IInv, TypeOK
<1>4. OwnersAreAccountedFor'
  BY <1>1 DEF IInv, TypeOK, OwnersAreAccountedFor, Running
<1>5. Members' = Members /\ AllPlayersStarted' = AllPlayersStarted
  BY <1>1, SamePhase
<1>6. PlayingIsLit'
  BY <1>1, <1>2 DEF IInv, PlayingIsLit, Alive, Members
<1>7. ArmersPlay' /\ LeaversAreGone' /\ UnlightIsLast'
  BY <1>1, <1>5 DEF IInv, ArmersPlay, LeaversAreGone, UnlightIsLast
<1>8. BarrierHolds'
  BY <1>1, <1>5 DEF IInv, TypeOK, BarrierHolds
<1> QED
  BY <1>3, <1>4, <1>6, <1>7, <1>8 DEF IInv

-----------------------------------------------------------------------------
(* The theorems.                                                           *)

LEMMA InitIInv == Init => IInv
<1> SUFFICES ASSUME Init PROVE IInv
  OBVIOUS
<1>0. \A p \in Players : /\ <<"gs", p>> \in Workers /\ pc[<<"gs", p>>] = "live"
                         /\ <<"lobby", p>> \in Workers /\ pc[<<"lobby", p>>] = "done"
  <2> TAKE p \in Players
  <2>1. <<"gs", p>> \in Workers /\ <<"lobby", p>> \in Workers
    BY DEF Workers
  <2>2. <<"gs", p>>[1] = "gs" /\ <<"lobby", p>>[1] = "lobby"
    OBVIOUS
  <2> QED
    BY <2>1, <2>2 DEF Init
<1>1. TypeOK
  <2>1. /\ pc \in [Workers -> WorkerStages] /\ waitsFor \in [Workers -> Tickers \cup {None}]
        /\ owner \in [Tickers -> OwnerStages] /\ phase \in [Players -> Phases]
    BY DEF Init, Phases, OwnerStages, WorkerStages
  <2>2. lit \in BOOLEAN /\ anchored \in BOOLEAN
    BY DEF Init
  <2>3. sframe \in 0 .. MaxFrame /\ entry \in Tickers \cup {None} /\ stopped \subseteq Tickers
    BY MaxFrameAssumption DEF Init
  <2> QED
    BY <2>1, <2>2, <2>3 DEF TypeOK
<1>2. OwnersAreAccountedFor /\ BarrierHolds
  BY DEF Init, OwnersAreAccountedFor, Running, BarrierHolds
<1>3. PlayingIsLit /\ ArmersPlay /\ LeaversAreGone /\ UnlightIsLast
  BY <1>0 DEF Init, PlayingIsLit, ArmersPlay, LeaversAreGone, UnlightIsLast
<1> QED
  BY <1>1, <1>2, <1>3 DEF IInv

LEMMA NextIInv == IInv /\ [Next]_vars => IInv'
<1> SUFFICES ASSUME IInv, [Next]_vars PROVE IInv'
  OBVIOUS
<1>1. CASE Next
  BY <1>1, PlayerStep, LeaveRoomStep, StartingStep, StoppingStep, OwnerStep DEF Next
<1>2. CASE UNCHANGED vars
  <2>1. Members' = Members /\ AllPlayersStarted' = AllPlayersStarted
    BY <1>2, SamePhase DEF vars
  <2>2. TypeOK' /\ OwnersAreAccountedFor'
    BY <1>2 DEF IInv, vars, clockVars, TypeOK, OwnersAreAccountedFor, Running
  <2>3. PlayingIsLit' /\ ArmersPlay' /\ LeaversAreGone' /\ UnlightIsLast' /\ BarrierHolds'
    BY <1>2, <2>1 DEF IInv, vars, clockVars, PlayingIsLit, ArmersPlay, LeaversAreGone,
       UnlightIsLast, BarrierHolds
  <2> QED
    BY <2>2, <2>3 DEF IInv
<1> QED
  BY <1>1, <1>2

\* What the sections of Arm, Disarm, DisarmIfIdle and the owner rely on.
THEOREM Invariance == Spec => []IInv
  BY InitIInv, NextIInv, PTL DEF Spec

\* Every variable keeps its type, for any number of players and tickers.
THEOREM TypeCorrect == Spec => []TypeOK
<1>1. IInv => TypeOK
  BY DEF IInv
<1> QED
  BY <1>1, Invariance, PTL

\* startTicker and stopTicker never lose an owner goroutine: a running one is
\* registered in Clock.tickers, or some stopTicker waits for it.
THEOREM OwnersTheorem == Spec => []OwnersAreAccountedFor
<1>1. IInv => OwnersAreAccountedFor
  BY DEF IInv
<1> QED
  BY <1>1, Invariance, PTL

\* While a seat is held the clock is armed, so that the hold can be claimed.
THEOREM HoldTheorem == Spec => []HoldKeepsClockLit
<1>1. IInv => HoldKeepsClockLit
  BY DEF IInv, PlayingIsLit, ArmersPlay, HoldKeepsClockLit
<1> QED
  BY <1>1, Invariance, PTL

\* sendFrames numbers no frame while a member of a shared match loads.
THEOREM FrameTheorem == Spec => NoFrameWhileLoading
<1>1. IInv /\ [Next]_vars =>
        [sframe' > sframe => Cardinality(Members) < 2 \/ \A p \in Members : phase[p] # "loading"]_vars
  <2> SUFFICES ASSUME IInv, Next, sframe' > sframe
               PROVE  AllPlayersStarted
    BY DEF AllPlayersStarted
  <2>1. sframe \in 0 .. MaxFrame
    BY DEF IInv, TypeOK
  <2>2. PICK t \in Tickers : SendFrames(t)
    <3>1. ASSUME NEW p \in Players,
                 \/ StartPlay(p) \/ Starting(p)
                 \/ LeaveGS(p) \/ EOF(p) \/ CompleteMatchResume(p) \/ LeaveRoom(p)
          PROVE  sframe' = sframe \/ sframe' = 0
      BY <3>1 DEF StartPlay, Starting, Arm, Anchor, StartTicker, LeaveGS, EOF,
         CompleteMatchResume, LeaveRoom, clockVars
    <3>2. ASSUME NEW w \in Workers, Stopping(w)
          PROVE  sframe' = sframe
      BY <3>2 DEF Stopping, DisarmIfIdle, Disarm, Forget, StopTicker, AwaitDone, clockVars
    <3>3. ASSUME NEW t \in Tickers, Stop(t) \/ Tick(t) \/ Barrier(t) \/ Recheck(t)
          PROVE  sframe' = sframe
      BY <3>3 DEF Stop, Tick, Barrier, Recheck, clockVars
    <3> QED
      BY <2>1, <3>1, <3>2, <3>3 DEF Next, Owning
  <2> QED
    BY <2>2 DEF IInv, BarrierHolds, SendFrames
<1> QED
  BY <1>1, InitIInv, NextIInv, PTL DEF Spec, NoFrameWhileLoading
=============================================================================
