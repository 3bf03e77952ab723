-------------------------- MODULE MatchHoldProofs --------------------------
(***************************************************************************)
(* Proofs about MatchHold, for any players, connections, fail limit and    *)
(* client behaviour (Overlap either way): type correctness, that a held    *)
(* seat is a complete reservation, that a claim needs a live hold and that *)
(* a held seat keeps the frame clock armed.                                *)
(*                                                                         *)
(* The last one is not inductive: DetachGSForDisconnect makes a hold       *)
(* without looking at the clock.  What carries it is PlayingIsArmed: as    *)
(* long as the clock of a playing session is not armed, every transport of *)
(* the session that could bring it into the disconnect path is still       *)
(* inside StartPlay, on its way to Arm.                                    *)
(*                                                                         *)
(* Every action changes at most one seat, so each has a lemma that shows   *)
(* the new record of that seat sound and the other seats undisturbed, and  *)
(* Frame concludes.  First come the operators on one session record: each  *)
(* builds its result one field at a time, and each stage is typed before   *)
(* the next.                                                               *)
(*                                                                         *)
(* The second half, for clients with one handshake at a time (~Overlap):   *)
(* transports follow their seats, a seat that was left stays left, and     *)
(* every step is one of SeatLifecycle or a stutter.                        *)
(***************************************************************************)
EXTENDS MatchHold, TLAPS

-----------------------------------------------------------------------------
(* What the operators on one session record return.                        *)

\* clearMatchHoldLocked ends the hold and its claim and counts a generation.
LEMMA ClearHoldFields ==
  ASSUME NEW s \in Session
  PROVE  /\ ClearHold(s) \in Session
         /\ ClearHold(s).member = s.member /\ ClearHold(s).playing = s.playing
         /\ ClearHold(s).loading = s.loading /\ ClearHold(s).hold = FALSE
         /\ ClearHold(s).await = s.await /\ ClearHold(s).gen = s.gen + 1
         /\ ClearHold(s).pending = None /\ ClearHold(s).gs = s.gs
  <1> DEFINE s1 == [s EXCEPT !.gen = @ + 1]
             s2 == [s1 EXCEPT !.hold = FALSE]
             s3 == [s2 EXCEPT !.overdue = FALSE]
             s4 == [s3 EXCEPT !.pending = None]
  <1>e. ClearHold(s) = s4
    BY DEF ClearHold
  <1>1. s1 \in Session
    BY DEF Session
  <1>2. s2 \in Session
    <2> HIDE DEF s1
    <2> QED BY <1>1 DEF Session
  <1>3. s3 \in Session
    <2> HIDE DEF s2
    <2> QED BY <1>2 DEF Session
  <1>4. s4 \in Session
    <2> HIDE DEF s3
    <2> QED BY <1>3 DEF Session
  <1> QED
    BY <1>e, <1>4 DEF Session

\* MarkGSLeave and an unheld last disconnect leave an idle session.
LEMMA IdleFields ==
  ASSUME NEW s \in Session
  PROVE  /\ Idle(s) \in Session
         /\ Idle(s).member = s.member /\ Idle(s).playing = FALSE
         /\ Idle(s).loading = FALSE /\ Idle(s).hold = FALSE
         /\ Idle(s).await = s.await /\ Idle(s).gen = s.gen + 1
         /\ Idle(s).pending = None /\ Idle(s).gs = s.gs
  <1> DEFINE t == ClearHold(s)
             s1 == [t EXCEPT !.playing = FALSE]
             s2 == [s1 EXCEPT !.loading = FALSE]
  <1>t. /\ t \in Session /\ t.member = s.member /\ t.playing = s.playing
        /\ t.loading = s.loading /\ t.hold = FALSE /\ t.await = s.await
        /\ t.gen = s.gen + 1 /\ t.pending = None /\ t.gs = s.gs
    BY ClearHoldFields
  <1>e. Idle(s) = s2
    BY DEF Idle
  <1> HIDE DEF t
  <1>1. s1 \in Session
    BY <1>t DEF Session
  <1>2. s2 \in Session
    <2> HIDE DEF s1
    <2> QED BY <1>1 DEF Session
  <1> QED
    BY <1>t, <1>e, <1>2 DEF Session

\* A session that leaves the room is idle and no member.
LEMMA VacateFields ==
  ASSUME NEW s \in Session
  PROVE  /\ Vacate(s) \in Session
         /\ Vacate(s).member = FALSE /\ Vacate(s).playing = FALSE
         /\ Vacate(s).loading = FALSE /\ Vacate(s).hold = FALSE
         /\ Vacate(s).await = s.await /\ Vacate(s).gen = s.gen + 1
         /\ Vacate(s).pending = None /\ Vacate(s).gs = s.gs
  <1> DEFINE t == Idle(s)
             s1 == [t EXCEPT !.member = FALSE]
  <1>t. /\ t \in Session /\ t.member = s.member /\ t.playing = FALSE
        /\ t.loading = FALSE /\ t.hold = FALSE /\ t.await = s.await
        /\ t.gen = s.gen + 1 /\ t.pending = None /\ t.gs = s.gs
    BY IdleFields
  <1>e. Vacate(s) = s1
    BY DEF Vacate
  <1> HIDE DEF t
  <1>1. s1 \in Session
    BY <1>t DEF Session
  <1> QED
    BY <1>t, <1>e, <1>1 DEF Session

\* A completed resume plays, frozen until the first op3.
LEMMA ResumeFields ==
  ASSUME NEW s \in Session
  PROVE  /\ Resume(s) \in Session
         /\ Resume(s).member = s.member /\ Resume(s).playing = TRUE
         /\ Resume(s).loading = FALSE /\ Resume(s).hold = FALSE
         /\ Resume(s).await = TRUE /\ Resume(s).gen = s.gen + 1
         /\ Resume(s).pending = None /\ Resume(s).gs = s.gs
  <1> DEFINE t == ClearHold(s)
             s1 == [t EXCEPT !.playing = TRUE]
             s2 == [s1 EXCEPT !.loading = FALSE]
             s3 == [s2 EXCEPT !.await = TRUE]
  <1>t. /\ t \in Session /\ t.member = s.member /\ t.playing = s.playing
        /\ t.loading = s.loading /\ t.hold = FALSE /\ t.await = s.await
        /\ t.gen = s.gen + 1 /\ t.pending = None /\ t.gs = s.gs
    BY ClearHoldFields
  <1>e. Resume(s) = s3
    BY DEF Resume
  <1> HIDE DEF t
  <1>1. s1 \in Session
    BY <1>t DEF Session
  <1>2. s2 \in Session
    <2> HIDE DEF s1
    <2> QED BY <1>1 DEF Session
  <1>3. s3 \in Session
    <2> HIDE DEF s2
    <2> QED BY <1>2 DEF Session
  <1> QED
    BY <1>t, <1>e, <1>3 DEF Session

\* A new reservation is held under the next generation.
LEMMA ReserveFields ==
  ASSUME NEW s \in Session
  PROVE  /\ Reserve(s) \in Session
         /\ Reserve(s).member = s.member /\ Reserve(s).playing = FALSE
         /\ Reserve(s).loading = FALSE /\ Reserve(s).hold = TRUE
         /\ Reserve(s).await = FALSE /\ Reserve(s).gen = s.gen + 1
         /\ Reserve(s).pending = s.pending /\ Reserve(s).gs = s.gs
  <1> DEFINE s1 == [s EXCEPT !.gen = @ + 1]
             s2 == [s1 EXCEPT !.hold = TRUE]
             s3 == [s2 EXCEPT !.overdue = FALSE]
             s4 == [s3 EXCEPT !.await = FALSE]
             s5 == [s4 EXCEPT !.playing = FALSE]
             s6 == [s5 EXCEPT !.loading = FALSE]
  <1>e. Reserve(s) = s6
    BY DEF Reserve
  <1>1. s1 \in Session
    BY DEF Session
  <1>2. s2 \in Session
    <2> HIDE DEF s1
    <2> QED BY <1>1 DEF Session
  <1>3. s3 \in Session
    <2> HIDE DEF s2
    <2> QED BY <1>2 DEF Session
  <1>4. s4 \in Session
    <2> HIDE DEF s3
    <2> QED BY <1>3 DEF Session
  <1>5. s5 \in Session
    <2> HIDE DEF s4
    <2> QED BY <1>4 DEF Session
  <1>6. s6 \in Session
    <2> HIDE DEF s5
    <2> QED BY <1>5 DEF Session
  <1> QED
    BY <1>e, <1>6 DEF Session

\* Dropping a transport takes its claim with it.
LEMMA DropFields ==
  ASSUME NEW s \in Session, NEW c \in Conns
  PROVE  /\ Drop(s, c) \in Session
         /\ Drop(s, c).member = s.member /\ Drop(s, c).playing = s.playing
         /\ Drop(s, c).loading = s.loading /\ Drop(s, c).hold = s.hold
         /\ Drop(s, c).await = s.await /\ Drop(s, c).gen = s.gen
         /\ Drop(s, c).pending = IF s.pending = c THEN None ELSE s.pending
         /\ Drop(s, c).gs = s.gs \ {c}
  <1> DEFINE s1 == [s EXCEPT !.gs = @ \ {c}]
             s2 == [s1 EXCEPT !.pending = IF @ = c THEN None ELSE @]
  <1>e. Drop(s, c) = s2
    BY DEF Drop
  <1>1. s1 \in Session
    BY DEF Session
  <1>2. s2 \in Session
    <2> HIDE DEF s1
    <2> QED BY <1>1 DEF Session
  <1> QED
    BY <1>e, <1>2 DEF Session

\* A claim keeps the hold and attaches the claiming connection.
LEMMA ClaimFields ==
  ASSUME NEW s \in Session, NEW c \in Conns
  PROVE  /\ Claim(s, c) \in Session
         /\ Claim(s, c).member = s.member /\ Claim(s, c).playing = FALSE
         /\ Claim(s, c).loading = FALSE /\ Claim(s, c).hold = s.hold
         /\ Claim(s, c).await = s.await /\ Claim(s, c).gen = s.gen
         /\ Claim(s, c).pending = c /\ Claim(s, c).gs = s.gs \cup {c}
  <1> DEFINE s1 == [s EXCEPT !.pending = c]
             s2 == [s1 EXCEPT !.gs = @ \cup {c}]
             s3 == [s2 EXCEPT !.playing = FALSE]
             s4 == [s3 EXCEPT !.loading = FALSE]
  <1>e. Claim(s, c) = s4
    BY DEF Claim
  <1>1. s1 \in Session
    BY DEF Session
  <1>2. s2 \in Session
    <2> HIDE DEF s1
    <2> QED BY <1>1 DEF Session
  <1>3. s3 \in Session
    <2> HIDE DEF s2
    <2> QED BY <1>2 DEF Session
  <1>4. s4 \in Session
    <2> HIDE DEF s3
    <2> QED BY <1>3 DEF Session
  <1> QED
    BY <1>e, <1>4 DEF Session

\* A takeover strips every transport and claim.
LEMMA DetachAllFields ==
  ASSUME NEW s \in Session, NEW r,
         r = [s EXCEPT !.gs = {}, !.pending = None]
  PROVE  /\ r \in Session
         /\ r.member = s.member /\ r.playing = s.playing
         /\ r.loading = s.loading /\ r.hold = s.hold /\ r.await = s.await
         /\ r.gen = s.gen /\ r.pending = None /\ r.gs = {}
  <1> DEFINE s1 == [s EXCEPT !.gs = {}]
             s2 == [s1 EXCEPT !.pending = None]
  <1>e. r = s2
    OBVIOUS
  <1>1. s1 \in Session
    BY DEF Session
  <1>2. s2 \in Session
    <2> HIDE DEF s1
    <2> QED BY <1>1 DEF Session
  <1> QED
    BY <1>e, <1>2 DEF Session

\* op9/0x2003 turns loading into playing.
LEMMA BeginFields ==
  ASSUME NEW s \in Session, NEW r,
         r = [s EXCEPT !.playing = TRUE, !.loading = FALSE]
  PROVE  /\ r \in Session
         /\ r.member = s.member /\ r.playing = TRUE /\ r.loading = FALSE
         /\ r.hold = s.hold /\ r.await = s.await /\ r.gen = s.gen
         /\ r.pending = s.pending /\ r.gs = s.gs
  <1> DEFINE s1 == [s EXCEPT !.playing = TRUE]
             s2 == [s1 EXCEPT !.loading = FALSE]
  <1>e. r = s2
    OBVIOUS
  <1>1. s1 \in Session
    BY DEF Session
  <1>2. s2 \in Session
    <2> HIDE DEF s1
    <2> QED BY <1>1 DEF Session
  <1> QED
    BY <1>e, <1>2 DEF Session

\* The first op3 after a resume ends its freeze.
LEMMA PingFields ==
  ASSUME NEW s \in Session, NEW r,
         r = [s EXCEPT !.await = FALSE, !.fails = 0, !.fresh = FALSE]
  PROVE  /\ r \in Session
         /\ r.member = s.member /\ r.playing = s.playing
         /\ r.loading = s.loading /\ r.hold = s.hold /\ r.await = FALSE
         /\ r.gen = s.gen /\ r.pending = s.pending /\ r.gs = s.gs
  <1> DEFINE s1 == [s EXCEPT !.await = FALSE]
             s2 == [s1 EXCEPT !.fails = 0]
             s3 == [s2 EXCEPT !.fresh = FALSE]
  <1>e. r = s3
    OBVIOUS
  <1>1. s1 \in Session
    BY DEF Session
  <1>2. s2 \in Session
    <2> HIDE DEF s1
    <2> QED BY <1>1 DEF Session
  <1>3. s3 \in Session
    <2> HIDE DEF s2
    <2> QED BY <1>2 DEF Session
  <1> QED
    BY <1>e, <1>3 DEF Session

\* Counting a quick EOF moves the soft-fail counters only.
LEMMA QuickEOFFields ==
  ASSUME NEW s \in Session, NEW r,
         r = [s EXCEPT !.fails = @ + 1, !.fresh = FALSE, !.cooling = TRUE]
  PROVE  /\ r \in Session
         /\ r.member = s.member /\ r.playing = s.playing
         /\ r.loading = s.loading /\ r.hold = s.hold /\ r.await = s.await
         /\ r.gen = s.gen /\ r.pending = s.pending /\ r.gs = s.gs
  <1> DEFINE s1 == [s EXCEPT !.fails = @ + 1]
             s2 == [s1 EXCEPT !.fresh = FALSE]
             s3 == [s2 EXCEPT !.cooling = TRUE]
  <1>e. r = s3
    OBVIOUS
  <1>1. s1 \in Session
    BY DEF Session
  <1>2. s2 \in Session
    <2> HIDE DEF s1
    <2> QED BY <1>1 DEF Session
  <1>3. s3 \in Session
    <2> HIDE DEF s2
    <2> QED BY <1>2 DEF Session
  <1> QED
    BY <1>e, <1>3 DEF Session

\* An EOF changes nothing the invariants speak of.
LEMMA CountEOFFields ==
  ASSUME NEW s \in Session
  PROVE  /\ CountEOF(s) \in Session
         /\ CountEOF(s).member = s.member /\ CountEOF(s).playing = s.playing
         /\ CountEOF(s).loading = s.loading /\ CountEOF(s).hold = s.hold
         /\ CountEOF(s).await = s.await /\ CountEOF(s).gen = s.gen
         /\ CountEOF(s).pending = s.pending /\ CountEOF(s).gs = s.gs
  <1>1. CASE s.fresh
    BY <1>1, QuickEOFFields DEF CountEOF
  <1>2. CASE ~s.fresh
    BY <1>2 DEF CountEOF
  <1> QED
    BY <1>1, <1>2

-----------------------------------------------------------------------------
(* The invariant.                                                          *)

\* A playing or loading session is a member; loading ends before playing.
MatchMembers ==
  \A p \in Players :
    /\ sess[p].playing => sess[p].member /\ ~sess[p].loading
    /\ sess[p].loading => sess[p].member

\* Connections of p that are, or are about to be, playing.
InMatch(p) ==
  {c \in Conns : owner[c] = p /\ (c \in transient \/ pc[c] = "resumed")}

\* No connection of a loading session has played yet.
LoadingIsFresh ==
  \A p \in Players : sess[p].loading => InMatch(p) = {}

\* While a playing session has no armed clock, each of its connections that
\* could reserve the seat is still between StartPlay and Arm.
PlayingIsArmed ==
  \A p \in Players : sess[p].playing /\ ~armed =>
    \A c \in InMatch(p) : pc[c] = "arming"

\* A connection that has played has been used.
UsedBeforePlaying == \A c \in transient : pc[c] # "unused"

\* The inductive invariant.
IInv ==
  /\ TypeOK
  /\ HoldIsReserved
  /\ ResumeNeedsHold
  /\ HeldKeepsClock
  /\ MatchMembers
  /\ LoadingIsFresh
  /\ PlayingIsArmed
  /\ UsedBeforePlaying

\* The step gives p the session record r and leaves the others alone.
SessBecomes(p, r) ==
  /\ sess' \in [Players -> Session]
  /\ sess'[p] = r
  /\ \A q \in Players : q # p => sess'[q] = sess[q]

\* The form in which every action writes sess.
LEMMA SessUpdate ==
  ASSUME sess \in [Players -> Session], NEW p \in Players, NEW r \in Session,
         sess' = [sess EXCEPT ![p] = r]
  PROVE  SessBecomes(p, r)
  BY DEF SessBecomes

\* What p's new record r has to satisfy for p's part of IInv.
SeatSound(p, r) ==
  /\ r.hold =>
       /\ r.member /\ ~r.playing /\ ~r.loading /\ ~r.await
       /\ <<p, r.gen>> \in timers' /\ armed'
  /\ r.pending # None => r.hold
  /\ r.playing => r.member /\ ~r.loading
  /\ r.loading => r.member
  /\ r.loading => InMatch(p)' = {}
  /\ r.playing /\ ~armed' => \A c \in InMatch(p)' : pc'[c] = "arming"

\* The step leaves q's timers, clock and playing connections alone.
Undisturbed(q) ==
  /\ \A n \in Nat : <<q, n>> \in timers => <<q, n>> \in timers'
  /\ armed /\ sess[q].member => armed'
  /\ \A c \in InMatch(q)' :
       c \in InMatch(q) /\ (pc[c] = "arming" => pc'[c] = "arming")

\* What IInv says of one seat before the step.
LEMMA SeatKnown ==
  ASSUME IInv, NEW p \in Players
  PROVE  /\ sess[p].hold =>
              /\ sess[p].member /\ ~sess[p].playing
              /\ ~sess[p].loading /\ ~sess[p].await
              /\ <<p, sess[p].gen>> \in timers /\ armed
         /\ sess[p].pending # None => sess[p].hold
         /\ sess[p].playing => sess[p].member /\ ~sess[p].loading
         /\ sess[p].loading => sess[p].member /\ InMatch(p) = {}
         /\ sess[p].playing /\ ~armed => \A c \in InMatch(p) : pc[c] = "arming"
  BY DEF IInv, HoldIsReserved, HeldKeepsClock, ResumeNeedsHold, MatchMembers,
         LoadingIsFresh, PlayingIsArmed

\* A step that changes one seat keeps IInv if that seat stays sound and the
\* other seats are not disturbed.
LEMMA Frame ==
  ASSUME IInv, TypeOK', UsedBeforePlaying',
         NEW p \in Players, NEW r \in Session,
         SessBecomes(p, r), SeatSound(p, r),
         \A q \in Players : q # p => Undisturbed(q)
  PROVE  IInv'
  <1>1. \A q \in Players : q # p =>
           /\ sess'[q] = sess[q]
           /\ sess[q] \in Session
           /\ Undisturbed(q)
    BY DEF IInv, TypeOK, SessBecomes
  <1>2. sess'[p] = r
    BY DEF SessBecomes
  <1>3. (HoldIsReserved /\ HeldKeepsClock /\ ResumeNeedsHold)'
    <2> SUFFICES ASSUME NEW q \in Players
                 PROVE  /\ (sess[q].hold =>
                              /\ sess[q].member /\ ~sess[q].playing
                              /\ ~sess[q].loading /\ ~sess[q].await
                              /\ <<q, sess[q].gen>> \in timers /\ armed)'
                        /\ (sess[q].pending # None => sess[q].hold)'
      BY DEF HoldIsReserved, HeldKeepsClock, ResumeNeedsHold
    <2>1. CASE q = p
      BY <2>1, <1>2 DEF SeatSound
    <2>2. CASE q # p
      BY <2>2, <1>1
         DEF Undisturbed, IInv, HoldIsReserved, HeldKeepsClock,
             ResumeNeedsHold, Session
    <2> QED
      BY <2>1, <2>2
  <1>4. (MatchMembers /\ LoadingIsFresh /\ PlayingIsArmed)'
    <2> SUFFICES ASSUME NEW q \in Players
                 PROVE  /\ (sess[q].playing => sess[q].member /\ ~sess[q].loading)'
                        /\ (sess[q].loading => sess[q].member)'
                        /\ (sess[q].loading => InMatch(q) = {})'
                        /\ (sess[q].playing /\ ~armed =>
                              \A c \in InMatch(q) : pc[c] = "arming")'
      BY DEF MatchMembers, LoadingIsFresh, PlayingIsArmed
    <2>1. CASE q = p
      BY <2>1, <1>2 DEF SeatSound
    <2>2. CASE q # p
      <3> HIDE DEF InMatch
      <3> QED
        BY <2>2, <1>1
           DEF Undisturbed, IInv, MatchMembers, LoadingIsFresh,
               PlayingIsArmed
    <2> QED
      BY <2>1, <2>2
  <1> QED
    BY <1>3, <1>4 DEF IInv

\* StartPlay: playing begins unarmed, but on a connection on its way to Arm.
LEMMA StartPlayInv ==
  ASSUME IInv, NEW c \in Conns, StartPlay(c)
  PROVE  IInv'
  <1> DEFINE p == owner[c]
             r == [sess[p] EXCEPT !.playing = TRUE, !.loading = FALSE]
  <1>1. p \in Players /\ sess[p] \in Session
    BY DEF IInv, TypeOK, StartPlay, At, clientVars
  <1>2. /\ r \in Session /\ r.member = sess[p].member /\ r.playing = TRUE
        /\ r.loading = FALSE /\ r.hold = sess[p].hold
        /\ r.await = sess[p].await /\ r.gen = sess[p].gen
        /\ r.pending = sess[p].pending
    BY <1>1, BeginFields
  <1>b. sess' = [sess EXCEPT ![p] = r]
    BY DEF StartPlay, At, clientVars
  <1> HIDE DEF r
  <1>3. SessBecomes(p, r)
    BY <1>1, <1>2, <1>b, SessUpdate DEF IInv, TypeOK
  <1>4. TypeOK'
    BY <1>1, <1>3
       DEF IInv, TypeOK, Stages, SessBecomes, StartPlay, At, clientVars
  <1>5. UsedBeforePlaying'
    BY <1>1 DEF IInv, TypeOK, UsedBeforePlaying, StartPlay, At, clientVars
  <1>6. SeatSound(p, r)
    BY <1>1, <1>2, SeatKnown, NoneAssumption
       DEF SeatSound, IInv, TypeOK, InMatch, StartPlay, At, clientVars
  <1>7. ASSUME NEW q \in Players, q # p PROVE Undisturbed(q)
    BY <1>1, <1>7
       DEF Undisturbed, IInv, TypeOK, UsedBeforePlaying, InMatch,
           StartPlay, At, clientVars
  <1> QED
    BY <1>1, <1>2, <1>3, <1>4, <1>5, <1>6, <1>7, Frame

\* Ping: only the resume freeze and the soft-fail counters change.
LEMMA PingInv ==
  ASSUME IInv, NEW c \in Conns, Ping(c)
  PROVE  IInv'
  <1> DEFINE p == owner[c]
             r == [sess[p] EXCEPT !.await = FALSE, !.fails = 0, !.fresh = FALSE]
  <1>1. p \in Players /\ sess[p] \in Session
    BY DEF IInv, TypeOK, Ping, clientVars
  <1>2. /\ r \in Session /\ r.member = sess[p].member
        /\ r.playing = sess[p].playing /\ r.loading = sess[p].loading
        /\ r.hold = sess[p].hold /\ r.await = FALSE /\ r.gen = sess[p].gen
        /\ r.pending = sess[p].pending
    BY <1>1, PingFields
  <1>b. sess' = [sess EXCEPT ![p] = r]
    BY DEF Ping, clientVars
  <1> HIDE DEF r
  <1>3. SessBecomes(p, r)
    BY <1>1, <1>2, <1>b, SessUpdate DEF IInv, TypeOK
  <1>4. TypeOK'
    BY <1>1, <1>3 DEF IInv, TypeOK, Stages, SessBecomes, Ping, clientVars
  <1>5. UsedBeforePlaying'
    BY <1>1 DEF IInv, TypeOK, UsedBeforePlaying, Ping, clientVars
  <1>6. SeatSound(p, r)
    BY <1>1, <1>2, SeatKnown, NoneAssumption
       DEF SeatSound, IInv, TypeOK, InMatch, Ping, clientVars
  <1>7. ASSUME NEW q \in Players, q # p PROVE Undisturbed(q)
    BY <1>1, <1>7
       DEF Undisturbed, IInv, TypeOK, UsedBeforePlaying, InMatch, Ping,
           clientVars
  <1> QED
    BY <1>1, <1>2, <1>3, <1>4, <1>5, <1>6, <1>7, Frame

\* LeaveGS: the seat goes idle.
LEMMA LeaveGSInv ==
  ASSUME IInv, NEW c \in Conns, LeaveGS(c)
  PROVE  IInv'
  <1> DEFINE p == owner[c]
             r == Idle(sess[p])
  <1>1. p \in Players /\ sess[p] \in Session
    BY DEF IInv, TypeOK, LeaveGS
  <1>2. /\ r \in Session /\ r.member = sess[p].member /\ r.playing = FALSE
        /\ r.loading = FALSE /\ r.hold = FALSE /\ r.await = sess[p].await
        /\ r.gen = sess[p].gen + 1 /\ r.pending = None
    BY <1>1, IdleFields
  <1>b. sess' = [sess EXCEPT ![p] = r]
    BY DEF LeaveGS
  <1> HIDE DEF r
  <1>3. SessBecomes(p, r)
    BY <1>1, <1>2, <1>b, SessUpdate DEF IInv, TypeOK
  <1>4. TypeOK'
    BY <1>1, <1>3 DEF IInv, TypeOK, Stages, SessBecomes, LeaveGS
  <1>5. UsedBeforePlaying'
    BY <1>1 DEF IInv, TypeOK, UsedBeforePlaying, LeaveGS
  <1>6. SeatSound(p, r)
    BY <1>1, <1>2, SeatKnown, NoneAssumption
       DEF SeatSound, IInv, TypeOK, InMatch, LeaveGS
  <1>7. ASSUME NEW q \in Players, q # p PROVE Undisturbed(q)
    BY <1>1, <1>7
       DEF Undisturbed, IInv, TypeOK, UsedBeforePlaying, InMatch,
           LeaveGS
  <1> QED
    BY <1>1, <1>2, <1>3, <1>4, <1>5, <1>6, <1>7, Frame

\* NoteSoftResumeAck: the connection plays on an armed clock already.
LEMMA NoteSoftResumeAckInv ==
  ASSUME IInv, NEW c \in Conns, NoteSoftResumeAck(c)
  PROVE  IInv'
  <1> DEFINE p == owner[c]
             r == [sess[p] EXCEPT !.fresh = TRUE]
  <1>1. p \in Players /\ sess[p] \in Session
    BY DEF IInv, TypeOK, NoteSoftResumeAck, At, clientVars
  <1>2. /\ r \in Session /\ r.member = sess[p].member
        /\ r.playing = sess[p].playing /\ r.loading = sess[p].loading
        /\ r.hold = sess[p].hold /\ r.await = sess[p].await
        /\ r.gen = sess[p].gen /\ r.pending = sess[p].pending
    BY <1>1 DEF Session
  <1>b. sess' = [sess EXCEPT ![p] = r]
    BY DEF NoteSoftResumeAck, At, clientVars
  <1> HIDE DEF r
  <1>3. SessBecomes(p, r)
    BY <1>1, <1>2, <1>b, SessUpdate DEF IInv, TypeOK
  <1>4. TypeOK'
    BY <1>1, <1>3
       DEF IInv, TypeOK, Stages, SessBecomes, NoteSoftResumeAck, At,
           clientVars
  <1>5. UsedBeforePlaying'
    BY <1>1
       DEF IInv, TypeOK, UsedBeforePlaying, NoteSoftResumeAck, At,
           clientVars
  <1>6. SeatSound(p, r)
    BY <1>1, <1>2, SeatKnown, NoneAssumption
       DEF SeatSound, IInv, TypeOK, InMatch, NoteSoftResumeAck, At,
           clientVars
  <1>7. ASSUME NEW q \in Players, q # p PROVE Undisturbed(q)
    BY <1>1, <1>7
       DEF Undisturbed, IInv, TypeOK, UsedBeforePlaying, InMatch,
           NoteSoftResumeAck, At, clientVars
  <1> QED
    BY <1>1, <1>2, <1>3, <1>4, <1>5, <1>6, <1>7, Frame

\* AbandonMatchResume: the refused claim goes, the hold stays.
LEMMA AbandonMatchResumeInv ==
  ASSUME IInv, NEW c \in Conns, AbandonMatchResume(c)
  PROVE  IInv'
  <1> DEFINE p == owner[c]
             r == Drop(sess[p], c)
  <1>1. p \in Players /\ sess[p] \in Session
    BY DEF IInv, TypeOK, AbandonMatchResume, At, clientVars
  <1>2. /\ r \in Session /\ r.member = sess[p].member
        /\ r.playing = sess[p].playing /\ r.loading = sess[p].loading
        /\ r.hold = sess[p].hold /\ r.await = sess[p].await
        /\ r.gen = sess[p].gen
        /\ r.pending = IF sess[p].pending = c THEN None ELSE sess[p].pending
    BY <1>1, DropFields
  <1>b. sess' = [sess EXCEPT ![p] = r]
    BY DEF AbandonMatchResume, At, clientVars
  <1> HIDE DEF r
  <1>3. SessBecomes(p, r)
    BY <1>1, <1>2, <1>b, SessUpdate DEF IInv, TypeOK
  <1>4. TypeOK'
    BY <1>1, <1>3
       DEF IInv, TypeOK, Stages, SessBecomes, AbandonMatchResume, At,
           clientVars
  <1>5. UsedBeforePlaying'
    BY <1>1
       DEF IInv, TypeOK, UsedBeforePlaying, AbandonMatchResume, At,
           clientVars
  <1>6. SeatSound(p, r)
    BY <1>1, <1>2, SeatKnown, NoneAssumption
       DEF SeatSound, IInv, TypeOK, InMatch, AbandonMatchResume, At,
           clientVars
  <1>7. ASSUME NEW q \in Players, q # p PROVE Undisturbed(q)
    BY <1>1, <1>7
       DEF Undisturbed, IInv, TypeOK, UsedBeforePlaying, InMatch,
           AbandonMatchResume, At, clientVars
  <1> QED
    BY <1>1, <1>2, <1>3, <1>4, <1>5, <1>6, <1>7, Frame

\* NoteSoftResumeEOF: only the soft-fail counters change.
LEMMA NoteSoftResumeEOFInv ==
  ASSUME IInv, NEW c \in Conns, NoteSoftResumeEOF(c)
  PROVE  IInv'
  <1> DEFINE p == owner[c]
             r == CountEOF(sess[p])
  <1>1. p \in Players /\ sess[p] \in Session
    BY DEF IInv, TypeOK, NoteSoftResumeEOF, At, clientVars
  <1>2. /\ r \in Session /\ r.member = sess[p].member
        /\ r.playing = sess[p].playing /\ r.loading = sess[p].loading
        /\ r.hold = sess[p].hold /\ r.await = sess[p].await
        /\ r.gen = sess[p].gen /\ r.pending = sess[p].pending
    BY <1>1, CountEOFFields
  <1>b. sess' = [sess EXCEPT ![p] = r]
    BY DEF NoteSoftResumeEOF, At, clientVars
  <1> HIDE DEF r
  <1>3. SessBecomes(p, r)
    BY <1>1, <1>2, <1>b, SessUpdate DEF IInv, TypeOK
  <1>4. TypeOK'
    BY <1>1, <1>3
       DEF IInv, TypeOK, Stages, SessBecomes, NoteSoftResumeEOF, At,
           clientVars
  <1>5. UsedBeforePlaying'
    BY <1>1
       DEF IInv, TypeOK, UsedBeforePlaying, NoteSoftResumeEOF, At,
           clientVars
  <1>6. SeatSound(p, r)
    BY <1>1, <1>2, SeatKnown, NoneAssumption
       DEF SeatSound, IInv, TypeOK, InMatch, NoteSoftResumeEOF, At,
           clientVars
  <1>7. ASSUME NEW q \in Players, q # p PROVE Undisturbed(q)
    BY <1>1, <1>7
       DEF Undisturbed, IInv, TypeOK, UsedBeforePlaying, InMatch,
           NoteSoftResumeEOF, At, clientVars
  <1> QED
    BY <1>1, <1>2, <1>3, <1>4, <1>5, <1>6, <1>7, Frame

\* DetachGS of one of several transports.
LEMMA DetachGSOther ==
  ASSUME IInv, NEW c \in Conns, DetachGS(c), ~LastTransport(c)
  PROVE  IInv'
  <1> DEFINE p == owner[c]
             r == [sess[p] EXCEPT !.gs = @ \ {c}]
  <1>1. p \in Players /\ sess[p] \in Session
    BY DEF IInv, TypeOK, DetachGS, clientVars
  <1>2. /\ r \in Session /\ r.member = sess[p].member
        /\ r.playing = sess[p].playing /\ r.loading = sess[p].loading
        /\ r.hold = sess[p].hold /\ r.await = sess[p].await
        /\ r.gen = sess[p].gen /\ r.pending = sess[p].pending
    BY <1>1 DEF Session
  <1>b. sess' = [sess EXCEPT ![p] = r]
    BY DEF DetachGS, clientVars
  <1> HIDE DEF r
  <1>3. SessBecomes(p, r)
    BY <1>1, <1>2, <1>b, SessUpdate DEF IInv, TypeOK
  <1>4. TypeOK'
    BY <1>1, <1>3 DEF IInv, TypeOK, Stages, SessBecomes, DetachGS, clientVars
  <1>5. UsedBeforePlaying'
    BY <1>1 DEF IInv, TypeOK, UsedBeforePlaying, DetachGS, clientVars
  <1>6. SeatSound(p, r)
    BY <1>1, <1>2, SeatKnown, NoneAssumption
       DEF SeatSound, IInv, TypeOK, InMatch, DetachGS, clientVars
  <1>7. ASSUME NEW q \in Players, q # p PROVE Undisturbed(q)
    BY <1>1, <1>7
       DEF Undisturbed, IInv, TypeOK, UsedBeforePlaying, InMatch,
           DetachGS, clientVars
  <1> QED
    BY <1>1, <1>2, <1>3, <1>4, <1>5, <1>6, <1>7, Frame

\* DetachGS into a hold: the clock is armed, by PlayingIsArmed or the old hold.
LEMMA DetachGSHeld ==
  ASSUME IInv, NEW c \in Conns, DetachGS(c), LastTransport(c), HoldEligible(c)
  PROVE  IInv'
  <1> DEFINE p == owner[c]
             d == Drop(sess[p], c)
             r == Reserve(d)
  <1>1. p \in Players /\ sess[p] \in Session
    BY DEF IInv, TypeOK, DetachGS, HoldEligible, HoldTimer, clientVars
  <1>a. /\ d \in Session /\ d.member = sess[p].member
        /\ d.playing = sess[p].playing /\ d.loading = sess[p].loading
        /\ d.hold = sess[p].hold /\ d.await = sess[p].await
        /\ d.gen = sess[p].gen
        /\ d.pending = IF sess[p].pending = c THEN None ELSE sess[p].pending
    BY <1>1, DropFields
  <1>b. sess' = [sess EXCEPT ![p] = r]
    BY DEF DetachGS, HoldEligible, HoldTimer, clientVars
  <1> HIDE DEF d
  <1>2. /\ r \in Session /\ r.member = sess[p].member /\ r.playing = FALSE
        /\ r.loading = FALSE /\ r.hold = TRUE /\ r.await = FALSE
        /\ r.gen = sess[p].gen + 1
        /\ r.pending = IF sess[p].pending = c THEN None ELSE sess[p].pending
    BY <1>a, ReserveFields
  <1> HIDE DEF r
  <1>3. SessBecomes(p, r)
    BY <1>1, <1>2, <1>b, SessUpdate DEF IInv, TypeOK
  <1>4. TypeOK'
    BY <1>1, <1>3
       DEF IInv, TypeOK, Session, Stages, SessBecomes, DetachGS,
           HoldEligible, HoldTimer, clientVars
  <1>5. UsedBeforePlaying'
    BY <1>1
       DEF IInv, TypeOK, UsedBeforePlaying, DetachGS, HoldEligible,
           HoldTimer, clientVars
  <1>6. SeatSound(p, r)
    BY <1>1, <1>2, SeatKnown, NoneAssumption
       DEF SeatSound, IInv, TypeOK, InMatch, DetachGS, HoldEligible,
           HoldTimer, clientVars
  <1>7. ASSUME NEW q \in Players, q # p PROVE Undisturbed(q)
    BY <1>1, <1>7
       DEF Undisturbed, IInv, TypeOK, UsedBeforePlaying, InMatch,
           DetachGS, HoldEligible, HoldTimer, clientVars
  <1> QED
    BY <1>1, <1>2, <1>3, <1>4, <1>5, <1>6, <1>7, Frame

\* DetachGS of a last transport for good.
LEMMA DetachGSIdle ==
  ASSUME IInv, NEW c \in Conns, DetachGS(c), LastTransport(c), ~HoldEligible(c)
  PROVE  IInv'
  <1> DEFINE p == owner[c]
             d == Drop(sess[p], c)
             r == Idle(d)
  <1>1. p \in Players /\ sess[p] \in Session
    BY DEF IInv, TypeOK, DetachGS, HoldTimer, clientVars
  <1>a. /\ d \in Session /\ d.member = sess[p].member
        /\ d.playing = sess[p].playing /\ d.loading = sess[p].loading
        /\ d.hold = sess[p].hold /\ d.await = sess[p].await
        /\ d.gen = sess[p].gen
        /\ d.pending = IF sess[p].pending = c THEN None ELSE sess[p].pending
    BY <1>1, DropFields
  <1>b. sess' = [sess EXCEPT ![p] = r]
    BY DEF DetachGS, HoldTimer, clientVars
  <1> HIDE DEF d
  <1>2. /\ r \in Session /\ r.member = sess[p].member /\ r.playing = FALSE
        /\ r.loading = FALSE /\ r.hold = FALSE /\ r.await = sess[p].await
        /\ r.gen = sess[p].gen + 1 /\ r.pending = None
    BY <1>a, IdleFields
  <1> HIDE DEF r
  <1>3. SessBecomes(p, r)
    BY <1>1, <1>2, <1>b, SessUpdate DEF IInv, TypeOK
  <1>4. TypeOK'
    BY <1>1, <1>3
       DEF IInv, TypeOK, Session, Stages, SessBecomes, DetachGS,
           HoldTimer, clientVars
  <1>5. UsedBeforePlaying'
    BY <1>1
       DEF IInv, TypeOK, UsedBeforePlaying, DetachGS, HoldTimer,
           clientVars
  <1>6. SeatSound(p, r)
    BY <1>1, <1>2, SeatKnown, NoneAssumption
       DEF SeatSound, IInv, TypeOK, InMatch, DetachGS, HoldTimer,
           clientVars
  <1>7. ASSUME NEW q \in Players, q # p PROVE Undisturbed(q)
    BY <1>1, <1>7
       DEF Undisturbed, IInv, TypeOK, UsedBeforePlaying, InMatch,
           DetachGS, HoldTimer, clientVars
  <1> QED
    BY <1>1, <1>2, <1>3, <1>4, <1>5, <1>6, <1>7, Frame

\* TakeoverMatchSession into a hold, on an armed clock.
LEMMA TakeoverHeld ==
  ASSUME IInv, NEW c \in Conns, TakeoverMatchSession(c), LiveOwner(owner[c])
  PROVE  IInv'
  <1> DEFINE p == owner[c]
             d == [sess[p] EXCEPT !.gs = {}, !.pending = None]
             r == Reserve(d)
  <1>1. p \in Players /\ sess[p] \in Session
    BY DEF IInv, TypeOK, TakeoverMatchSession, LiveOwner, HoldTimer, clientVars
  <1>a. /\ d \in Session /\ d.member = sess[p].member
        /\ d.playing = sess[p].playing /\ d.loading = sess[p].loading
        /\ d.hold = sess[p].hold /\ d.await = sess[p].await
        /\ d.gen = sess[p].gen /\ d.pending = None
    BY <1>1, DetachAllFields
  <1>b. sess' = [sess EXCEPT ![p] = r]
    BY DEF TakeoverMatchSession, LiveOwner, HoldTimer, clientVars
  <1> HIDE DEF d
  <1>2. /\ r \in Session /\ r.member = sess[p].member /\ r.playing = FALSE
        /\ r.loading = FALSE /\ r.hold = TRUE /\ r.await = FALSE
        /\ r.gen = sess[p].gen + 1 /\ r.pending = None
    BY <1>a, ReserveFields
  <1> HIDE DEF r
  <1>3. SessBecomes(p, r)
    BY <1>1, <1>2, <1>b, SessUpdate DEF IInv, TypeOK
  <1>4. TypeOK'
    BY <1>1, <1>3
       DEF IInv, TypeOK, Session, Stages, SessBecomes,
           TakeoverMatchSession, LiveOwner, HoldTimer, clientVars
  <1>5. UsedBeforePlaying'
    BY <1>1
       DEF IInv, TypeOK, UsedBeforePlaying, TakeoverMatchSession,
           LiveOwner, HoldTimer, clientVars
  <1>6. SeatSound(p, r)
    BY <1>1, <1>2, SeatKnown, NoneAssumption
       DEF SeatSound, IInv, TypeOK, InMatch, TakeoverMatchSession,
           LiveOwner, HoldTimer, clientVars
  <1>7. ASSUME NEW q \in Players, q # p PROVE Undisturbed(q)
    BY <1>1, <1>7
       DEF Undisturbed, IInv, TypeOK, UsedBeforePlaying, InMatch,
           TakeoverMatchSession, LiveOwner, HoldTimer, clientVars
  <1> QED
    BY <1>1, <1>2, <1>3, <1>4, <1>5, <1>6, <1>7, Frame

\* Reclaim of the hold that the takeover made.
LEMMA ReclaimHeld ==
  ASSUME IInv, NEW c \in Conns, Reclaim(c), Claimable(owner[c]),
         ~sess[owner[c]].overdue
  PROVE  IInv'
  <1> DEFINE p == owner[c]
             r == Claim(sess[p], c)
  <1>1. p \in Players /\ sess[p] \in Session
    BY DEF IInv, TypeOK, Reclaim, ClaimMatchHold, Claimable, clientVars
  <1>2. /\ r \in Session /\ r.member = sess[p].member /\ r.playing = FALSE
        /\ r.loading = FALSE /\ r.hold = sess[p].hold
        /\ r.await = sess[p].await /\ r.gen = sess[p].gen /\ r.pending = c
    BY <1>1, ClaimFields
  <1>b. sess' = [sess EXCEPT ![p] = r]
    BY DEF Reclaim, ClaimMatchHold, Claimable, clientVars
  <1> HIDE DEF r
  <1>3. SessBecomes(p, r)
    BY <1>1, <1>2, <1>b, SessUpdate DEF IInv, TypeOK
  <1>4. TypeOK'
    BY <1>1, <1>3
       DEF IInv, TypeOK, Stages, SessBecomes, Reclaim, ClaimMatchHold,
           Claimable, clientVars
  <1>5. UsedBeforePlaying'
    BY <1>1
       DEF IInv, TypeOK, UsedBeforePlaying, Reclaim, ClaimMatchHold,
           Claimable, clientVars
  <1>6. SeatSound(p, r)
    BY <1>1, <1>2, SeatKnown, NoneAssumption
       DEF SeatSound, IInv, TypeOK, InMatch, Reclaim, ClaimMatchHold,
           Claimable, clientVars
  <1>7. ASSUME NEW q \in Players, q # p PROVE Undisturbed(q)
    BY <1>1, <1>7
       DEF Undisturbed, IInv, TypeOK, UsedBeforePlaying, InMatch,
           Reclaim, ClaimMatchHold, Claimable, clientVars
  <1> QED
    BY <1>1, <1>2, <1>3, <1>4, <1>5, <1>6, <1>7, Frame

\* ReLogin onto a hold: the new connection has never played.
LEMMA ReLoginHeld ==
  ASSUME IInv, NEW c \in Conns, NEW p \in Players, ReLogin(c, p),
         Claimable(p), ~sess[p].overdue
  PROVE  IInv'
  <1> DEFINE r == Claim(sess[p], c)
  <1>1. p \in Players /\ sess[p] \in Session
    BY DEF IInv, TypeOK, ReLogin, ClaimMatchHold, Claimable
  <1>2. /\ r \in Session /\ r.member = sess[p].member /\ r.playing = FALSE
        /\ r.loading = FALSE /\ r.hold = sess[p].hold
        /\ r.await = sess[p].await /\ r.gen = sess[p].gen /\ r.pending = c
    BY <1>1, ClaimFields
  <1>b. sess' = [sess EXCEPT ![p] = r]
    BY DEF ReLogin, ClaimMatchHold, Claimable
  <1> HIDE DEF r
  <1>3. SessBecomes(p, r)
    BY <1>1, <1>2, <1>b, SessUpdate DEF IInv, TypeOK
  <1>4. TypeOK'
    BY <1>1, <1>3
       DEF IInv, TypeOK, Stages, SessBecomes, ReLogin, ClaimMatchHold,
           Claimable
  <1>5. UsedBeforePlaying'
    BY <1>1
       DEF IInv, TypeOK, UsedBeforePlaying, ReLogin, ClaimMatchHold,
           Claimable
  <1>6. SeatSound(p, r)
    BY <1>1, <1>2, SeatKnown, NoneAssumption
       DEF SeatSound, IInv, TypeOK, InMatch, ReLogin, ClaimMatchHold,
           Claimable
  <1>7. ASSUME NEW q \in Players, q # p PROVE Undisturbed(q)
    BY <1>1, <1>7
       DEF Undisturbed, IInv, TypeOK, UsedBeforePlaying, InMatch,
           ReLogin, ClaimMatchHold, Claimable
  <1> QED
    BY <1>1, <1>2, <1>3, <1>4, <1>5, <1>6, <1>7, Frame

\* SoftResumeRefuse with the cooldown over.
LEMMA SoftResumeReset ==
  ASSUME IInv, NEW c \in Conns, SoftResumeRefuse(c), sess' # sess
  PROVE  IInv'
  <1> DEFINE p == owner[c]
             r == [sess[p] EXCEPT !.fails = 0]
  <1>1. p \in Players /\ sess[p] \in Session
    BY DEF IInv, TypeOK, SoftResumeRefuse, clientVars
  <1>2. /\ r \in Session /\ r.member = sess[p].member
        /\ r.playing = sess[p].playing /\ r.loading = sess[p].loading
        /\ r.hold = sess[p].hold /\ r.await = sess[p].await
        /\ r.gen = sess[p].gen /\ r.pending = sess[p].pending
    BY <1>1 DEF Session
  <1>b. sess' = [sess EXCEPT ![p] = r]
    BY DEF SoftResumeRefuse, clientVars
  <1> HIDE DEF r
  <1>3. SessBecomes(p, r)
    BY <1>1, <1>2, <1>b, SessUpdate DEF IInv, TypeOK
  <1>4. TypeOK'
    BY <1>1, <1>3
       DEF IInv, TypeOK, Stages, SessBecomes, SoftResumeRefuse,
           clientVars
  <1>5. UsedBeforePlaying'
    BY <1>1 DEF IInv, TypeOK, UsedBeforePlaying, SoftResumeRefuse, clientVars
  <1>6. SeatSound(p, r)
    BY <1>1, <1>2, SeatKnown, NoneAssumption
       DEF SeatSound, IInv, TypeOK, InMatch, SoftResumeRefuse,
           clientVars
  <1>7. ASSUME NEW q \in Players, q # p PROVE Undisturbed(q)
    BY <1>1, <1>7
       DEF Undisturbed, IInv, TypeOK, UsedBeforePlaying, InMatch,
           SoftResumeRefuse, clientVars
  <1> QED
    BY <1>1, <1>2, <1>3, <1>4, <1>5, <1>6, <1>7, Frame

\* CompleteMatchResume: the seat plays on an armed clock.
LEMMA CompleteStands ==
  ASSUME IInv, NEW c \in Conns, CompleteMatchResume(c), ClaimStands(c)
  PROVE  IInv'
  <1> DEFINE p == owner[c]
             r == Resume(sess[p])
  <1>1. p \in Players /\ sess[p] \in Session
    BY DEF IInv, TypeOK, CompleteMatchResume, ClaimStands, Unwind, clientVars
  <1>2. /\ r \in Session /\ r.member = sess[p].member /\ r.playing = TRUE
        /\ r.loading = FALSE /\ r.hold = FALSE /\ r.await = TRUE
        /\ r.gen = sess[p].gen + 1 /\ r.pending = None
    BY <1>1, ResumeFields
  <1>b. sess' = [sess EXCEPT ![p] = r]
    BY DEF CompleteMatchResume, ClaimStands, Unwind, clientVars
  <1> HIDE DEF r
  <1>3. SessBecomes(p, r)
    BY <1>1, <1>2, <1>b, SessUpdate DEF IInv, TypeOK
  <1>4. TypeOK'
    BY <1>1, <1>3
       DEF IInv, TypeOK, Stages, SessBecomes, CompleteMatchResume,
           ClaimStands, Unwind, clientVars
  <1>5. UsedBeforePlaying'
    BY <1>1
       DEF IInv, TypeOK, UsedBeforePlaying, CompleteMatchResume,
           ClaimStands, Unwind, clientVars
  <1>6. SeatSound(p, r)
    BY <1>1, <1>2, SeatKnown, NoneAssumption
       DEF SeatSound, IInv, TypeOK, InMatch, CompleteMatchResume,
           ClaimStands, Unwind, clientVars
  <1>7. ASSUME NEW q \in Players, q # p PROVE Undisturbed(q)
    BY <1>1, <1>7
       DEF Undisturbed, IInv, TypeOK, UsedBeforePlaying, InMatch,
           CompleteMatchResume, ClaimStands, Unwind, clientVars
  <1> QED
    BY <1>1, <1>2, <1>3, <1>4, <1>5, <1>6, <1>7, Frame

\* HoldDeadline: time only.
LEMMA HoldDeadlineInv ==
  ASSUME IInv, NEW p \in Players, HoldDeadline(p)
  PROVE  IInv'
  <1> DEFINE r == [sess[p] EXCEPT !.overdue = TRUE]
  <1>1. p \in Players /\ sess[p] \in Session
    BY DEF IInv, TypeOK, HoldDeadline, clientVars
  <1>2. /\ r \in Session /\ r.member = sess[p].member
        /\ r.playing = sess[p].playing /\ r.loading = sess[p].loading
        /\ r.hold = sess[p].hold /\ r.await = sess[p].await
        /\ r.gen = sess[p].gen /\ r.pending = sess[p].pending
    BY <1>1 DEF Session
  <1>b. sess' = [sess EXCEPT ![p] = r]
    BY DEF HoldDeadline, clientVars
  <1> HIDE DEF r
  <1>3. SessBecomes(p, r)
    BY <1>1, <1>2, <1>b, SessUpdate DEF IInv, TypeOK
  <1>4. TypeOK'
    BY <1>1, <1>3
       DEF IInv, TypeOK, Stages, SessBecomes, HoldDeadline, clientVars
  <1>5. UsedBeforePlaying'
    BY <1>1 DEF IInv, TypeOK, UsedBeforePlaying, HoldDeadline, clientVars
  <1>6. SeatSound(p, r)
    BY <1>1, <1>2, SeatKnown, NoneAssumption
       DEF SeatSound, IInv, TypeOK, InMatch, HoldDeadline, clientVars
  <1>7. ASSUME NEW q \in Players, q # p PROVE Undisturbed(q)
    BY <1>1, <1>7
       DEF Undisturbed, IInv, TypeOK, UsedBeforePlaying, InMatch,
           HoldDeadline, clientVars
  <1> QED
    BY <1>1, <1>2, <1>3, <1>4, <1>5, <1>6, <1>7, Frame

\* AckWindowCloses: time only.
LEMMA AckWindowClosesInv ==
  ASSUME IInv, NEW p \in Players, AckWindowCloses(p)
  PROVE  IInv'
  <1> DEFINE r == [sess[p] EXCEPT !.fresh = FALSE]
  <1>1. p \in Players /\ sess[p] \in Session
    BY DEF IInv, TypeOK, AckWindowCloses, clientVars
  <1>2. /\ r \in Session /\ r.member = sess[p].member
        /\ r.playing = sess[p].playing /\ r.loading = sess[p].loading
        /\ r.hold = sess[p].hold /\ r.await = sess[p].await
        /\ r.gen = sess[p].gen /\ r.pending = sess[p].pending
    BY <1>1 DEF Session
  <1>b. sess' = [sess EXCEPT ![p] = r]
    BY DEF AckWindowCloses, clientVars
  <1> HIDE DEF r
  <1>3. SessBecomes(p, r)
    BY <1>1, <1>2, <1>b, SessUpdate DEF IInv, TypeOK
  <1>4. TypeOK'
    BY <1>1, <1>3
       DEF IInv, TypeOK, Stages, SessBecomes, AckWindowCloses,
           clientVars
  <1>5. UsedBeforePlaying'
    BY <1>1 DEF IInv, TypeOK, UsedBeforePlaying, AckWindowCloses, clientVars
  <1>6. SeatSound(p, r)
    BY <1>1, <1>2, SeatKnown, NoneAssumption
       DEF SeatSound, IInv, TypeOK, InMatch, AckWindowCloses,
           clientVars
  <1>7. ASSUME NEW q \in Players, q # p PROVE Undisturbed(q)
    BY <1>1, <1>7
       DEF Undisturbed, IInv, TypeOK, UsedBeforePlaying, InMatch,
           AckWindowCloses, clientVars
  <1> QED
    BY <1>1, <1>2, <1>3, <1>4, <1>5, <1>6, <1>7, Frame

\* CooldownEnds: time only.
LEMMA CooldownEndsInv ==
  ASSUME IInv, NEW p \in Players, CooldownEnds(p)
  PROVE  IInv'
  <1> DEFINE r == [sess[p] EXCEPT !.cooling = FALSE]
  <1>1. p \in Players /\ sess[p] \in Session
    BY DEF IInv, TypeOK, CooldownEnds, clientVars
  <1>2. /\ r \in Session /\ r.member = sess[p].member
        /\ r.playing = sess[p].playing /\ r.loading = sess[p].loading
        /\ r.hold = sess[p].hold /\ r.await = sess[p].await
        /\ r.gen = sess[p].gen /\ r.pending = sess[p].pending
    BY <1>1 DEF Session
  <1>b. sess' = [sess EXCEPT ![p] = r]
    BY DEF CooldownEnds, clientVars
  <1> HIDE DEF r
  <1>3. SessBecomes(p, r)
    BY <1>1, <1>2, <1>b, SessUpdate DEF IInv, TypeOK
  <1>4. TypeOK'
    BY <1>1, <1>3
       DEF IInv, TypeOK, Stages, SessBecomes, CooldownEnds, clientVars
  <1>5. UsedBeforePlaying'
    BY <1>1 DEF IInv, TypeOK, UsedBeforePlaying, CooldownEnds, clientVars
  <1>6. SeatSound(p, r)
    BY <1>1, <1>2, SeatKnown, NoneAssumption
       DEF SeatSound, IInv, TypeOK, InMatch, CooldownEnds, clientVars
  <1>7. ASSUME NEW q \in Players, q # p PROVE Undisturbed(q)
    BY <1>1, <1>7
       DEF Undisturbed, IInv, TypeOK, UsedBeforePlaying, InMatch,
           CooldownEnds, clientVars
  <1> QED
    BY <1>1, <1>2, <1>3, <1>4, <1>5, <1>6, <1>7, Frame

\* QuitRoom: a held seat of another member keeps the clock armed.
LEMMA QuitRoomInv ==
  ASSUME IInv, NEW p \in Players, QuitRoom(p)
  PROVE  IInv'
  <1> DEFINE r == Vacate(sess[p])
  <1>1. p \in Players /\ sess[p] \in Session
    BY DEF IInv, TypeOK, QuitRoom, LeaveEffect, ArmedAfterLeave
  <1>2. /\ r \in Session /\ r.member = FALSE /\ r.playing = FALSE
        /\ r.loading = FALSE /\ r.hold = FALSE /\ r.await = sess[p].await
        /\ r.gen = sess[p].gen + 1 /\ r.pending = None
    BY <1>1, VacateFields
  <1>b. sess' = [sess EXCEPT ![p] = r]
    BY DEF QuitRoom, LeaveEffect, ArmedAfterLeave
  <1> HIDE DEF r
  <1>3. SessBecomes(p, r)
    BY <1>1, <1>2, <1>b, SessUpdate DEF IInv, TypeOK
  <1>4. TypeOK'
    BY <1>1, <1>3
       DEF IInv, TypeOK, Stages, SessBecomes, QuitRoom, LeaveEffect,
           ArmedAfterLeave
  <1>5. UsedBeforePlaying'
    BY <1>1
       DEF IInv, TypeOK, UsedBeforePlaying, QuitRoom, LeaveEffect,
           ArmedAfterLeave
  <1>6. SeatSound(p, r)
    BY <1>1, <1>2, SeatKnown, NoneAssumption
       DEF SeatSound, IInv, TypeOK, InMatch, QuitRoom, LeaveEffect,
           ArmedAfterLeave
  <1>7. ASSUME NEW q \in Players, q # p PROVE Undisturbed(q)
    BY <1>1, <1>7
       DEF Undisturbed, IInv, TypeOK, UsedBeforePlaying, InMatch,
           QuitRoom, LeaveEffect, ArmedAfterLeave
  <1> QED
    BY <1>1, <1>2, <1>3, <1>4, <1>5, <1>6, <1>7, Frame

\* ExpireMatchHold of the current generation vacates the seat.
LEMMA ExpireHeld ==
  ASSUME IInv, NEW p \in Players, NEW g \in Nat, ExpireMatchHold(p, g),
         sess[p].hold /\ sess[p].gen = g
  PROVE  IInv'
  <1> DEFINE r == Vacate(sess[p])
  <1>1. p \in Players /\ sess[p] \in Session
    BY
       DEF IInv, TypeOK, ExpireMatchHold, LeaveEffect, ArmedAfterLeave,
           clientVars
  <1>2. /\ r \in Session /\ r.member = FALSE /\ r.playing = FALSE
        /\ r.loading = FALSE /\ r.hold = FALSE /\ r.await = sess[p].await
        /\ r.gen = sess[p].gen + 1 /\ r.pending = None
    BY <1>1, VacateFields
  <1>b. sess' = [sess EXCEPT ![p] = r]
    BY DEF ExpireMatchHold, LeaveEffect, ArmedAfterLeave, clientVars
  <1> HIDE DEF r
  <1>3. SessBecomes(p, r)
    BY <1>1, <1>2, <1>b, SessUpdate DEF IInv, TypeOK
  <1>4. TypeOK'
    BY <1>1, <1>3
       DEF IInv, TypeOK, Stages, SessBecomes, ExpireMatchHold,
           LeaveEffect, ArmedAfterLeave, clientVars
  <1>5. UsedBeforePlaying'
    BY <1>1
       DEF IInv, TypeOK, UsedBeforePlaying, ExpireMatchHold,
           LeaveEffect, ArmedAfterLeave, clientVars
  <1>6. SeatSound(p, r)
    BY <1>1, <1>2, SeatKnown, NoneAssumption
       DEF SeatSound, IInv, TypeOK, InMatch, ExpireMatchHold,
           LeaveEffect, ArmedAfterLeave, clientVars
  <1>7. ASSUME NEW q \in Players, q # p PROVE Undisturbed(q)
    BY <1>1, <1>7
       DEF Undisturbed, IInv, TypeOK, UsedBeforePlaying, InMatch,
           ExpireMatchHold, LeaveEffect, ArmedAfterLeave, clientVars
  <1> QED
    BY <1>1, <1>2, <1>3, <1>4, <1>5, <1>6, <1>7, Frame

\* LobbyEOF of a session without a room.
LEMMA LobbyEOFOut ==
  ASSUME IInv, NEW p \in Players, LobbyEOF(p), ~sess[p].member
  PROVE  IInv'
  <1> DEFINE r == ClearHold(sess[p])
  <1>1. p \in Players /\ sess[p] \in Session
    BY DEF IInv, TypeOK, LobbyEOF
  <1>2. /\ r \in Session /\ r.member = sess[p].member
        /\ r.playing = sess[p].playing /\ r.loading = sess[p].loading
        /\ r.hold = FALSE /\ r.await = sess[p].await
        /\ r.gen = sess[p].gen + 1 /\ r.pending = None
    BY <1>1, ClearHoldFields
  <1>b. sess' = [sess EXCEPT ![p] = r]
    BY DEF LobbyEOF
  <1> HIDE DEF r
  <1>3. SessBecomes(p, r)
    BY <1>1, <1>2, <1>b, SessUpdate DEF IInv, TypeOK
  <1>4. TypeOK'
    BY <1>1, <1>3 DEF IInv, TypeOK, Stages, SessBecomes, LobbyEOF
  <1>5. UsedBeforePlaying'
    BY <1>1 DEF IInv, TypeOK, UsedBeforePlaying, LobbyEOF
  <1>6. SeatSound(p, r)
    BY <1>1, <1>2, SeatKnown, NoneAssumption
       DEF SeatSound, IInv, TypeOK, InMatch, LobbyEOF
  <1>7. ASSUME NEW q \in Players, q # p PROVE Undisturbed(q)
    BY <1>1, <1>7
       DEF Undisturbed, IInv, TypeOK, UsedBeforePlaying, InMatch,
           LobbyEOF
  <1> QED
    BY <1>1, <1>2, <1>3, <1>4, <1>5, <1>6, <1>7, Frame

\* Arm: a playing session is a member, so the clock is armed.
LEMMA ArmInv ==
  ASSUME IInv, NEW c \in Conns, Arm(c)
  PROVE  IInv'
  <1>3. sess' = sess
    BY DEF IInv, TypeOK, Arm, At, clientVars
  <1>4. TypeOK'
    BY <1>3 DEF IInv, TypeOK, Stages, Session, Arm, At, clientVars
  <1>5. (HoldIsReserved /\ ResumeNeedsHold /\ HeldKeepsClock)'
    BY <1>3
       DEF IInv, TypeOK, HoldIsReserved, ResumeNeedsHold,
           HeldKeepsClock, Arm, At, clientVars
  <1>6. /\ (MatchMembers /\ LoadingIsFresh /\ PlayingIsArmed)'
        /\ UsedBeforePlaying'
    BY <1>3
       DEF IInv, TypeOK, HoldIsReserved, MatchMembers, LoadingIsFresh,
           PlayingIsArmed, UsedBeforePlaying, InMatch, Arm, At,
           clientVars
  <1> QED
    BY <1>4, <1>5, <1>6 DEF IInv

\* EOF: the handler starts to unwind.
LEMMA EOFInv ==
  ASSUME IInv, NEW c \in Conns, EOF(c)
  PROVE  IInv'
  <1>3. sess' = sess
    BY DEF IInv, TypeOK, EOF, At, Unwind, sessionVars, clientVars
  <1>4. TypeOK'
    BY <1>3
       DEF IInv, TypeOK, Stages, Session, EOF, At, Unwind, sessionVars,
           clientVars
  <1>5. (HoldIsReserved /\ ResumeNeedsHold /\ HeldKeepsClock)'
    BY <1>3
       DEF IInv, TypeOK, HoldIsReserved, ResumeNeedsHold,
           HeldKeepsClock, EOF, At, Unwind, sessionVars, clientVars
  <1>6. /\ (MatchMembers /\ LoadingIsFresh /\ PlayingIsArmed)'
        /\ UsedBeforePlaying'
    BY <1>3
       DEF IInv, TypeOK, HoldIsReserved, MatchMembers, LoadingIsFresh,
           PlayingIsArmed, UsedBeforePlaying, InMatch, EOF, At, Unwind,
           sessionVars, clientVars
  <1> QED
    BY <1>4, <1>5, <1>6 DEF IInv

\* DisarmIfIdle: nobody is playing or held.
LEMMA DisarmIfIdleInv ==
  ASSUME IInv, NEW c \in Conns, DisarmIfIdle(c)
  PROVE  IInv'
  <1>3. sess' = sess
    BY DEF IInv, TypeOK, DisarmIfIdle, Alive, At, clientVars
  <1>4. TypeOK'
    BY <1>3
       DEF IInv, TypeOK, Stages, Session, DisarmIfIdle, Alive, At,
           clientVars
  <1>5. (HoldIsReserved /\ ResumeNeedsHold /\ HeldKeepsClock)'
    BY <1>3
       DEF IInv, TypeOK, HoldIsReserved, ResumeNeedsHold,
           HeldKeepsClock, DisarmIfIdle, Alive, At, clientVars
  <1>6. /\ (MatchMembers /\ LoadingIsFresh /\ PlayingIsArmed)'
        /\ UsedBeforePlaying'
    BY <1>3
       DEF IInv, TypeOK, HoldIsReserved, MatchMembers, LoadingIsFresh,
           PlayingIsArmed, UsedBeforePlaying, InMatch, DisarmIfIdle,
           Alive, At, clientVars
  <1> QED
    BY <1>4, <1>5, <1>6 DEF IInv

\* ReLogin without a hold, or on an overdue one.
LEMMA ReLoginOther ==
  ASSUME IInv, NEW c \in Conns, NEW p \in Players, ReLogin(c, p),
         ~(Claimable(p) /\ ~sess[p].overdue)
  PROVE  IInv'
  <1>3. sess' = sess
    BY DEF IInv, TypeOK, ReLogin, ClaimMatchHold
  <1>4. TypeOK'
    BY <1>3 DEF IInv, TypeOK, Stages, Session, ReLogin, ClaimMatchHold
  <1>5. (HoldIsReserved /\ ResumeNeedsHold /\ HeldKeepsClock)'
    BY <1>3
       DEF IInv, TypeOK, HoldIsReserved, ResumeNeedsHold,
           HeldKeepsClock, ReLogin, ClaimMatchHold
  <1>6. /\ (MatchMembers /\ LoadingIsFresh /\ PlayingIsArmed)'
        /\ UsedBeforePlaying'
    BY <1>3
       DEF IInv, TypeOK, HoldIsReserved, MatchMembers, LoadingIsFresh,
           PlayingIsArmed, UsedBeforePlaying, InMatch, ReLogin,
           ClaimMatchHold
  <1> QED
    BY <1>4, <1>5, <1>6 DEF IInv

\* TakeoverMatchSession that is rejected.
LEMMA TakeoverNone ==
  ASSUME IInv, NEW c \in Conns, TakeoverMatchSession(c), ~LiveOwner(owner[c])
  PROVE  IInv'
  <1>3. sess' = sess
    BY DEF IInv, TypeOK, TakeoverMatchSession, clientVars
  <1>4. TypeOK'
    BY <1>3 DEF IInv, TypeOK, Stages, Session, TakeoverMatchSession, clientVars
  <1>5. (HoldIsReserved /\ ResumeNeedsHold /\ HeldKeepsClock)'
    BY <1>3
       DEF IInv, TypeOK, HoldIsReserved, ResumeNeedsHold,
           HeldKeepsClock, TakeoverMatchSession, clientVars
  <1>6. /\ (MatchMembers /\ LoadingIsFresh /\ PlayingIsArmed)'
        /\ UsedBeforePlaying'
    BY <1>3
       DEF IInv, TypeOK, HoldIsReserved, MatchMembers, LoadingIsFresh,
           PlayingIsArmed, UsedBeforePlaying, InMatch,
           TakeoverMatchSession, clientVars
  <1> QED
    BY <1>4, <1>5, <1>6 DEF IInv

\* Retire: a stale transport is marked and closed.
LEMMA RetireInv ==
  ASSUME IInv, NEW c \in Conns, Retire(c)
  PROVE  IInv'
  <1>3. sess' = sess
    BY DEF IInv, TypeOK, Retire, sessionVars, clientVars
  <1>4. TypeOK'
    BY <1>3 DEF IInv, TypeOK, Stages, Session, Retire, sessionVars, clientVars
  <1>5. (HoldIsReserved /\ ResumeNeedsHold /\ HeldKeepsClock)'
    BY <1>3
       DEF IInv, TypeOK, HoldIsReserved, ResumeNeedsHold,
           HeldKeepsClock, Retire, sessionVars, clientVars
  <1>6. /\ (MatchMembers /\ LoadingIsFresh /\ PlayingIsArmed)'
        /\ UsedBeforePlaying'
    BY <1>3
       DEF IInv, TypeOK, HoldIsReserved, MatchMembers, LoadingIsFresh,
           PlayingIsArmed, UsedBeforePlaying, InMatch, Retire,
           sessionVars, clientVars
  <1> QED
    BY <1>4, <1>5, <1>6 DEF IInv

\* Reclaim after the hold is gone or overdue.
LEMMA ReclaimOther ==
  ASSUME IInv, NEW c \in Conns, Reclaim(c), ~(Claimable(owner[c]) /\
         ~sess[owner[c]].overdue)
  PROVE  IInv'
  <1>3. sess' = sess
    BY DEF IInv, TypeOK, Reclaim, ClaimMatchHold, clientVars
  <1>4. TypeOK'
    BY <1>3
       DEF IInv, TypeOK, Stages, Session, Reclaim, ClaimMatchHold,
           clientVars
  <1>5. (HoldIsReserved /\ ResumeNeedsHold /\ HeldKeepsClock)'
    BY <1>3
       DEF IInv, TypeOK, HoldIsReserved, ResumeNeedsHold,
           HeldKeepsClock, Reclaim, ClaimMatchHold, clientVars
  <1>6. /\ (MatchMembers /\ LoadingIsFresh /\ PlayingIsArmed)'
        /\ UsedBeforePlaying'
    BY <1>3
       DEF IInv, TypeOK, HoldIsReserved, MatchMembers, LoadingIsFresh,
           PlayingIsArmed, UsedBeforePlaying, InMatch, Reclaim,
           ClaimMatchHold, clientVars
  <1> QED
    BY <1>4, <1>5, <1>6 DEF IInv

\* SoftResumeRefuse, refusing or below the limit.
LEMMA SoftResumeDecided ==
  ASSUME IInv, NEW c \in Conns, SoftResumeRefuse(c), sess' = sess
  PROVE  IInv'
  <1>3. sess' = sess
    BY DEF IInv, TypeOK, SoftResumeRefuse, clientVars
  <1>4. TypeOK'
    BY <1>3 DEF IInv, TypeOK, Stages, Session, SoftResumeRefuse, clientVars
  <1>5. (HoldIsReserved /\ ResumeNeedsHold /\ HeldKeepsClock)'
    BY <1>3
       DEF IInv, TypeOK, HoldIsReserved, ResumeNeedsHold,
           HeldKeepsClock, SoftResumeRefuse, clientVars
  <1>6. /\ (MatchMembers /\ LoadingIsFresh /\ PlayingIsArmed)'
        /\ UsedBeforePlaying'
    BY <1>3
       DEF IInv, TypeOK, HoldIsReserved, MatchMembers, LoadingIsFresh,
           PlayingIsArmed, UsedBeforePlaying, InMatch,
           SoftResumeRefuse, clientVars
  <1> QED
    BY <1>4, <1>5, <1>6 DEF IInv

\* ReLoginAck: written or not.
LEMMA ReLoginAckInv ==
  ASSUME IInv, NEW c \in Conns, ReLoginAck(c)
  PROVE  IInv'
  <1>3. sess' = sess
    BY DEF IInv, TypeOK, ReLoginAck, Unwind, sessionVars, clientVars
  <1>4. TypeOK'
    BY <1>3
       DEF IInv, TypeOK, Stages, Session, ReLoginAck, Unwind,
           sessionVars, clientVars
  <1>5. (HoldIsReserved /\ ResumeNeedsHold /\ HeldKeepsClock)'
    BY <1>3
       DEF IInv, TypeOK, HoldIsReserved, ResumeNeedsHold,
           HeldKeepsClock, ReLoginAck, Unwind, sessionVars, clientVars
  <1>6. /\ (MatchMembers /\ LoadingIsFresh /\ PlayingIsArmed)'
        /\ UsedBeforePlaying'
    BY <1>3
       DEF IInv, TypeOK, HoldIsReserved, MatchMembers, LoadingIsFresh,
           PlayingIsArmed, UsedBeforePlaying, InMatch, ReLoginAck,
           Unwind, sessionVars, clientVars
  <1> QED
    BY <1>4, <1>5, <1>6 DEF IInv

\* CompleteMatchResume of a lost claim.
LEMMA CompleteLost ==
  ASSUME IInv, NEW c \in Conns, CompleteMatchResume(c), ~ClaimStands(c)
  PROVE  IInv'
  <1>3. sess' = sess
    BY DEF IInv, TypeOK, CompleteMatchResume, Unwind, clientVars
  <1>4. TypeOK'
    BY <1>3
       DEF IInv, TypeOK, Stages, Session, CompleteMatchResume, Unwind,
           clientVars
  <1>5. (HoldIsReserved /\ ResumeNeedsHold /\ HeldKeepsClock)'
    BY <1>3
       DEF IInv, TypeOK, HoldIsReserved, ResumeNeedsHold,
           HeldKeepsClock, CompleteMatchResume, Unwind, clientVars
  <1>6. /\ (MatchMembers /\ LoadingIsFresh /\ PlayingIsArmed)'
        /\ UsedBeforePlaying'
    BY <1>3
       DEF IInv, TypeOK, HoldIsReserved, MatchMembers, LoadingIsFresh,
           PlayingIsArmed, UsedBeforePlaying, InMatch,
           CompleteMatchResume, Unwind, clientVars
  <1> QED
    BY <1>4, <1>5, <1>6 DEF IInv

\* ExpireMatchHold of a stale generation: the live timer stays.
LEMMA ExpireStale ==
  ASSUME IInv, NEW p \in Players, NEW g \in Nat, ExpireMatchHold(p, g),
         ~(sess[p].hold /\ sess[p].gen = g)
  PROVE  IInv'
  <1>3. sess' = sess
    BY DEF IInv, TypeOK, ExpireMatchHold, clientVars
  <1>4. TypeOK'
    BY <1>3 DEF IInv, TypeOK, Stages, Session, ExpireMatchHold, clientVars
  <1>5. (HoldIsReserved /\ ResumeNeedsHold /\ HeldKeepsClock)'
    BY <1>3
       DEF IInv, TypeOK, HoldIsReserved, ResumeNeedsHold,
           HeldKeepsClock, ExpireMatchHold, clientVars
  <1>6. /\ (MatchMembers /\ LoadingIsFresh /\ PlayingIsArmed)'
        /\ UsedBeforePlaying'
    BY <1>3
       DEF IInv, TypeOK, HoldIsReserved, MatchMembers, LoadingIsFresh,
           PlayingIsArmed, UsedBeforePlaying, InMatch, ExpireMatchHold,
           clientVars
  <1> QED
    BY <1>4, <1>5, <1>6 DEF IInv

\* LobbyEOF of a room member: the seat is preserved.
LEMMA LobbyEOFMember ==
  ASSUME IInv, NEW p \in Players, LobbyEOF(p), sess[p].member
  PROVE  IInv'
  <1>3. sess' = sess
    BY DEF IInv, TypeOK, LobbyEOF
  <1>4. TypeOK'
    BY <1>3 DEF IInv, TypeOK, Stages, Session, LobbyEOF
  <1>5. (HoldIsReserved /\ ResumeNeedsHold /\ HeldKeepsClock)'
    BY <1>3
       DEF IInv, TypeOK, HoldIsReserved, ResumeNeedsHold,
           HeldKeepsClock, LobbyEOF
  <1>6. /\ (MatchMembers /\ LoadingIsFresh /\ PlayingIsArmed)'
        /\ UsedBeforePlaying'
    BY <1>3
       DEF IInv, TypeOK, HoldIsReserved, MatchMembers, LoadingIsFresh,
           PlayingIsArmed, UsedBeforePlaying, InMatch, LobbyEOF
  <1> QED
    BY <1>4, <1>5, <1>6 DEF IInv

\* IdleTick: nobody is playing or held.
LEMMA IdleTickInv ==
  ASSUME IInv, IdleTick
  PROVE  IInv'
  <1>3. sess' = sess
    BY DEF IInv, TypeOK, IdleTick, Alive, clientVars
  <1>4. TypeOK'
    BY <1>3 DEF IInv, TypeOK, Stages, Session, IdleTick, Alive, clientVars
  <1>5. (HoldIsReserved /\ ResumeNeedsHold /\ HeldKeepsClock)'
    BY <1>3
       DEF IInv, TypeOK, HoldIsReserved, ResumeNeedsHold,
           HeldKeepsClock, IdleTick, Alive, clientVars
  <1>6. /\ (MatchMembers /\ LoadingIsFresh /\ PlayingIsArmed)'
        /\ UsedBeforePlaying'
    BY <1>3
       DEF IInv, TypeOK, HoldIsReserved, MatchMembers, LoadingIsFresh,
           PlayingIsArmed, UsedBeforePlaying, InMatch, IdleTick, Alive,
           clientVars
  <1> QED
    BY <1>4, <1>5, <1>6 DEF IInv

\* A stuttering step.
LEMMA StutterInv ==
  ASSUME IInv, UNCHANGED vars
  PROVE  IInv'
  <1>3. sess' = sess
    BY DEF IInv, TypeOK, vars
  <1>4. TypeOK'
    BY <1>3 DEF IInv, TypeOK, Stages, Session, vars
  <1>5. (HoldIsReserved /\ ResumeNeedsHold /\ HeldKeepsClock)'
    BY <1>3
       DEF IInv, TypeOK, HoldIsReserved, ResumeNeedsHold,
           HeldKeepsClock, vars
  <1>6. /\ (MatchMembers /\ LoadingIsFresh /\ PlayingIsArmed)'
        /\ UsedBeforePlaying'
    BY <1>3
       DEF IInv, TypeOK, HoldIsReserved, MatchMembers, LoadingIsFresh,
           PlayingIsArmed, UsedBeforePlaying, InMatch, vars
  <1> QED
    BY <1>4, <1>5, <1>6 DEF IInv

-----------------------------------------------------------------------------
\* The invariant holds just after LoadMap.
LEMMA InitInv == Init => IInv
  <1> SUFFICES ASSUME Init PROVE IInv
    OBVIOUS
  <1>1. ASSUME NEW p \in Players
        PROVE  /\ sess[p] \in Session
               /\ ~sess[p].playing /\ ~sess[p].hold /\ sess[p].pending = None
               /\ sess[p].member
    BY <1>1 DEF Init, Seated, Session
  <1>2. sess \in [Players -> Session]
    BY <1>1 DEF Init
  <1>3. owner \in [Conns -> Players \cup {None}]
        /\ \A c \in Conns : pc[c] # "unused" => owner[c] \in Players
    BY DEF Init
  <1>4. TypeOK
    BY <1>2, <1>3 DEF Init, TypeOK, Stages
  <1>5. HoldIsReserved /\ ResumeNeedsHold /\ HeldKeepsClock
    BY <1>1 DEF HoldIsReserved, ResumeNeedsHold, HeldKeepsClock
  <1>6. MatchMembers /\ PlayingIsArmed
    BY <1>1 DEF MatchMembers, PlayingIsArmed
  <1>7. LoadingIsFresh /\ UsedBeforePlaying
    BY DEF Init, LoadingIsFresh, InMatch, UsedBeforePlaying
  <1> QED
    BY <1>4, <1>5, <1>6, <1>7 DEF IInv

\* Every section of a connection's handler preserves the invariant.
LEMMA HandlerInv ==
  ASSUME IInv, NEW c \in Conns, Handler(c)
  PROVE  IInv'
  <1>1. CASE StartPlay(c) \/ Arm(c) \/ Ping(c) \/ LeaveGS(c)
    BY <1>1, StartPlayInv, ArmInv, PingInv, LeaveGSInv
  <1>2. CASE EOF(c) \/ NoteSoftResumeEOF(c) \/ DisarmIfIdle(c)
    BY <1>2, EOFInv, NoteSoftResumeEOFInv, DisarmIfIdleInv
  <1>3. CASE DetachGS(c)
    BY <1>3, DetachGSOther, DetachGSHeld, DetachGSIdle
  <1>4. ASSUME NEW p \in Players, ReLogin(c, p) PROVE IInv'
    BY <1>4, ReLoginHeld, ReLoginOther
  <1>5. CASE TakeoverMatchSession(c)
    BY <1>5, TakeoverHeld, TakeoverNone
  <1>6. CASE Retire(c) \/ Reclaim(c)
    BY <1>6, RetireInv, ReclaimHeld, ReclaimOther
  <1>7. CASE SoftResumeRefuse(c)
    BY <1>7, SoftResumeReset, SoftResumeDecided
  <1>8. CASE AbandonMatchResume(c) \/ ReLoginAck(c) \/ NoteSoftResumeAck(c)
    BY <1>8, AbandonMatchResumeInv, ReLoginAckInv, NoteSoftResumeAckInv
  <1>9. CASE CompleteMatchResume(c)
    BY <1>9, CompleteStands, CompleteLost
  <1> QED
    BY <1>1, <1>2, <1>3, <1>4, <1>5, <1>6, <1>7, <1>8, <1>9 DEF Handler

\* So does every other step: the clock's, the timers' and the lobby's.
LEMMA NextInv == IInv /\ [Next]_vars => IInv'
  <1> SUFFICES ASSUME IInv, [Next]_vars PROVE IInv'
    OBVIOUS
  <1>1. ASSUME NEW c \in Conns, Handler(c) PROVE IInv'
    BY <1>1, HandlerInv
  <1>2. ASSUME NEW p \in Players,
               HoldDeadline(p) \/ AckWindowCloses(p) \/ CooldownEnds(p)
        PROVE  IInv'
    BY <1>2, HoldDeadlineInv, AckWindowClosesInv, CooldownEndsInv
  <1>3. ASSUME NEW p \in Players, QuitRoom(p) \/ LobbyEOF(p)
        PROVE  IInv'
    BY <1>3, QuitRoomInv, LobbyEOFOut, LobbyEOFMember
  <1>4. ASSUME NEW t \in timers, ExpireMatchHold(t[1], t[2])
        PROVE  IInv'
    <2>1. t[1] \in Players /\ t[2] \in Nat
      BY DEF IInv, TypeOK
    <2> QED
      BY <1>4, <2>1, ExpireHeld, ExpireStale
  <1>5. CASE IdleTick
    BY <1>5, IdleTickInv
  <1>6. CASE UNCHANGED vars
    BY <1>6, StutterInv
  <1> QED
    BY <1>1, <1>2, <1>3, <1>4, <1>5, <1>6 DEF Next

\* IInv is an invariant of the reconnect machinery.
THEOREM Invariance == Spec => []IInv
  BY InitInv, NextInv, PTL DEF Spec

\* Every value stays in its range: sessions, timers, handlers and owners of
\* the reconnect machinery, for any number of players and connections.
THEOREM TypeCorrect == Spec => []TypeOK
  <1>1. IInv => TypeOK
    BY DEF IInv
  <1> QED
    BY <1>1, Invariance, PTL

\* A held seat is always a complete reservation with its own timer pending
\* (DetachGSForDisconnect, TakeoverMatchSession, expireMatchHold).
THEOREM HeldSeatsAreReserved == Spec => []HoldIsReserved
  <1>1. IInv => HoldIsReserved
    BY DEF IInv
  <1> QED
    BY <1>1, Invariance, PTL

\* A pending claim is always a claim on a live hold (ClaimMatchHold,
\* CompleteMatchResume, clearMatchHoldLocked).
THEOREM ClaimsAreOnHolds == Spec => []ResumeNeedsHold
  <1>1. IInv => ResumeNeedsHold
    BY DEF IInv
  <1> QED
    BY <1>1, Invariance, PTL

\* The frame clock is armed whenever a seat is held (Arm, DisarmIfIdle and
\* sendFrames against every way a hold begins).
THEOREM HeldSeatsKeepTheClock == Spec => []HeldKeepsClock
  <1>1. IInv => HeldKeepsClock
    BY DEF IInv
  <1> QED
    BY <1>1, Invariance, PTL

-----------------------------------------------------------------------------
(* The reconnect machinery implements SeatLifecycle: every section of      *)
(* every handler, timer and lobby call moves a seat as the lifecycle says, *)
(* or not at all; a seat that was left on purpose stays so; and transports *)
(* and seats agree.                                                        *)
(*                                                                         *)
(* All of it is for clients that wait for the answer to one ReLoginReq     *)
(* before they send the next (~Overlap), for any players, connections and  *)
(* fail limit; that the newest transport of a seat is known does not even  *)
(* need that.  Each action first gets a lemma that says what it does to    *)
(* the seat it changes, field by field; the invariants and the refinement  *)
(* then speak of fields only.                                              *)

Claimants == {"claimed", "refused", "accepted", "acked"}

\* A connection whose handler serves the match, or is about to.
Active(c) == pc[c] \in {"live", "arming", "resumed"}

Serves(c, p) == Active(c) /\ owner[c] = p

-----------------------------------------------------------------------------
(* What is invariant whatever clients do.                                  *)

\* An active transport is attached to its seat, or marked, or on the list of
\* the takeover that will mark it.
ActiveIsKnown ==
  \A c \in Conns : Active(c) /\ c \notin detached =>
    c \in sess[owner[c]].gs \/ \E b \in Conns : c \in stale[b]

\* A held seat has no active transport, and any other one has at most one.
OneActive ==
  \A p \in Players :
    /\ sess[p].hold => \A c \in sess[p].gs : ~Serves(c, p)
    /\ \A c, d \in sess[p].gs : Serves(c, p) /\ Serves(d, p) => c = d

\* Only a takeover in its retiring loop has transports to mark.
StaleIsRetired == \A c \in Conns : stale[c] # {} => pc[c] = "retire"

TransportInv == ActiveIsKnown /\ OneActive /\ StaleIsRetired

-----------------------------------------------------------------------------
(* What is invariant when a client has one handshake at a time.            *)

\* The handshake is the one of the client's newest connection.
NewestShakes == \A c \in Conns : pc[c] \in Handshaking => c = current[owner[c]]

\* A client that left neither loads nor has a handshake for a seat under way.
QuitIsQuiet ==
  \A p \in quit :
    /\ ~sess[p].loading
    /\ \A c \in Conns : owner[c] = p /\ pc[c] \in Handshaking => ~sess[p].member

\* A resume freeze without play, on a seat with transports, was left behind by
\* op9/0x3001.
AwaitIsLeft ==
  \A p \in Players :
    sess[p].await /\ ~sess[p].playing /\ sess[p].member /\ sess[p].gs # {} => p \in quit

\* Nobody plays on a seat while a claim on it runs through the handshake.
ClaimantsWait ==
  \A c \in Conns : pc[c] \in Claimants =>
    ~sess[owner[c]].playing /\ ~sess[owner[c]].loading

\* A session in the match has a transport.
InMatchIsAttached ==
  \A p \in Players : sess[p].playing \/ sess[p].loading => sess[p].gs # {}

ClientInv ==
  /\ NewestShakes /\ QuitIsQuiet /\ AwaitIsLeft
  /\ ClaimantsWait /\ InMatchIsAttached

-----------------------------------------------------------------------------
(* What each action does to the seats.                                     *)

\* The seat of p gets these fields, the others keep theirs.
SeatSet(p, member, playing, loading, hold, await, pending, gs) ==
  /\ sess'[p].member = member /\ sess'[p].playing = playing
  /\ sess'[p].loading = loading /\ sess'[p].hold = hold
  /\ sess'[p].await = await /\ sess'[p].pending = pending
  /\ sess'[p].gs = gs
  /\ \A q \in Players \ {p} : sess'[q] = sess[q]

\* No seat changes, but that a resume freeze may end.
Quiet ==
  \A q \in Players :
    /\ sess'[q].member = sess[q].member /\ sess'[q].playing = sess[q].playing
    /\ sess'[q].loading = sess[q].loading /\ sess'[q].hold = sess[q].hold
    /\ sess'[q].await => sess[q].await
    /\ sess'[q].pending = sess[q].pending /\ sess'[q].gs = sess[q].gs

LEMMA SeatUpdate ==
  ASSUME IInv, NEW p \in Players, NEW r, sess' = [sess EXCEPT ![p] = r]
  PROVE  SeatSet(p, r.member, r.playing, r.loading, r.hold, r.await, r.pending, r.gs)
  BY DEF IInv, TypeOK, SeatSet

LEMMA QuietUpdate ==
  ASSUME IInv, NEW p \in Players, NEW r, sess' = [sess EXCEPT ![p] = r],
         r.member = sess[p].member, r.playing = sess[p].playing,
         r.loading = sess[p].loading, r.hold = sess[p].hold,
         r.await => sess[p].await, r.pending = sess[p].pending, r.gs = sess[p].gs
  PROVE  Quiet
  BY DEF IInv, TypeOK, Quiet

LEMMA OwnerIsPlayer ==
  ASSUME IInv, NEW c \in Conns, pc[c] # "unused"
  PROVE  owner[c] \in Players /\ sess[owner[c]] \in Session
  BY DEF IInv, TypeOK

LEMMA QuietHandler ==
  ASSUME IInv, NEW c \in Conns,
         \/ Ping(c) \/ Arm(c) \/ EOF(c) \/ NoteSoftResumeEOF(c) \/ DisarmIfIdle(c)
         \/ Retire(c) \/ SoftResumeRefuse(c) \/ ReLoginAck(c) \/ NoteSoftResumeAck(c)
  PROVE  Quiet
<1> DEFINE p == owner[c]
<1>1. p \in Players /\ sess[p] \in Session
  <2>1. pc[c] # "unused"
    BY DEF Ping, Arm, EOF, NoteSoftResumeEOF, DisarmIfIdle, Retire, SoftResumeRefuse,
       ReLoginAck, NoteSoftResumeAck, At
  <2> QED
    BY <2>1, OwnerIsPlayer
<1>2. CASE sess' = sess
  BY <1>2 DEF Quiet
<1>3. CASE Ping(c)
  <2> DEFINE r == [sess[p] EXCEPT !.await = FALSE, !.fails = 0, !.fresh = FALSE]
  <2>1. sess' = [sess EXCEPT ![p] = r]
    BY <1>3 DEF Ping
  <2> HIDE DEF r
  <2> QED
    BY <1>1, <2>1, PingFields, QuietUpdate DEF r
<1>4. CASE NoteSoftResumeEOF(c)
  <2>1. sess' = [sess EXCEPT ![p] = CountEOF(sess[p])]
    BY <1>4 DEF NoteSoftResumeEOF
  <2> QED
    BY <1>1, <2>1, CountEOFFields, QuietUpdate
<1>5. ASSUME sess' = [sess EXCEPT ![p].fails = 0] PROVE Quiet
  BY <1>1, <1>5 DEF Quiet, IInv, TypeOK, Session
<1>6. ASSUME sess' = [sess EXCEPT ![p].fresh = TRUE] PROVE Quiet
  BY <1>1, <1>6 DEF Quiet, IInv, TypeOK, Session
<1> QED
  BY <1>2, <1>3, <1>4, <1>5, <1>6 DEF Arm, EOF, DisarmIfIdle, Retire, SoftResumeRefuse,
     ReLoginAck, NoteSoftResumeAck, sessionVars

\* A session that is no member has no hold for LeaveRoom to clear.
LEMMA QuietClock ==
  ASSUME IInv, NEW p \in Players,
         HoldDeadline(p) \/ AckWindowCloses(p) \/ CooldownEnds(p) \/ LobbyEOF(p) \/ IdleTick
  PROVE  Quiet
<1>1. sess[p] \in Session
  BY DEF IInv, TypeOK
<1>2. CASE HoldDeadline(p)
  BY <1>1, <1>2 DEF HoldDeadline, Quiet, IInv, TypeOK, Session
<1>3. CASE AckWindowCloses(p)
  BY <1>1, <1>3 DEF AckWindowCloses, Quiet, IInv, TypeOK, Session
<1>4. CASE CooldownEnds(p)
  BY <1>1, <1>4 DEF CooldownEnds, Quiet, IInv, TypeOK, Session
<1>5. CASE LobbyEOF(p)
  <2>1. CASE sess[p].member
    <3>1. sess' = [sess EXCEPT ![p] = sess[p]]
      BY <1>5, <2>1 DEF LobbyEOF
    <3> QED
      BY <3>1, QuietUpdate
  <2>2. CASE ~sess[p].member
    <3>1. sess' = [sess EXCEPT ![p] = ClearHold(sess[p])]
      BY <1>5, <2>2 DEF LobbyEOF
    <3>2. ~sess[p].hold /\ sess[p].pending = None
      BY <2>2, SeatKnown
    <3>3. sess[p].hold = FALSE
      BY <1>1, <3>2 DEF Session
    <3> QED
      BY <1>1, <3>1, <3>2, <3>3, ClearHoldFields, QuietUpdate
  <2> QED
    BY <2>1, <2>2
<1>6. CASE IdleTick
  BY <1>6 DEF IdleTick, Quiet
<1> QED
  BY <1>2, <1>3, <1>4, <1>5, <1>6

LEMMA StartPlaySeat ==
  ASSUME IInv, NEW c \in Conns, StartPlay(c), NEW s, s = sess[owner[c]]
  PROVE  SeatSet(owner[c], s.member, TRUE, FALSE, s.hold, s.await, s.pending, s.gs)
<1> DEFINE p == owner[c]
           r == [sess[p] EXCEPT !.playing = TRUE, !.loading = FALSE]
<1>1. p \in Players /\ sess[p] \in Session
  BY OwnerIsPlayer DEF StartPlay, At
<1>2. /\ r.member = sess[p].member /\ r.playing = TRUE /\ r.loading = FALSE
      /\ r.hold = sess[p].hold /\ r.await = sess[p].await
      /\ r.pending = sess[p].pending /\ r.gs = sess[p].gs
  BY <1>1, BeginFields
<1>3. sess' = [sess EXCEPT ![p] = r]
  BY DEF StartPlay
<1> HIDE DEF r
<1>4. SeatSet(p, r.member, r.playing, r.loading, r.hold, r.await, r.pending, r.gs)
  BY <1>1, <1>3, SeatUpdate
<1> QED
  BY <1>2, <1>4

LEMMA LeaveGSSeat ==
  ASSUME IInv, NEW c \in Conns, LeaveGS(c), NEW s, s = sess[owner[c]]
  PROVE  SeatSet(owner[c], s.member, FALSE, FALSE, FALSE, s.await, None, s.gs)
<1>1. owner[c] \in Players /\ s \in Session
  BY OwnerIsPlayer DEF LeaveGS
<1>2. sess' = [sess EXCEPT ![owner[c]] = Idle(s)]
  BY DEF LeaveGS
<1> DEFINE r == Idle(s)
<1>3. /\ r.member = s.member /\ r.playing = FALSE /\ r.loading = FALSE
      /\ r.hold = FALSE /\ r.await = s.await /\ r.pending = None /\ r.gs = s.gs
  BY <1>1, IdleFields
<1>4. sess' = [sess EXCEPT ![owner[c]] = r]
  BY <1>2
<1> HIDE DEF r
<1>5. SeatSet(owner[c], r.member, r.playing, r.loading, r.hold, r.await, r.pending, r.gs)
  BY <1>1, <1>4, SeatUpdate
<1> QED
  BY <1>3, <1>5

LEMMA DetachOtherSeat ==
  ASSUME IInv, NEW c \in Conns, DetachGS(c), ~LastTransport(c), NEW s, s = sess[owner[c]]
  PROVE  /\ SeatSet(owner[c], s.member, s.playing, s.loading, s.hold, s.await,
                    s.pending, s.gs \ {c})
         /\ pc' = [pc EXCEPT ![c] = "closed"]
<1> DEFINE r == [s EXCEPT !.gs = @ \ {c}]
<1>1. owner[c] \in Players /\ s \in Session
  BY OwnerIsPlayer DEF DetachGS
<1>2. sess' = [sess EXCEPT ![owner[c]] = r] /\ pc' = [pc EXCEPT ![c] = "closed"]
  BY DEF DetachGS
<1> HIDE DEF r
<1>3. SeatSet(owner[c], r.member, r.playing, r.loading, r.hold, r.await, r.pending, r.gs)
  BY <1>1, <1>2, SeatUpdate
<1>4. /\ r.member = s.member /\ r.playing = s.playing /\ r.loading = s.loading
      /\ r.hold = s.hold /\ r.await = s.await /\ r.pending = s.pending /\ r.gs = s.gs \ {c}
  BY <1>1 DEF r, Session
<1> QED
  BY <1>2, <1>3, <1>4

LEMMA DetachHeldSeat ==
  ASSUME IInv, NEW c \in Conns, DetachGS(c), LastTransport(c), HoldEligible(c),
         NEW s, s = sess[owner[c]]
  PROVE  /\ \E pending \in {None, s.pending} :
              SeatSet(owner[c], s.member, FALSE, FALSE, TRUE, FALSE, pending, {})
         /\ pc' = [pc EXCEPT ![c] = "closed"]
<1> DEFINE d == Drop(s, c)
           r == Reserve(d)
<1>1. owner[c] \in Players /\ s \in Session /\ s.gs \ {c} = {}
  BY OwnerIsPlayer DEF DetachGS, LastTransport
<1>2. sess' = [sess EXCEPT ![owner[c]] = r] /\ pc' = [pc EXCEPT ![c] = "closed"]
  BY DEF DetachGS
<1>3. d \in Session /\ d.member = s.member /\ d.pending \in {None, s.pending} /\ d.gs = {}
  BY <1>1, DropFields
<1> HIDE DEF d
<1>4. /\ r.member = s.member /\ r.playing = FALSE /\ r.loading = FALSE /\ r.hold = TRUE
      /\ r.await = FALSE /\ r.pending \in {None, s.pending} /\ r.gs = {}
  BY <1>3, ReserveFields
<1> HIDE DEF r
<1>5. SeatSet(owner[c], r.member, r.playing, r.loading, r.hold, r.await, r.pending, r.gs)
  BY <1>1, <1>2, SeatUpdate
<1> QED
  BY <1>2, <1>4, <1>5

LEMMA DetachIdleSeat ==
  ASSUME IInv, NEW c \in Conns, DetachGS(c), LastTransport(c), ~HoldEligible(c),
         NEW s, s = sess[owner[c]]
  PROVE  /\ SeatSet(owner[c], s.member, FALSE, FALSE, FALSE, s.await, None, {})
         /\ \E x \in {"disarm", "closed"} : pc' = [pc EXCEPT ![c] = x]
<1> DEFINE d == Drop(s, c)
           r == Idle(d)
<1>1. owner[c] \in Players /\ s \in Session /\ s.gs \ {c} = {}
  BY OwnerIsPlayer DEF DetachGS, LastTransport
<1>2. /\ sess' = [sess EXCEPT ![owner[c]] = r]
      /\ \E x \in {"disarm", "closed"} : pc' = [pc EXCEPT ![c] = x]
  BY DEF DetachGS
<1>3. d \in Session /\ d.member = s.member /\ d.await = s.await /\ d.gs = {}
  BY <1>1, DropFields
<1> HIDE DEF d
<1>4. /\ r.member = s.member /\ r.playing = FALSE /\ r.loading = FALSE /\ r.hold = FALSE
      /\ r.await = s.await /\ r.pending = None /\ r.gs = {}
  BY <1>3, IdleFields
<1> HIDE DEF r
<1>5. SeatSet(owner[c], r.member, r.playing, r.loading, r.hold, r.await, r.pending, r.gs)
  BY <1>1, <1>2, SeatUpdate
<1> QED
  BY <1>2, <1>4, <1>5

\* ClaimMatchHold claims a held seat.
LEMMA ClaimSeat ==
  ASSUME IInv, NEW c \in Conns, NEW p \in Players, NEW nohold,
         ClaimMatchHold(c, p, nohold), sess' # sess, NEW s, s = sess[p]
  PROVE  /\ s.member /\ s.hold
         /\ SeatSet(p, s.member, FALSE, FALSE, s.hold, s.await, c, s.gs \cup {c})
         /\ pc' = [pc EXCEPT ![c] = "claimed"]
<1> DEFINE r == Claim(s, c)
<1>1. s \in Session
  BY DEF IInv, TypeOK
<1>2. /\ s.member /\ s.hold /\ sess' = [sess EXCEPT ![p] = r]
      /\ pc' = [pc EXCEPT ![c] = "claimed"]
  BY DEF ClaimMatchHold, Claimable
<1>3. /\ r.member = s.member /\ r.playing = FALSE /\ r.loading = FALSE
      /\ r.hold = s.hold /\ r.await = s.await /\ r.pending = c /\ r.gs = s.gs \cup {c}
  BY <1>1, ClaimFields
<1> HIDE DEF r
<1>4. SeatSet(p, r.member, r.playing, r.loading, r.hold, r.await, r.pending, r.gs)
  BY <1>2, SeatUpdate
<1>5. SeatSet(p, s.member, FALSE, FALSE, s.hold, s.await, c, s.gs \cup {c})
  BY <1>3, <1>4
<1> QED
  BY <1>2, <1>5

LEMMA TakeoverSeat ==
  ASSUME IInv, NEW c \in Conns, TakeoverMatchSession(c), LiveOwner(owner[c]),
         NEW s, s = sess[owner[c]]
  PROVE  SeatSet(owner[c], s.member, FALSE, FALSE, TRUE, FALSE, None, {})
<1> DEFINE d == [s EXCEPT !.gs = {}, !.pending = None]
           r == Reserve(d)
<1>1. owner[c] \in Players /\ s \in Session
  BY OwnerIsPlayer DEF TakeoverMatchSession
<1>2. sess' = [sess EXCEPT ![owner[c]] = r]
  BY DEF TakeoverMatchSession
<1>3. d \in Session /\ d.member = s.member /\ d.pending = None /\ d.gs = {}
  BY <1>1, DetachAllFields
<1> HIDE DEF d
<1>4. /\ r.member = s.member /\ r.playing = FALSE /\ r.loading = FALSE /\ r.hold = TRUE
      /\ r.await = FALSE /\ r.pending = None /\ r.gs = {}
  BY <1>3, ReserveFields
<1> HIDE DEF r
<1>5. SeatSet(owner[c], r.member, r.playing, r.loading, r.hold, r.await, r.pending, r.gs)
  BY <1>1, <1>2, SeatUpdate
<1> QED
  BY <1>4, <1>5

LEMMA AbandonSeat ==
  ASSUME IInv, NEW c \in Conns, AbandonMatchResume(c), NEW s, s = sess[owner[c]]
  PROVE  \E pending \in {None, s.pending} :
           SeatSet(owner[c], s.member, s.playing, s.loading, s.hold, s.await,
                   pending, s.gs \ {c})
<1>1. owner[c] \in Players /\ s \in Session
  BY OwnerIsPlayer DEF AbandonMatchResume, At
<1>2. sess' = [sess EXCEPT ![owner[c]] = Drop(s, c)]
  BY DEF AbandonMatchResume
<1> DEFINE r == Drop(s, c)
<1>3. /\ r.member = s.member /\ r.playing = s.playing /\ r.loading = s.loading
      /\ r.hold = s.hold /\ r.await = s.await /\ r.pending \in {None, s.pending}
      /\ r.gs = s.gs \ {c}
  BY <1>1, DropFields
<1>4. sess' = [sess EXCEPT ![owner[c]] = r]
  BY <1>2
<1> HIDE DEF r
<1>5. SeatSet(owner[c], r.member, r.playing, r.loading, r.hold, r.await, r.pending, r.gs)
  BY <1>1, <1>4, SeatUpdate
<1> QED
  BY <1>3, <1>5

LEMMA CompleteSeat ==
  ASSUME IInv, NEW c \in Conns, CompleteMatchResume(c), ClaimStands(c),
         NEW s, s = sess[owner[c]]
  PROVE  /\ s.member /\ s.hold /\ c \in s.gs
         /\ SeatSet(owner[c], s.member, TRUE, FALSE, FALSE, TRUE, None, s.gs)
         /\ pc' = [pc EXCEPT ![c] = "resumed"]
<1>1. owner[c] \in Players /\ s \in Session
  BY OwnerIsPlayer DEF CompleteMatchResume
<1>2. sess' = [sess EXCEPT ![owner[c]] = Resume(s)] /\ pc' = [pc EXCEPT ![c] = "resumed"]
  BY DEF CompleteMatchResume
<1>3. s.member /\ s.hold /\ c \in s.gs
  BY <1>1, SeatKnown, NoneAssumption DEF ClaimStands
<1> DEFINE r == Resume(s)
<1>4. /\ r.member = s.member /\ r.playing = TRUE /\ r.loading = FALSE
      /\ r.hold = FALSE /\ r.await = TRUE /\ r.pending = None /\ r.gs = s.gs
  BY <1>1, ResumeFields
<1>5. sess' = [sess EXCEPT ![owner[c]] = r]
  BY <1>2
<1> HIDE DEF r
<1>6. SeatSet(owner[c], r.member, r.playing, r.loading, r.hold, r.await, r.pending, r.gs)
  BY <1>1, <1>5, SeatUpdate
<1>7. SeatSet(owner[c], s.member, TRUE, FALSE, FALSE, TRUE, None, s.gs)
  BY <1>4, <1>6
<1> QED
  BY <1>2, <1>3, <1>7

LEMMA VacateSeat ==
  ASSUME IInv, NEW p \in Players, sess' = [sess EXCEPT ![p] = Vacate(@)],
         NEW s, s = sess[p]
  PROVE  SeatSet(p, FALSE, FALSE, FALSE, FALSE, s.await, None, s.gs)
<1>1. s \in Session /\ sess' = [sess EXCEPT ![p] = Vacate(s)]
  BY DEF IInv, TypeOK
<1> DEFINE r == Vacate(s)
<1>2. /\ r.member = FALSE /\ r.playing = FALSE /\ r.loading = FALSE
      /\ r.hold = FALSE /\ r.await = s.await /\ r.pending = None /\ r.gs = s.gs
  BY <1>1, VacateFields
<1>3. sess' = [sess EXCEPT ![p] = r]
  BY <1>1
<1> HIDE DEF r
<1>4. SeatSet(p, r.member, r.playing, r.loading, r.hold, r.await, r.pending, r.gs)
  BY <1>3, SeatUpdate
<1> QED
  BY <1>2, <1>4

-----------------------------------------------------------------------------
(* Transports.                                                             *)

\* No transport becomes active, and an active one leaves neither its seat nor
\* a takeover's list but to be marked; a new hold finds none.
TransportsKeep ==
  /\ \A d \in Conns : Active(d)' => Active(d) /\ owner'[d] = owner[d]
  /\ detached \subseteq detached'
  /\ \A b, d \in Conns : d \in stale[b] => d \in stale'[b] \/ d \in detached'
  /\ \A q \in Players : \A d \in Conns : Active(d) =>
       /\ d \in sess'[q].gs => d \in sess[q].gs
       /\ d \in sess[q].gs => d \in sess'[q].gs \/ \E b \in Conns : d \in stale'[b]
  /\ \A q \in Players : sess'[q].hold =>
       sess[q].hold \/ \A d \in sess'[q].gs : ~Active(d)

LEMMA TransportFrame ==
  ASSUME IInv, TransportInv, IInv', TransportsKeep, StaleIsRetired'
  PROVE  TransportInv'
<1>1. \A q \in Players : sess[q].gs \subseteq Conns /\ sess'[q].gs \subseteq Conns
  BY DEF IInv, TypeOK, Session
<1>2. \A d \in Conns : Active(d) => owner[d] \in Players
  BY DEF IInv, TypeOK, Active
<1>3. ActiveIsKnown'
  <2> SUFFICES ASSUME NEW d \in Conns, Active(d)', d \notin detached'
               PROVE  d \in sess'[owner'[d]].gs \/ \E b \in Conns : d \in stale'[b]
    BY DEF ActiveIsKnown
  <2>1. Active(d) /\ owner'[d] = owner[d] /\ d \notin detached /\ owner[d] \in Players
    BY <1>2 DEF TransportsKeep
  <2>2. d \in sess[owner[d]].gs \/ \E b \in Conns : d \in stale[b]
    BY <2>1 DEF TransportInv, ActiveIsKnown
  <2> QED
    BY <2>1, <2>2 DEF TransportsKeep
<1>4. OneActive'
  <2> SUFFICES ASSUME NEW q \in Players
               PROVE  /\ sess'[q].hold => \A c \in sess'[q].gs : ~Serves(c, q)'
                      /\ \A c, d \in sess'[q].gs : Serves(c, q)' /\ Serves(d, q)' => c = d
    BY DEF OneActive
  <2>1. \A c \in sess'[q].gs : Serves(c, q)' => Serves(c, q) /\ c \in sess[q].gs
    BY <1>1 DEF TransportsKeep, Serves
  <2>2. /\ sess[q].hold => \A c \in sess[q].gs : ~Serves(c, q)
        /\ \A c, d \in sess[q].gs : Serves(c, q) /\ Serves(d, q) => c = d
    BY DEF TransportInv, OneActive
  <2>3. sess'[q].hold => sess[q].hold \/ \A d \in sess'[q].gs : ~Serves(d, q)
    BY DEF TransportsKeep, Serves
  <2> QED
    BY <2>1, <2>2, <2>3
<1> QED
  BY <1>3, <1>4 DEF TransportInv

\* The same for the steps that leave the takeovers' lists alone, by the one
\* handler c that moves on.
LEMMA TransportStep ==
  ASSUME IInv, TransportInv, IInv', NEW c \in Conns, owner' = owner,
         detached \subseteq detached', stale' = stale, pc[c] # "retire",
         \A d \in Conns \ {c} : pc'[d] = pc[d],
         Active(c)' => Active(c),
         \A q \in Players : \A d \in Conns : Active(d) =>
           (d \in sess'[q].gs <=> d \in sess[q].gs),
         \A q \in Players : sess'[q].hold =>
           sess[q].hold \/ \A d \in sess'[q].gs : ~Active(d)
  PROVE  TransportInv'
<1>1. \A d \in Conns : Active(d)' => Active(d)
  BY DEF Active
<1>2. TransportsKeep
  BY <1>1 DEF TransportsKeep
<1>3. StaleIsRetired'
  BY DEF TransportInv, StaleIsRetired
<1> QED
  BY <1>2, <1>3, TransportFrame

\* A step that no handler takes and that keeps transports and holds.
LEMMA TransportIdle ==
  ASSUME IInv, TransportInv, IInv', pc' = pc, owner' = owner, detached' = detached,
         stale' = stale,
         \A q \in Players : sess'[q].gs = sess[q].gs /\ (sess'[q].hold => sess[q].hold)
  PROVE  TransportInv'
<1>1. TransportsKeep
  BY DEF TransportsKeep, Active
<1>2. StaleIsRetired'
  BY DEF TransportInv, StaleIsRetired
<1> QED
  BY <1>1, <1>2, TransportFrame

LEMMA PcStep ==
  ASSUME IInv, NEW c \in Conns, NEW x, pc' = [pc EXCEPT ![c] = x]
  PROVE  pc'[c] = x /\ \A d \in Conns \ {c} : pc'[d] = pc[d]
  BY DEF IInv, TypeOK

\* The sections that leave every seat as it is.
LEMMA TransportQuiet ==
  ASSUME IInv, TransportInv, IInv', NEW c \in Conns,
         \/ Ping(c) \/ Arm(c) \/ EOF(c) \/ NoteSoftResumeEOF(c) \/ DisarmIfIdle(c)
         \/ SoftResumeRefuse(c) \/ ReLoginAck(c) \/ NoteSoftResumeAck(c)
  PROVE  TransportInv'
<1>1. Quiet
  BY QuietHandler
<1>2. pc[c] # "retire" /\ owner' = owner /\ detached' = detached /\ stale' = stale
  BY DEF Ping, Arm, EOF, NoteSoftResumeEOF, DisarmIfIdle, SoftResumeRefuse, ReLoginAck,
     NoteSoftResumeAck, At
<1>3. \/ pc' = pc
      \/ Active(c) /\ \E x \in Stages : pc' = [pc EXCEPT ![c] = x]
      \/ \E x \in {"detach", "closed", "refused", "accepted", "acked", "eof"} :
           pc' = [pc EXCEPT ![c] = x]
  BY DEF Ping, Arm, EOF, NoteSoftResumeEOF, DisarmIfIdle, SoftResumeRefuse, ReLoginAck,
     NoteSoftResumeAck, At, Active, Unwind, Stages
<1>4. (\A d \in Conns \ {c} : pc'[d] = pc[d]) /\ (Active(c)' => Active(c))
  BY <1>3, PcStep DEF Active
<1> QED
  BY <1>1, <1>2, <1>4, TransportStep DEF Quiet

LEMMA TransportStartPlay ==
  ASSUME IInv, TransportInv, IInv', NEW c \in Conns, StartPlay(c)
  PROVE  TransportInv'
<1> DEFINE p == owner[c]
           s == sess[p]
<1>1. p \in Players
  BY OwnerIsPlayer DEF StartPlay, At
<1>2. SeatSet(p, s.member, TRUE, FALSE, s.hold, s.await, s.pending, s.gs)
  BY StartPlaySeat
<1>3. \A q \in Players : sess'[q].gs = sess[q].gs /\ sess'[q].hold = sess[q].hold
  BY <1>1, <1>2 DEF SeatSet
<1>4. pc' = [pc EXCEPT ![c] = "arming"] /\ pc[c] = "live"
  BY DEF StartPlay, At
<1>5. Active(c) /\ \A d \in Conns \ {c} : pc'[d] = pc[d]
  BY <1>4, PcStep DEF Active
<1> QED
  BY <1>3, <1>4, <1>5, TransportStep DEF StartPlay, clientVars

LEMMA TransportLeaveGS ==
  ASSUME IInv, TransportInv, IInv', NEW c \in Conns, LeaveGS(c)
  PROVE  TransportInv'
<1> DEFINE p == owner[c]
           s == sess[p]
<1>1. p \in Players
  BY OwnerIsPlayer DEF LeaveGS
<1>2. SeatSet(p, s.member, FALSE, FALSE, FALSE, s.await, None, s.gs)
  BY LeaveGSSeat
<1>3. \A q \in Players : sess'[q].gs = sess[q].gs /\ (sess'[q].hold => sess[q].hold)
  BY <1>1, <1>2 DEF SeatSet
<1> QED
  BY <1>3, TransportIdle DEF LeaveGS

\* Only c, whose handler is not active any more, is dropped from its seat.
LEMMA TransportDetachGS ==
  ASSUME IInv, TransportInv, IInv', NEW c \in Conns, DetachGS(c)
  PROVE  TransportInv'
<1> DEFINE p == owner[c]
           s == sess[p]
<1>1. p \in Players /\ pc[c] = "detach"
  BY OwnerIsPlayer DEF DetachGS
<1>2. /\ sess'[p].gs = s.gs \ {c} /\ \A q \in Players \ {p} : sess'[q] = sess[q]
      /\ \E x \in {"closed", "disarm"} : pc' = [pc EXCEPT ![c] = x]
      /\ sess'[p].hold => s.hold \/ sess'[p].gs = {}
  <2>1. CASE ~LastTransport(c)
    BY <2>1, DetachOtherSeat DEF SeatSet
  <2>2. CASE LastTransport(c)
    <3>1. s.gs \ {c} = {}
      BY <2>2 DEF LastTransport
    <3>2. CASE HoldEligible(c)
      BY <2>2, <3>1, <3>2, DetachHeldSeat DEF SeatSet
    <3>3. CASE ~HoldEligible(c)
      BY <2>2, <3>1, <3>3, DetachIdleSeat DEF SeatSet
    <3> QED
      BY <3>2, <3>3
  <2> QED
    BY <2>1, <2>2
<1>3. ~Active(c) /\ ~Active(c)' /\ \A d \in Conns \ {c} : pc'[d] = pc[d]
  BY <1>1, <1>2, PcStep DEF Active
<1>4. \A q \in Players : \A d \in Conns : Active(d) =>
        (d \in sess'[q].gs <=> d \in sess[q].gs)
  BY <1>2, <1>3
<1>5. \A q \in Players : sess'[q].hold =>
        sess[q].hold \/ \A d \in sess'[q].gs : ~Active(d)
  BY <1>2
<1> QED
  BY <1>1, <1>3, <1>4, <1>5, TransportStep DEF DetachGS

\* A claim attaches c, which is not active; owner may change for c only.
LEMMA TransportClaim ==
  ASSUME IInv, TransportInv, IInv', NEW c \in Conns, NEW p \in Players,
         NEW nohold \in {"nohold", "closed"},
         pc[c] \in {"unused", "reclaim"}, ClaimMatchHold(c, p, nohold),
         detached' = detached, stale' = stale, \A d \in Conns \ {c} : owner'[d] = owner[d]
  PROVE  TransportInv'
<1>1. \A q \in Players :
        /\ sess'[q].hold => sess[q].hold
        /\ sess[q].gs \subseteq sess'[q].gs /\ sess'[q].gs \subseteq sess[q].gs \cup {c}
  <2>1. CASE sess' # sess
    <3> DEFINE s == sess[p]
    <3>1. SeatSet(p, s.member, FALSE, FALSE, s.hold, s.await, c, s.gs \cup {c})
      BY <2>1, ClaimSeat
    <3> QED
      BY <3>1 DEF SeatSet
  <2> QED
    BY <2>1
<1>2. \E x \in {"claimed", "closed", "nohold"} : pc' = [pc EXCEPT ![c] = x]
  BY DEF ClaimMatchHold
<1>3. ~Active(c) /\ ~Active(c)' /\ \A d \in Conns \ {c} : pc'[d] = pc[d]
  BY <1>2, PcStep DEF Active
<1>4. \A d \in Conns : Active(d)' => Active(d) /\ owner'[d] = owner[d]
  BY <1>3 DEF Active
<1>5. TransportsKeep
  BY <1>1, <1>3, <1>4 DEF TransportsKeep
<1>6. StaleIsRetired'
  BY <1>3 DEF TransportInv, StaleIsRetired
<1> QED
  BY <1>5, <1>6, TransportFrame

LEMMA TransportReLogin ==
  ASSUME IInv, TransportInv, IInv', NEW c \in Conns, NEW p \in Players, ReLogin(c, p)
  PROVE  TransportInv'
<1>1. \A d \in Conns \ {c} : owner'[d] = owner[d]
  BY DEF ReLogin, IInv, TypeOK
<1> QED
  BY <1>1, TransportClaim DEF ReLogin

LEMMA TransportReclaim ==
  ASSUME IInv, TransportInv, IInv', NEW c \in Conns, Reclaim(c)
  PROVE  TransportInv'
<1>1. owner[c] \in Players
  BY OwnerIsPlayer DEF Reclaim
<1> QED
  BY <1>1, TransportClaim DEF Reclaim, clientVars

\* The takeover detaches every transport and lists them all.
LEMMA TransportTakeover ==
  ASSUME IInv, TransportInv, IInv', NEW c \in Conns, TakeoverMatchSession(c)
  PROVE  TransportInv'
<1> DEFINE p == owner[c]
           s == sess[p]
<1>1. p \in Players /\ pc[c] = "nohold" /\ stale[c] = {} /\ ~Active(c)
  BY OwnerIsPlayer DEF TakeoverMatchSession, TransportInv, StaleIsRetired, Active
<1>2. CASE LiveOwner(p)
  <2>1. SeatSet(p, s.member, FALSE, FALSE, TRUE, FALSE, None, {})
    BY <1>2, TakeoverSeat
  <2>2. /\ pc' = [pc EXCEPT ![c] = "retire"] /\ stale' = [stale EXCEPT ![c] = s.gs]
        /\ detached' = detached /\ owner' = owner
    BY <1>2 DEF TakeoverMatchSession
  <2>3. stale'[c] = s.gs /\ \A b \in Conns \ {c} : stale'[b] = stale[b]
    BY <2>2 DEF IInv, TypeOK
  <2>4. pc'[c] = "retire" /\ ~Active(c)' /\ \A d \in Conns \ {c} : pc'[d] = pc[d]
    <3>1. pc'[c] = "retire" /\ \A d \in Conns \ {c} : pc'[d] = pc[d]
      BY <2>2, PcStep
    <3> QED
      BY <3>1 DEF Active
  <2>5. \A d \in Conns : Active(d)' => Active(d) /\ owner'[d] = owner[d]
    BY <2>2, <2>4 DEF Active
  <2>6. \A b, d \in Conns : d \in stale[b] => d \in stale'[b]
    BY <1>1, <2>3
  <2>7. /\ sess'[p].gs = {} /\ \A q \in Players \ {p} : sess'[q] = sess[q]
    BY <2>1 DEF SeatSet
  <2>8. TransportsKeep
    BY <2>2, <2>3, <2>5, <2>6, <2>7 DEF TransportsKeep
  <2>9. StaleIsRetired'
    BY <2>3, <2>4 DEF TransportInv, StaleIsRetired
  <2> QED
    BY <2>8, <2>9, TransportFrame
<1>3. CASE ~LiveOwner(p)
  <2>1. pc' = [pc EXCEPT ![c] = "closed"] /\ stale' = stale /\ sess' = sess
    BY <1>3 DEF TakeoverMatchSession
  <2>2. ~Active(c)' /\ \A d \in Conns \ {c} : pc'[d] = pc[d]
    <3>1. pc'[c] = "closed" /\ \A d \in Conns \ {c} : pc'[d] = pc[d]
      BY <2>1, PcStep
    <3> QED
      BY <3>1 DEF Active
  <2> QED
    BY <1>1, <2>1, <2>2, TransportStep DEF TakeoverMatchSession
<1> QED
  BY <1>2, <1>3

\* One transport goes from the list to the marked ones.
LEMMA TransportRetire ==
  ASSUME IInv, TransportInv, IInv', NEW c \in Conns, Retire(c)
  PROVE  TransportInv'
<1>1. PICK e \in stale[c] :
        /\ detached' = detached \cup {e}
        /\ stale' = [stale EXCEPT ![c] = @ \ {e}]
        /\ pc' = [pc EXCEPT ![c] = IF stale[c] = {e} THEN "reclaim" ELSE "retire"]
  BY DEF Retire
<1>2. pc[c] = "retire" /\ owner' = owner /\ sess' = sess
  BY DEF Retire, sessionVars
<1>3. stale'[c] = stale[c] \ {e} /\ \A b \in Conns \ {c} : stale'[b] = stale[b]
  BY <1>1 DEF IInv, TypeOK
<1>4. /\ pc'[c] = IF stale[c] = {e} THEN "reclaim" ELSE "retire"
      /\ \A d \in Conns \ {c} : pc'[d] = pc[d]
  BY <1>1, PcStep
<1>5. \A d \in Conns : Active(d)' => Active(d) /\ owner'[d] = owner[d]
  BY <1>2, <1>4 DEF Active
<1>6. \A b, d \in Conns : d \in stale[b] => d \in stale'[b] \/ d \in detached'
  BY <1>1, <1>3
<1>7. TransportsKeep
  BY <1>1, <1>2, <1>5, <1>6 DEF TransportsKeep
<1>8. StaleIsRetired'
  BY <1>3, <1>4 DEF TransportInv, StaleIsRetired
<1> QED
  BY <1>7, <1>8, TransportFrame

LEMMA TransportAbandon ==
  ASSUME IInv, TransportInv, IInv', NEW c \in Conns, AbandonMatchResume(c)
  PROVE  TransportInv'
<1> DEFINE p == owner[c]
           s == sess[p]
<1>1. p \in Players /\ pc[c] = "refused" /\ pc' = [pc EXCEPT ![c] = "closed"]
  BY OwnerIsPlayer DEF AbandonMatchResume, At
<1>2. ~Active(c) /\ ~Active(c)' /\ \A d \in Conns \ {c} : pc'[d] = pc[d]
  BY <1>1, PcStep DEF Active
<1>3. PICK w \in {None, s.pending} :
        SeatSet(p, s.member, s.playing, s.loading, s.hold, s.await, w, s.gs \ {c})
  BY AbandonSeat
<1>4. \A q \in Players : \A d \in Conns : Active(d) =>
        (d \in sess'[q].gs <=> d \in sess[q].gs)
  BY <1>2, <1>3 DEF SeatSet
<1>5. \A q \in Players : sess'[q].hold => sess[q].hold
  BY <1>3 DEF SeatSet
<1> QED
  BY <1>1, <1>2, <1>4, <1>5, TransportStep DEF AbandonMatchResume

\* The resume brings its transport into play on a seat where none is.
LEMMA TransportComplete ==
  ASSUME IInv, TransportInv, IInv', NEW c \in Conns, CompleteMatchResume(c)
  PROVE  TransportInv'
<1> DEFINE p == owner[c]
           s == sess[p]
<1>1. /\ p \in Players /\ pc[c] = "acked" /\ ~Active(c)
      /\ owner' = owner /\ detached' = detached /\ stale' = stale
  BY OwnerIsPlayer DEF CompleteMatchResume, Active
<1>2. CASE ClaimStands(c)
  <2>1. s.hold /\ c \in s.gs /\ SeatSet(p, s.member, TRUE, FALSE, FALSE, TRUE, None, s.gs)
    BY <1>2, CompleteSeat
  <2>2. pc' = [pc EXCEPT ![c] = "resumed"]
    BY <1>2, CompleteSeat
  <2>3. pc'[c] = "resumed" /\ \A d \in Conns \ {c} : pc'[d] = pc[d]
    BY <2>2, PcStep
  <2>4. \A d \in Conns \ {c} : Active(d)' <=> Active(d)
    BY <2>3 DEF Active
  <2>5. \A q \in Players : sess'[q].gs = sess[q].gs /\ (sess'[q].hold => sess[q].hold)
    BY <2>1 DEF SeatSet
  <2>6. ~sess'[p].hold
    BY <2>1 DEF SeatSet
  <2>7. \A d \in s.gs : ~Serves(d, p)
    BY <1>1, <2>1 DEF TransportInv, OneActive
  <2>8. ActiveIsKnown'
    <3> SUFFICES ASSUME NEW d \in Conns, Active(d)', d \notin detached
                 PROVE  d \in sess'[owner[d]].gs \/ \E b \in Conns : d \in stale[b]
      BY <1>1 DEF ActiveIsKnown
    <3>1. CASE d = c
      BY <1>1, <2>1, <2>5, <3>1
    <3>2. CASE d # c
      <4>1. Active(d) /\ owner[d] \in Players
        BY <2>4, <3>2, OwnerIsPlayer DEF Active
      <4> QED
        BY <2>5, <4>1 DEF TransportInv, ActiveIsKnown
    <3> QED
      BY <3>1, <3>2
  <2>9. \A q \in Players : \A d \in sess[q].gs : d \in Conns
    BY DEF IInv, TypeOK, Session
  <2>10. ASSUME NEW q \in Players
         PROVE  /\ sess'[q].hold => \A d \in sess'[q].gs : ~Serves(d, q)'
                /\ \A d, e \in sess'[q].gs : Serves(d, q)' /\ Serves(e, q)' => d = e
    <3>1. \A d \in Conns \ {c} : Serves(d, q)' <=> Serves(d, q)
      BY <1>1, <2>4 DEF Serves
    <3>2. CASE q = p
      BY <2>5, <2>6, <2>7, <2>9, <3>1, <3>2
    <3>3. CASE q # p
      <4>1. ~Serves(c, q) /\ ~Serves(c, q)'
        BY <1>1, <3>3 DEF Serves
      <4>2. /\ sess[q].hold => \A d \in sess[q].gs : ~Serves(d, q)
            /\ \A d, e \in sess[q].gs : Serves(d, q) /\ Serves(e, q) => d = e
        BY DEF TransportInv, OneActive
      <4> QED
        BY <2>5, <2>9, <3>1, <4>1, <4>2
    <3> QED
      BY <3>2, <3>3
  <2> QED
    BY <1>1, <2>3, <2>8, <2>10 DEF TransportInv, OneActive, StaleIsRetired
<1>3. CASE ~ClaimStands(c)
  <2>1. sess' = sess /\ \E x \in {"eof", "closed"} : pc' = [pc EXCEPT ![c] = x]
    BY <1>3 DEF CompleteMatchResume, Unwind
  <2>2. ~Active(c)' /\ \A d \in Conns \ {c} : pc'[d] = pc[d]
    BY <2>1, PcStep DEF Active
  <2> QED
    BY <1>1, <2>1, <2>2, TransportStep
<1> QED
  BY <1>2, <1>3

\* Neither the timers and the clock nor the lobby touch a transport.
LEMMA TransportVacate ==
  ASSUME IInv, TransportInv, IInv', NEW p \in Players, LeaveEffect(p),
         pc' = pc, owner' = owner, detached' = detached, stale' = stale
  PROVE  TransportInv'
<1>1. SeatSet(p, FALSE, FALSE, FALSE, FALSE, sess[p].await, None, sess[p].gs)
  BY VacateSeat DEF LeaveEffect
<1>2. \A q \in Players : sess'[q].gs = sess[q].gs /\ (sess'[q].hold => sess[q].hold)
  BY <1>1 DEF SeatSet
<1> QED
  BY <1>2, TransportIdle

LEMMA TransportClock ==
  ASSUME IInv, TransportInv, IInv', NEW p \in Players,
         \/ HoldDeadline(p) \/ AckWindowCloses(p) \/ CooldownEnds(p) \/ LobbyEOF(p)
         \/ IdleTick
  PROVE  TransportInv'
<1>1. \A q \in Players : sess'[q].gs = sess[q].gs /\ (sess'[q].hold => sess[q].hold)
  BY QuietClock DEF Quiet
<1>2. pc' = pc /\ owner' = owner /\ detached' = detached /\ stale' = stale
  BY DEF HoldDeadline, AckWindowCloses, CooldownEnds, LobbyEOF, IdleTick
<1> QED
  BY <1>1, <1>2, TransportIdle

LEMMA TransportNext == IInv /\ TransportInv /\ IInv' /\ [Next]_vars => TransportInv'
<1> SUFFICES ASSUME IInv, TransportInv, IInv', [Next]_vars PROVE TransportInv'
  OBVIOUS
<1>1. ASSUME NEW c \in Conns, Handler(c) PROVE TransportInv'
  <2>1. CASE \/ Ping(c) \/ Arm(c) \/ EOF(c) \/ NoteSoftResumeEOF(c) \/ DisarmIfIdle(c)
             \/ SoftResumeRefuse(c) \/ ReLoginAck(c) \/ NoteSoftResumeAck(c)
    BY <2>1, TransportQuiet
  <2>2. CASE StartPlay(c) \/ LeaveGS(c) \/ DetachGS(c)
    BY <2>2, TransportStartPlay, TransportLeaveGS, TransportDetachGS
  <2>3. CASE TakeoverMatchSession(c) \/ Retire(c) \/ Reclaim(c)
    BY <2>3, TransportTakeover, TransportRetire, TransportReclaim
  <2>4. CASE AbandonMatchResume(c) \/ CompleteMatchResume(c)
    BY <2>4, TransportAbandon, TransportComplete
  <2>5. ASSUME NEW p \in Players, ReLogin(c, p) PROVE TransportInv'
    BY <2>5, TransportReLogin
  <2> QED
    BY <1>1, <2>1, <2>2, <2>3, <2>4, <2>5 DEF Handler
<1>2. ASSUME NEW p \in Players, QuitRoom(p) PROVE TransportInv'
  BY <1>2, TransportVacate DEF QuitRoom
<1>3. ASSUME NEW p \in Players, HoldDeadline(p) \/ AckWindowCloses(p) \/ CooldownEnds(p)
                                \/ LobbyEOF(p)
      PROVE  TransportInv'
  BY <1>3, TransportClock
<1>4. ASSUME NEW t \in timers, ExpireMatchHold(t[1], t[2]) PROVE TransportInv'
  <2>1. t[1] \in Players
    BY DEF IInv, TypeOK
  <2>2. CASE LeaveEffect(t[1])
    BY <1>4, <2>1, <2>2, TransportVacate DEF ExpireMatchHold, clientVars
  <2>3. CASE sess' = sess
    BY <1>4, <2>3, TransportIdle DEF ExpireMatchHold, clientVars
  <2> QED
    BY <1>4, <2>2, <2>3 DEF ExpireMatchHold
<1>5. CASE IdleTick
  BY <1>5, TransportIdle DEF IdleTick
<1>6. CASE UNCHANGED vars
  BY <1>6, TransportIdle DEF vars
<1> QED
  BY <1>1, <1>2, <1>3, <1>4, <1>5, <1>6 DEF Next

\* At LoadMap every player has one connection, attached to the player's seat.
LEMMA SeatedInit ==
  ASSUME Init, NEW p \in Players
  PROVE  /\ sess[p].member /\ ~sess[p].playing /\ sess[p].loading /\ ~sess[p].hold
         /\ ~sess[p].await /\ sess[p].pending = None /\ sess[p].gs = {current[p]}
  BY DEF Init, Seated

LEMMA TransportInit == Init => TransportInv
<1> SUFFICES ASSUME Init PROVE TransportInv
  OBVIOUS
<1>1. ActiveIsKnown
  <2> SUFFICES ASSUME NEW c \in Conns, Active(c) PROVE c \in sess[owner[c]].gs
    BY DEF ActiveIsKnown
  <2>1. \E p \in Players : current[p] = c
    BY DEF Init, Active
  <2>2. owner[c] = CHOOSE p \in Players : current[p] = c
    BY <2>1 DEF Init
  <2>3. owner[c] \in Players /\ current[owner[c]] = c
    BY <2>1, <2>2
  <2> QED
    BY <2>3, SeatedInit
<1>2. OneActive
  BY SeatedInit DEF OneActive
<1>3. StaleIsRetired
  BY DEF Init, StaleIsRetired
<1> QED
  BY <1>1, <1>2, <1>3 DEF TransportInv

-----------------------------------------------------------------------------
(* Clients.                                                                *)

\* Seat q is not filled or loaded again, is frozen without play only as
\* before or by its leaver, plays only with a transport, and starts to play
\* only when no claim of its own is under way.
SeatEases(q) ==
  /\ sess'[q].member => sess[q].member
  /\ sess'[q].loading => sess[q].loading
  /\ sess'[q].await /\ ~sess'[q].playing /\ sess'[q].member /\ sess'[q].gs # {} =>
       \/ q \in quit'
       \/ sess[q].await /\ ~sess[q].playing /\ sess[q].member /\ sess[q].gs # {}
  /\ sess'[q].playing \/ sess'[q].loading => sess'[q].gs # {}
  /\ sess'[q].playing =>
       sess[q].playing \/ \A d \in Conns : owner[d] = q => pc'[d] \notin Claimants

\* No handshake begins, and a claim only on a seat nobody plays on.
HandshakesEase ==
  /\ owner' = owner /\ current' = current
  /\ \A d \in Conns :
       /\ pc'[d] \in Handshaking => pc[d] \in Handshaking
       /\ pc'[d] \in Claimants =>
            pc[d] \in Claimants \/ (~sess'[owner[d]].playing /\ ~sess'[owner[d]].loading)

\* A client that leaves in this step does so quietly.
QuitEases ==
  \A q \in quit' \ quit :
    /\ ~sess'[q].loading
    /\ \A d \in Conns : owner[d] = q /\ pc'[d] \in Handshaking => ~sess'[q].member

LEMMA ClientFrame ==
  ASSUME IInv, ClientInv, HandshakesEase, QuitEases, quit \subseteq quit',
         quit' \subseteq Players, \A q \in Players : SeatEases(q)
  PROVE  ClientInv'
<1>1. NewestShakes'
  BY DEF ClientInv, NewestShakes, HandshakesEase
<1>2. QuitIsQuiet'
  <2> SUFFICES ASSUME NEW q \in quit'
               PROVE  /\ ~sess'[q].loading
                      /\ \A d \in Conns : owner[d] = q /\ pc'[d] \in Handshaking
                           => ~sess'[q].member
    BY DEF QuitIsQuiet, HandshakesEase
  <2>1. CASE q \in quit
    BY <2>1 DEF ClientInv, QuitIsQuiet, HandshakesEase, SeatEases
  <2> QED
    BY <2>1 DEF QuitEases
<1>3. AwaitIsLeft'
  BY DEF ClientInv, AwaitIsLeft, SeatEases
<1>4. ClaimantsWait'
  <2> SUFFICES ASSUME NEW d \in Conns, pc'[d] \in Claimants
               PROVE  ~sess'[owner[d]].playing /\ ~sess'[owner[d]].loading
    BY DEF ClaimantsWait, HandshakesEase
  <2>1. CASE pc[d] \in Claimants
    <3>1. owner[d] \in Players
      BY <2>1, OwnerIsPlayer DEF Claimants
    <3>2. ~sess[owner[d]].playing /\ ~sess[owner[d]].loading
      BY <2>1 DEF ClientInv, ClaimantsWait
    <3> QED
      BY <3>1, <3>2 DEF SeatEases
  <2> QED
    BY <2>1 DEF HandshakesEase
<1>5. InMatchIsAttached'
  BY DEF InMatchIsAttached, SeatEases
<1> QED
  BY <1>1, <1>2, <1>3, <1>4, <1>5 DEF ClientInv

\* A seat whose fields stay, or that loses no transport and ends a freeze.
LEMMA SameSeatEases ==
  ASSUME IInv, ClientInv, quit \subseteq quit', NEW q \in Players,
         sess'[q].member = sess[q].member, sess'[q].playing = sess[q].playing,
         sess'[q].loading = sess[q].loading, sess'[q].await => sess[q].await,
         sess'[q].gs = sess[q].gs
  PROVE  SeatEases(q)
<1>1. sess[q].playing \/ sess[q].loading => sess[q].gs # {}
  BY DEF ClientInv, InMatchIsAttached
<1> QED
  BY <1>1 DEF SeatEases

LEMMA SetSeatEases ==
  ASSUME IInv, ClientInv, quit \subseteq quit', NEW p \in Players, SeatEases(p),
         \A q \in Players \ {p} : sess'[q] = sess[q]
  PROVE  \A q \in Players : SeatEases(q)
<1> SUFFICES ASSUME NEW q \in Players, q # p PROVE SeatEases(q)
  OBVIOUS
<1>1. sess'[q] = sess[q]
  OBVIOUS
<1> QED
  BY <1>1, SameSeatEases

\* The handler c moves on, neither into a handshake nor into a claim.
LEMMA HandshakesMove ==
  ASSUME IInv, NEW c \in Conns, NEW x, pc' = [pc EXCEPT ![c] = x],
         owner' = owner, current' = current,
         x \in Handshaking => pc[c] \in Handshaking,
         x \in Claimants =>
           pc[c] \in Claimants \/ (~sess'[owner[c]].playing /\ ~sess'[owner[c]].loading)
  PROVE  HandshakesEase
<1>1. pc'[c] = x /\ \A d \in Conns \ {c} : pc'[d] = pc[d]
  BY PcStep
<1> QED
  BY <1>1 DEF HandshakesEase

LEMMA ClientQuiet ==
  ASSUME IInv, ClientInv, Quiet, HandshakesEase, quit' = quit
  PROVE  ClientInv'
<1>1. \A q \in Players : SeatEases(q)
  BY SameSeatEases DEF Quiet
<1>2. QuitEases
  BY DEF QuitEases
<1>3. quit' \subseteq Players
  BY DEF IInv, TypeOK
<1> QED
  BY <1>1, <1>2, <1>3, ClientFrame

\* The sections that leave every seat as it is.
LEMMA ClientQuietHandler ==
  ASSUME IInv, ClientInv, NEW c \in Conns,
         \/ Ping(c) \/ Arm(c) \/ EOF(c) \/ NoteSoftResumeEOF(c) \/ DisarmIfIdle(c)
         \/ Retire(c) \/ SoftResumeRefuse(c) \/ ReLoginAck(c) \/ NoteSoftResumeAck(c)
  PROVE  ClientInv'
<1>1. Quiet
  BY QuietHandler
<1>2. owner' = owner /\ current' = current /\ quit' = quit
  BY DEF Ping, Arm, EOF, NoteSoftResumeEOF, DisarmIfIdle, Retire, SoftResumeRefuse,
     ReLoginAck, NoteSoftResumeAck, clientVars
<1>3. HandshakesEase
  <2>1. CASE Ping(c)
    BY <2>1, <1>2 DEF Ping, HandshakesEase
  <2>2. CASE Arm(c) \/ EOF(c) \/ NoteSoftResumeEOF(c) \/ DisarmIfIdle(c)
             \/ NoteSoftResumeAck(c)
    <3>1. \E x \in {"live", "eof", "closed", "detach"} : pc' = [pc EXCEPT ![c] = x]
      BY <2>2 DEF Arm, EOF, NoteSoftResumeEOF, DisarmIfIdle, NoteSoftResumeAck, At, Unwind
    <3> QED
      BY <1>2, <3>1, HandshakesMove DEF Handshaking, Claimants
  <2>3. CASE Retire(c)
    <3>1. pc[c] = "retire" /\ \E x \in {"reclaim", "retire"} : pc' = [pc EXCEPT ![c] = x]
      BY <2>3 DEF Retire
    <3> QED
      BY <1>2, <3>1, HandshakesMove DEF Handshaking, Claimants
  <2>4. CASE SoftResumeRefuse(c) \/ ReLoginAck(c)
    <3>1. /\ pc[c] \in {"claimed", "accepted"}
          /\ \E x \in {"refused", "accepted", "acked", "eof", "closed"} :
               pc' = [pc EXCEPT ![c] = x]
      BY <2>4 DEF SoftResumeRefuse, ReLoginAck, Unwind
    <3> QED
      BY <1>2, <3>1, HandshakesMove DEF Handshaking, Claimants
  <2> QED
    BY <2>1, <2>2, <2>3, <2>4
<1> QED
  BY <1>1, <1>2, <1>3, ClientQuiet

LEMMA ClientStartPlay ==
  ASSUME IInv, ClientInv, NEW c \in Conns, StartPlay(c)
  PROVE  ClientInv'
<1> DEFINE p == owner[c]
           s == sess[p]
<1>1. p \in Players /\ s.loading
  BY OwnerIsPlayer DEF StartPlay, At
<1>2. SeatSet(p, s.member, TRUE, FALSE, s.hold, s.await, s.pending, s.gs)
  BY StartPlaySeat
<1>3. /\ pc' = [pc EXCEPT ![c] = "arming"] /\ owner' = owner /\ current' = current
      /\ quit' = quit
  BY DEF StartPlay, At, clientVars
<1>4. HandshakesEase
  BY <1>3, HandshakesMove DEF Handshaking, Claimants
<1>5. s.gs # {} /\ \A d \in Conns : owner[d] = p => pc[d] \notin Claimants
  BY <1>1 DEF ClientInv, InMatchIsAttached, ClaimantsWait
<1>6. pc'[c] = "arming" /\ \A d \in Conns \ {c} : pc'[d] = pc[d]
  BY <1>3, PcStep
<1>7. \A d \in Conns : owner[d] = p => pc'[d] \notin Claimants
  BY <1>5, <1>6 DEF Claimants
<1>8. SeatEases(p)
  BY <1>2, <1>5, <1>7 DEF SeatEases, SeatSet
<1>9. \A q \in Players : SeatEases(q)
  BY <1>1, <1>2, <1>3, <1>8, SetSeatEases DEF SeatSet
<1>10. QuitEases /\ quit \subseteq quit' /\ quit' \subseteq Players
  BY <1>3 DEF QuitEases, IInv, TypeOK
<1> QED
  BY <1>4, <1>9, <1>10, ClientFrame

\* The client that leaves has no handshake: its newest connection is live.
LEMMA ClientLeaveGS ==
  ASSUME IInv, ClientInv, NEW c \in Conns, LeaveGS(c)
  PROVE  ClientInv'
<1> DEFINE p == owner[c]
           s == sess[p]
<1>1. p \in Players /\ pc[c] = "live" /\ c = current[p]
  BY OwnerIsPlayer DEF LeaveGS
<1>2. SeatSet(p, s.member, FALSE, FALSE, FALSE, s.await, None, s.gs)
  BY LeaveGSSeat
<1>3. pc' = pc /\ owner' = owner /\ current' = current /\ quit' = quit \cup {p}
  BY DEF LeaveGS
<1>4. HandshakesEase
  BY <1>3 DEF HandshakesEase
<1>5. SeatEases(p)
  BY <1>2, <1>3 DEF SeatEases, SeatSet
<1>6. \A q \in Players : SeatEases(q)
  BY <1>1, <1>2, <1>3, <1>5, SetSeatEases DEF SeatSet
<1>7. \A d \in Conns : owner[d] = p => pc[d] \notin Handshaking
  BY <1>1 DEF ClientInv, NewestShakes, Handshaking
<1>8. QuitEases
  BY <1>2, <1>3, <1>7 DEF QuitEases, SeatSet
<1>9. quit \subseteq quit' /\ quit' \subseteq Players
  BY <1>1, <1>3 DEF IInv, TypeOK
<1> QED
  BY <1>4, <1>6, <1>8, <1>9, ClientFrame

LEMMA ClientDetachGS ==
  ASSUME IInv, ClientInv, NEW c \in Conns, DetachGS(c)
  PROVE  ClientInv'
<1> DEFINE p == owner[c]
           s == sess[p]
<1>1. /\ p \in Players
      /\ owner' = owner /\ current' = current /\ quit' = quit
  BY OwnerIsPlayer DEF DetachGS, clientVars
<1>2. SeatEases(p) /\ \A q \in Players \ {p} : sess'[q] = sess[q]
  <2>1. CASE ~LastTransport(c)
    <3>1. SeatSet(p, s.member, s.playing, s.loading, s.hold, s.await,
                  s.pending, s.gs \ {c})
      BY <2>1, DetachOtherSeat
    <3>2. s.gs \ {c} # {}
      BY <2>1 DEF LastTransport
    <3> QED
      BY <1>1, <3>1, <3>2 DEF SeatEases, SeatSet
  <2>2. CASE LastTransport(c) /\ HoldEligible(c)
    <3>1. PICK w \in {None, s.pending} :
            SeatSet(p, s.member, FALSE, FALSE, TRUE, FALSE, w, {})
      BY <2>2, DetachHeldSeat
    <3> QED
      BY <3>1 DEF SeatEases, SeatSet
  <2>3. CASE LastTransport(c) /\ ~HoldEligible(c)
    <3>1. SeatSet(p, s.member, FALSE, FALSE, FALSE, s.await, None, {})
      BY <2>3, DetachIdleSeat
    <3> QED
      BY <3>1 DEF SeatEases, SeatSet
  <2> QED
    BY <2>1, <2>2, <2>3
<1>3. \A q \in Players : SeatEases(q)
  BY <1>1, <1>2, SetSeatEases
<1>4. \E x \in {"closed", "disarm"} : pc' = [pc EXCEPT ![c] = x]
  BY DEF DetachGS
<1>5. HandshakesEase
  BY <1>1, <1>4, HandshakesMove DEF Handshaking, Claimants
<1>6. QuitEases /\ quit \subseteq quit' /\ quit' \subseteq Players
  BY <1>1 DEF QuitEases, IInv, TypeOK
<1> QED
  BY <1>3, <1>5, <1>6, ClientFrame

LEMMA ClientTakeover ==
  ASSUME IInv, ClientInv, NEW c \in Conns, TakeoverMatchSession(c)
  PROVE  ClientInv'
<1> DEFINE p == owner[c]
           s == sess[p]
<1>1. /\ p \in Players /\ pc[c] = "nohold"
      /\ owner' = owner /\ current' = current /\ quit' = quit
  BY OwnerIsPlayer DEF TakeoverMatchSession, clientVars
<1>2. \E x \in {"closed", "retire"} : pc' = [pc EXCEPT ![c] = x]
  BY DEF TakeoverMatchSession
<1>3. HandshakesEase
  BY <1>1, <1>2, HandshakesMove DEF Handshaking, Claimants
<1>4. QuitEases /\ quit \subseteq quit' /\ quit' \subseteq Players
  BY <1>1 DEF QuitEases, IInv, TypeOK
<1>5. CASE LiveOwner(p)
  <2>1. SeatSet(p, s.member, FALSE, FALSE, TRUE, FALSE, None, {})
    BY <1>5, TakeoverSeat
  <2>2. SeatEases(p)
    BY <2>1 DEF SeatEases, SeatSet
  <2>3. \A q \in Players : SeatEases(q)
    BY <1>1, <1>4, <2>1, <2>2, SetSeatEases DEF SeatSet
  <2> QED
    BY <1>3, <1>4, <2>3, ClientFrame
<1>6. CASE ~LiveOwner(p)
  <2>1. Quiet
    BY <1>6 DEF TakeoverMatchSession, Quiet
  <2> QED
    BY <1>1, <1>3, <2>1, ClientQuiet
<1> QED
  BY <1>5, <1>6

\* A claim of the client's only handshake, on a held seat.
LEMMA ClaimedSeatEases ==
  ASSUME IInv, ClientInv, quit' = quit, NEW c \in Conns, NEW p \in Players,
         NEW nohold, ClaimMatchHold(c, p, nohold), sess' # sess
  PROVE  /\ \A q \in Players : SeatEases(q)
         /\ ~sess'[p].playing /\ ~sess'[p].loading
<1> DEFINE s == sess[p]
<1>1. s.member /\ s.hold
  BY ClaimSeat
<1>2. SeatSet(p, s.member, FALSE, FALSE, s.hold, s.await, c, s.gs \cup {c})
  BY ClaimSeat
<1>3. ~s.await
  BY <1>1, SeatKnown
<1>4. SeatEases(p) /\ ~sess'[p].playing /\ ~sess'[p].loading
  BY <1>2, <1>3 DEF SeatEases, SeatSet
<1> QED
  BY <1>2, <1>4, SetSeatEases DEF SeatSet

LEMMA ClientReclaim ==
  ASSUME IInv, ClientInv, NEW c \in Conns, Reclaim(c)
  PROVE  ClientInv'
<1> DEFINE p == owner[c]
<1>1. /\ p \in Players /\ pc[c] = "reclaim" /\ ClaimMatchHold(c, p, "closed")
      /\ owner' = owner /\ current' = current /\ quit' = quit
  BY OwnerIsPlayer DEF Reclaim, clientVars
<1>2. CASE sess' # sess
  <2>1. /\ \A q \in Players : SeatEases(q)
        /\ ~sess'[p].playing /\ ~sess'[p].loading
    BY <1>1, <1>2, ClaimedSeatEases
  <2>2. pc' = [pc EXCEPT ![c] = "claimed"]
    BY <1>1, <1>2 DEF ClaimMatchHold
  <2>3. HandshakesEase
    BY <1>1, <2>1, <2>2, HandshakesMove DEF Handshaking, Claimants
  <2>4. QuitEases /\ quit \subseteq quit' /\ quit' \subseteq Players
    BY <1>1 DEF QuitEases, IInv, TypeOK
  <2> QED
    BY <2>1, <2>3, <2>4, ClientFrame
<1>3. CASE sess' = sess
  <2>1. Quiet
    BY <1>3 DEF Quiet
  <2>2. \E x \in {"claimed", "closed"} : pc' = [pc EXCEPT ![c] = x]
    BY <1>1 DEF ClaimMatchHold
  <2>3. Claimable(p) => sess[p].hold
    BY DEF Claimable
  <2>4. pc' = [pc EXCEPT ![c] = "claimed"] => ~sess'[p].playing /\ ~sess'[p].loading
    <3>1. CASE Claimable(p) /\ ~sess[p].overdue
      BY <1>1, <1>3, <2>3, <3>1, SeatKnown
    <3>2. CASE ~(Claimable(p) /\ ~sess[p].overdue)
      <4>1. pc' = [pc EXCEPT ![c] = "closed"]
        BY <1>1, <3>2 DEF ClaimMatchHold
      <4>2. pc'[c] = "closed"
        BY <4>1, PcStep
      <4>3. pc' = [pc EXCEPT ![c] = "claimed"] => pc'[c] = "claimed"
        BY PcStep
      <4> QED
        BY <4>2, <4>3
    <3> QED
      BY <3>1, <3>2
  <2>5. HandshakesEase
    BY <1>1, <2>2, <2>4, HandshakesMove DEF Handshaking, Claimants
  <2> QED
    BY <1>1, <2>1, <2>5, ClientQuiet
<1> QED
  BY <1>2, <1>3

\* A client's new handshake is its only one: it had none, and its newest
\* connection is the new one.
LEMMA ClientReLogin ==
  ASSUME ~Overlap, IInv, ClientInv, NEW c \in Conns, NEW p \in Players, ReLogin(c, p)
  PROVE  ClientInv'
<1>1. /\ pc[c] = "unused" /\ p \notin quit /\ pc[current[p]] \notin Handshaking
      /\ ClaimMatchHold(c, p, "nohold") /\ quit' = quit
  BY DEF ReLogin
<1>2. /\ owner'[c] = p /\ current'[p] = c
      /\ \A d \in Conns \ {c} : owner'[d] = owner[d]
      /\ \A q \in Players \ {p} : current'[q] = current[q]
  BY DEF ReLogin, IInv, TypeOK
<1>3. \E x \in {"claimed", "closed", "nohold"} : pc' = [pc EXCEPT ![c] = x]
  BY <1>1 DEF ClaimMatchHold
<1>4. \A d \in Conns \ {c} : pc'[d] = pc[d]
  BY <1>3, PcStep
<1>5. \A d \in Conns \ {c} : pc[d] \in Handshaking =>
        owner[d] \in Players /\ owner[d] # p /\ d = current[owner[d]]
  BY <1>1, OwnerIsPlayer DEF ClientInv, NewestShakes, Handshaking
<1>6. \A q \in Players \ {p} : sess'[q] = sess[q]
  <2>1. CASE sess' # sess
    <3> DEFINE s == sess[p]
    <3>1. SeatSet(p, s.member, FALSE, FALSE, s.hold, s.await, c, s.gs \cup {c})
      BY <1>1, <2>1, ClaimSeat
    <3> QED
      BY <3>1 DEF SeatSet
  <2> QED
    BY <2>1
<1>7. /\ pc'[c] = "claimed" => ~sess'[p].playing /\ ~sess'[p].loading
      /\ sess'[p].loading => sess[p].loading
      /\ sess'[p].playing \/ sess'[p].loading => sess'[p].gs # {}
      /\ sess'[p].await /\ ~sess'[p].playing /\ sess'[p].member /\ sess'[p].gs # {} =>
           sess[p].await /\ ~sess[p].playing /\ sess[p].member /\ sess[p].gs # {}
  <2>1. CASE sess' # sess
    <3> DEFINE s == sess[p]
    <3>1. SeatSet(p, s.member, FALSE, FALSE, s.hold, s.await, c, s.gs \cup {c})
      BY <1>1, <2>1, ClaimSeat
    <3>2. s.hold
      BY <1>1, <2>1, ClaimSeat
    <3>3. ~s.await
      BY <3>2, SeatKnown
    <3> QED
      BY <3>1, <3>3 DEF SeatSet
  <2>2. CASE sess' = sess
    <3>1. pc'[c] = "claimed" => sess[p].hold
      <4>1. ~(Claimable(p) /\ ~sess[p].overdue) =>
              \E x \in {"closed", "nohold"} : pc' = [pc EXCEPT ![c] = x]
        BY <1>1 DEF ClaimMatchHold
      <4>2. ~(Claimable(p) /\ ~sess[p].overdue) => pc'[c] \in {"closed", "nohold"}
        BY <4>1, PcStep
      <4> QED
        BY <4>2 DEF Claimable
    <3>2. sess[p].playing \/ sess[p].loading => sess[p].gs # {}
      BY DEF ClientInv, InMatchIsAttached
    <3> QED
      BY <2>2, <3>1, <3>2, SeatKnown
  <2> QED
    BY <2>1, <2>2
<1>8. NewestShakes'
  <2> SUFFICES ASSUME NEW d \in Conns, pc'[d] \in Handshaking
               PROVE  d = current'[owner'[d]]
    BY DEF NewestShakes
  <2>1. CASE d = c
    BY <1>2, <2>1
  <2>2. CASE d # c
    BY <1>2, <1>4, <1>5, <2>2
  <2> QED
    BY <2>1, <2>2
<1>9. QuitIsQuiet'
  <2> SUFFICES ASSUME NEW q \in quit, q # p, q \in Players
               PROVE  /\ ~sess'[q].loading
                      /\ \A d \in Conns : owner'[d] = q /\ pc'[d] \in Handshaking
                           => ~sess'[q].member
    BY <1>1 DEF QuitIsQuiet, IInv, TypeOK
  <2>1. /\ ~sess[q].loading
        /\ \A d \in Conns : owner[d] = q /\ pc[d] \in Handshaking => ~sess[q].member
    BY DEF ClientInv, QuitIsQuiet
  <2> QED
    BY <1>2, <1>4, <1>6, <2>1
<1>10. AwaitIsLeft'
  <2> SUFFICES ASSUME NEW q \in Players, sess'[q].await, ~sess'[q].playing,
                      sess'[q].member, sess'[q].gs # {}
               PROVE  q \in quit
    BY <1>1 DEF AwaitIsLeft
  <2>1. sess[q].await /\ ~sess[q].playing /\ sess[q].member /\ sess[q].gs # {}
    BY <1>6, <1>7
  <2> QED
    BY <2>1 DEF ClientInv, AwaitIsLeft
<1>11. ClaimantsWait'
  <2> SUFFICES ASSUME NEW d \in Conns, pc'[d] \in Claimants
               PROVE  ~sess'[owner'[d]].playing /\ ~sess'[owner'[d]].loading
    BY DEF ClaimantsWait
  <2>1. CASE d = c
    <3>1. pc'[c] \in {"claimed", "closed", "nohold"}
      BY <1>3, PcStep
    <3> QED
      BY <1>2, <1>7, <2>1, <3>1 DEF Claimants
  <2>2. CASE d # c
    <3>1. pc[d] \in Claimants /\ owner'[d] = owner[d] /\ pc[d] \in Handshaking
      BY <1>2, <1>4, <2>2 DEF Claimants, Handshaking
    <3>2. ~sess[owner[d]].playing /\ ~sess[owner[d]].loading
      BY <3>1 DEF ClientInv, ClaimantsWait
    <3> QED
      BY <1>5, <1>6, <2>2, <3>1, <3>2
  <2> QED
    BY <2>1, <2>2
<1>12. InMatchIsAttached'
  <2> SUFFICES ASSUME NEW q \in Players, sess'[q].playing \/ sess'[q].loading
               PROVE  sess'[q].gs # {}
    BY DEF InMatchIsAttached
  <2>1. sess[q].playing \/ sess[q].loading => sess[q].gs # {}
    BY DEF ClientInv, InMatchIsAttached
  <2> QED
    BY <1>6, <1>7, <2>1
<1> QED
  BY <1>8, <1>9, <1>10, <1>11, <1>12 DEF ClientInv

LEMMA ClientAbandon ==
  ASSUME IInv, ClientInv, NEW c \in Conns, AbandonMatchResume(c)
  PROVE  ClientInv'
<1> DEFINE p == owner[c]
           s == sess[p]
<1>1. /\ p \in Players /\ pc[c] = "refused" /\ pc' = [pc EXCEPT ![c] = "closed"]
      /\ owner' = owner /\ current' = current /\ quit' = quit
  BY OwnerIsPlayer DEF AbandonMatchResume, At, clientVars
<1>2. HandshakesEase
  BY <1>1, HandshakesMove DEF Handshaking, Claimants
<1>3. ~s.playing /\ ~s.loading
  BY <1>1 DEF ClientInv, ClaimantsWait, Claimants
<1>4. PICK w \in {None, s.pending} :
        SeatSet(p, s.member, s.playing, s.loading, s.hold, s.await, w, s.gs \ {c})
  BY AbandonSeat
<1>5. SeatEases(p)
  BY <1>3, <1>4 DEF SeatEases, SeatSet
<1>6. \A q \in Players : SeatEases(q)
  BY <1>1, <1>4, <1>5, SetSeatEases DEF SeatSet
<1>7. QuitEases /\ quit \subseteq quit' /\ quit' \subseteq Players
  BY <1>1 DEF QuitEases, IInv, TypeOK
<1> QED
  BY <1>2, <1>6, <1>7, ClientFrame

\* The claim that completes was the only one.
LEMMA ClientComplete ==
  ASSUME IInv, ClientInv, NEW c \in Conns, CompleteMatchResume(c)
  PROVE  ClientInv'
<1> DEFINE p == owner[c]
           s == sess[p]
<1>1. /\ p \in Players /\ pc[c] = "acked"
      /\ owner' = owner /\ current' = current /\ quit' = quit
  BY OwnerIsPlayer DEF CompleteMatchResume, clientVars
<1>2. \E x \in {"resumed", "eof", "closed"} : pc' = [pc EXCEPT ![c] = x]
  BY DEF CompleteMatchResume, Unwind
<1>3. HandshakesEase
  BY <1>1, <1>2, HandshakesMove DEF Handshaking, Claimants
<1>4. QuitEases /\ quit \subseteq quit' /\ quit' \subseteq Players
  BY <1>1 DEF QuitEases, IInv, TypeOK
<1>5. CASE ClaimStands(c)
  <2>1. c \in s.gs
    BY <1>5, CompleteSeat
  <2>2. SeatSet(p, s.member, TRUE, FALSE, FALSE, TRUE, None, s.gs)
    BY <1>5, CompleteSeat
  <2>3. pc'[c] \notin Claimants /\ \A d \in Conns \ {c} : pc'[d] = pc[d]
    BY <1>2, PcStep DEF Claimants
  <2>4. \A d \in Conns : pc[d] \in Claimants => d = current[owner[d]]
    BY DEF ClientInv, NewestShakes, Claimants, Handshaking
  <2>5. c = current[p]
    BY <1>1, <2>4 DEF Claimants
  <2>6. \A d \in Conns : owner[d] = p => pc'[d] \notin Claimants
    BY <2>3, <2>4, <2>5
  <2>7. SeatEases(p)
    BY <2>1, <2>2, <2>6 DEF SeatEases, SeatSet
  <2>8. \A q \in Players : SeatEases(q)
    BY <1>1, <1>4, <2>2, <2>7, SetSeatEases DEF SeatSet
  <2> QED
    BY <1>3, <1>4, <2>8, ClientFrame
<1>6. CASE ~ClaimStands(c)
  <2>1. Quiet
    BY <1>6 DEF CompleteMatchResume, Quiet
  <2> QED
    BY <1>1, <1>3, <2>1, ClientQuiet
<1> QED
  BY <1>5, <1>6

\* A seat that is vacated is neither loading nor anybody's to claim.
LEMMA ClientVacate ==
  ASSUME IInv, ClientInv, NEW p \in Players, LeaveEffect(p), quit' \in {quit, quit \cup {p}},
         pc' = pc, owner' = owner, current' = current
  PROVE  ClientInv'
<1>1. SeatSet(p, FALSE, FALSE, FALSE, FALSE, sess[p].await, None, sess[p].gs)
  BY VacateSeat DEF LeaveEffect
<1>2. HandshakesEase
  BY DEF HandshakesEase
<1>3. quit \subseteq quit' /\ quit' \subseteq Players
  BY DEF IInv, TypeOK
<1>4. QuitEases
  BY <1>1 DEF QuitEases, SeatSet
<1>5. SeatEases(p)
  BY <1>1 DEF SeatEases, SeatSet
<1>6. \A q \in Players : SeatEases(q)
  BY <1>1, <1>3, <1>5, SetSeatEases DEF SeatSet
<1> QED
  BY <1>2, <1>3, <1>4, <1>6, ClientFrame

LEMMA ClientStill ==
  ASSUME IInv, ClientInv, Quiet, pc' = pc, owner' = owner, current' = current, quit' = quit
  PROVE  ClientInv'
<1>1. HandshakesEase
  BY DEF HandshakesEase
<1> QED
  BY <1>1, ClientQuiet

LEMMA ClientNext == ~Overlap /\ IInv /\ ClientInv /\ [Next]_vars => ClientInv'
<1> SUFFICES ASSUME ~Overlap, IInv, ClientInv, [Next]_vars PROVE ClientInv'
  OBVIOUS
<1>1. ASSUME NEW c \in Conns, Handler(c) PROVE ClientInv'
  <2>1. CASE \/ Ping(c) \/ Arm(c) \/ EOF(c) \/ NoteSoftResumeEOF(c) \/ DisarmIfIdle(c)
             \/ Retire(c) \/ SoftResumeRefuse(c) \/ ReLoginAck(c) \/ NoteSoftResumeAck(c)
    BY <2>1, ClientQuietHandler
  <2>2. CASE StartPlay(c) \/ LeaveGS(c) \/ DetachGS(c)
    BY <2>2, ClientStartPlay, ClientLeaveGS, ClientDetachGS
  <2>3. CASE TakeoverMatchSession(c) \/ Reclaim(c)
    BY <2>3, ClientTakeover, ClientReclaim
  <2>4. CASE AbandonMatchResume(c) \/ CompleteMatchResume(c)
    BY <2>4, ClientAbandon, ClientComplete
  <2>5. ASSUME NEW p \in Players, ReLogin(c, p) PROVE ClientInv'
    BY <2>5, ClientReLogin
  <2> QED
    BY <1>1, <2>1, <2>2, <2>3, <2>4, <2>5 DEF Handler
<1>2. ASSUME NEW p \in Players, QuitRoom(p) PROVE ClientInv'
  BY <1>2, ClientVacate DEF QuitRoom
<1>3. ASSUME NEW p \in Players, HoldDeadline(p) \/ AckWindowCloses(p) \/ CooldownEnds(p)
                                \/ LobbyEOF(p)
      PROVE  ClientInv'
  <2>1. Quiet
    BY <1>3, QuietClock
  <2>2. pc' = pc /\ owner' = owner /\ current' = current /\ quit' = quit
    BY <1>3 DEF HoldDeadline, AckWindowCloses, CooldownEnds, LobbyEOF, clientVars
  <2> QED
    BY <2>1, <2>2, ClientStill
<1>4. ASSUME NEW t \in timers, ExpireMatchHold(t[1], t[2]) PROVE ClientInv'
  <2>1. t[1] \in Players
    BY DEF IInv, TypeOK
  <2>2. pc' = pc /\ owner' = owner /\ current' = current /\ quit' = quit
    BY <1>4 DEF ExpireMatchHold, clientVars
  <2>3. CASE LeaveEffect(t[1])
    BY <2>1, <2>2, <2>3, ClientVacate
  <2>4. CASE sess' = sess
    BY <2>2, <2>4, ClientStill DEF Quiet
  <2> QED
    BY <1>4, <2>3, <2>4 DEF ExpireMatchHold
<1>5. CASE IdleTick \/ UNCHANGED vars
  BY <1>5, ClientStill DEF IdleTick, Quiet, vars, clientVars
<1> QED
  BY <1>1, <1>2, <1>3, <1>4, <1>5 DEF Next

LEMMA ClientInit == Init => ClientInv
<1> SUFFICES ASSUME Init PROVE ClientInv
  OBVIOUS
<1>1. \A c \in Conns : pc[c] \notin Handshaking /\ pc[c] \notin Claimants
  BY DEF Init, Handshaking, Claimants
<1>2. NewestShakes /\ ClaimantsWait
  BY <1>1 DEF NewestShakes, ClaimantsWait
<1>3. QuitIsQuiet
  BY DEF Init, QuitIsQuiet
<1>4. AwaitIsLeft /\ InMatchIsAttached
  BY SeatedInit DEF AwaitIsLeft, InMatchIsAttached
<1> QED
  BY <1>2, <1>3, <1>4 DEF ClientInv

-----------------------------------------------------------------------------
(* One phase per seat.                                                     *)

Seat == [p \in Players |-> SeatPhase(sess[p])]

\* A seat left on purpose that is out of play stays out of play.
QuitStays ==
  \A q \in quit : ~sess[q].playing /\ ~sess[q].hold => ~sess'[q].playing /\ ~sess'[q].hold

\* What a step may do to the seats.
SeatsMove == (Lifecycle!Next \/ Seat' = Seat) /\ QuitStays

LEMMA PhaseValues ==
  ASSUME NEW s
  PROVE  /\ ~s.member => SeatPhase(s) = "vacant"
         /\ s.member /\ s.hold => SeatPhase(s) = "reserved"
         /\ s.member /\ s.playing /\ ~s.hold => SeatPhase(s) = "playing"
         /\ s.member /\ s.loading /\ ~s.hold /\ ~s.playing => SeatPhase(s) = "loading"
         /\ s.member /\ ~s.hold /\ ~s.playing /\ ~s.loading => SeatPhase(s) = "idle"
  BY DEF SeatPhase

LEMMA PhaseRange ==
  ASSUME NEW s
  PROVE  SeatPhase(s) \in {"vacant", "reserved", "playing", "loading", "idle"}
  BY PhaseValues

\* The step puts the seat of p alone into a phase.
LEMMA PhaseMove ==
  ASSUME NEW p \in Players, \A q \in Players \ {p} : sess'[q] = sess[q],
         NEW from, NEW to, SeatPhase(sess[p]) \in from, SeatPhase(sess'[p]) = to
  PROVE  Lifecycle!Move(p, from, to)
<1>1. Seat' = [Seat EXCEPT ![p] = to]
  BY DEF Seat
<1>2. Seat[p] \in from
  BY DEF Seat
<1> QED
  BY <1>1, <1>2 DEF Lifecycle!Move, Seat

\* The phase of a seat depends on these fields only.
LEMMA PhaseFields ==
  ASSUME NEW s, NEW t, t.member = s.member, t.playing = s.playing,
         t.loading = s.loading, t.hold = s.hold
  PROVE  SeatPhase(t) = SeatPhase(s)
<1>1. CASE s.member /\ s.hold
  <2>1. t.member /\ t.hold
    BY <1>1
  <2> QED
    BY <1>1, <2>1, PhaseValues
<1>2. CASE s.member /\ ~s.hold /\ s.playing
  <2>1. t.member /\ ~t.hold /\ t.playing
    BY <1>2
  <2> QED
    BY <1>2, <2>1, PhaseValues
<1>3. CASE s.member /\ ~s.hold /\ ~s.playing /\ s.loading
  <2>1. t.member /\ ~t.hold /\ ~t.playing /\ t.loading
    BY <1>3
  <2> QED
    BY <1>3, <2>1, PhaseValues
<1>4. CASE s.member /\ ~s.hold /\ ~s.playing /\ ~s.loading
  <2>1. t.member /\ ~t.hold /\ ~t.playing /\ ~t.loading
    BY <1>4
  <2> QED
    BY <1>4, <2>1, PhaseValues
<1>5. CASE ~s.member
  <2>1. ~t.member
    BY <1>5
  <2> QED
    BY <1>5, <2>1, PhaseValues
<1> QED
  BY <1>1, <1>2, <1>3, <1>4, <1>5

LEMMA SamePhases ==
  ASSUME IInv,
         \A q \in Players :
           /\ sess'[q].member = sess[q].member /\ sess'[q].playing = sess[q].playing
           /\ sess'[q].loading = sess[q].loading /\ sess'[q].hold = sess[q].hold
  PROVE  SeatsMove
<1>1. \A q \in Players : SeatPhase(sess'[q]) = SeatPhase(sess[q])
  BY PhaseFields
<1>2. Seat' = Seat
  BY <1>1 DEF Seat
<1>3. QuitStays
  BY DEF QuitStays, IInv, TypeOK
<1> QED
  BY <1>2, <1>3 DEF SeatsMove

\* Giving up: whatever p's seat was, it is idle, or vacant as before.
LEMMA IdlePhase ==
  ASSUME IInv, NEW p \in Players, NEW s, s = sess[p], NEW w, NEW gs,
         SeatSet(p, s.member, FALSE, FALSE, FALSE, s.await, w, gs)
  PROVE  SeatsMove
<1>1. QuitStays
  BY DEF QuitStays, SeatSet, IInv, TypeOK
<1>2. \A q \in Players \ {p} : sess'[q] = sess[q]
  BY DEF SeatSet
<1>3. CASE ~s.member
  <2>1. ~s.playing /\ ~s.loading /\ ~s.hold
    BY <1>3, SeatKnown
  <2>2. s \in Session
    BY DEF IInv, TypeOK
  <2>3. s.playing = FALSE /\ s.loading = FALSE /\ s.hold = FALSE
    BY <2>1, <2>2 DEF Session
  <2>4. /\ sess'[p].member = s.member /\ sess'[p].playing = s.playing
        /\ sess'[p].loading = s.loading /\ sess'[p].hold = s.hold
    BY <2>3 DEF SeatSet
  <2> QED
    BY <1>2, <2>4, SamePhases
<1>4. CASE s.member
  <2>1. SeatPhase(sess'[p]) = "idle"
    BY <1>4, PhaseValues DEF SeatSet
  <2>2. SeatPhase(s) \in {"loading", "playing", "reserved", "idle"}
    BY <1>4, PhaseValues
  <2>3. CASE SeatPhase(s) = "idle"
    <3>1. Seat' = Seat
      BY <1>2, <2>1, <2>3 DEF Seat
    <3> QED
      BY <1>1, <3>1 DEF SeatsMove
  <2>4. CASE SeatPhase(s) \in {"loading", "playing", "reserved"}
    <3>1. Lifecycle!GiveUp(p)
      BY <1>2, <2>1, <2>4, PhaseMove DEF Lifecycle!GiveUp
    <3> QED
      BY <1>1, <3>1 DEF SeatsMove, Lifecycle!Next
  <2> QED
    BY <2>2, <2>3, <2>4
<1> QED
  BY <1>3, <1>4

\* Leaving: the seat of p is vacant.
LEMMA VacantPhase ==
  ASSUME IInv, NEW p \in Players, LeaveEffect(p)
  PROVE  SeatsMove
<1>1. SeatSet(p, FALSE, FALSE, FALSE, FALSE, sess[p].await, None, sess[p].gs)
  BY VacateSeat DEF LeaveEffect
<1>2. QuitStays
  BY <1>1 DEF QuitStays, SeatSet, IInv, TypeOK
<1>3. \A q \in Players \ {p} : sess'[q] = sess[q]
  BY <1>1 DEF SeatSet
<1>4. SeatPhase(sess'[p]) = "vacant"
  BY <1>1, PhaseValues DEF SeatSet
<1>5. CASE SeatPhase(sess[p]) = "vacant"
  <2>1. Seat' = Seat
    BY <1>3, <1>4, <1>5 DEF Seat
  <2> QED
    BY <1>2, <2>1 DEF SeatsMove
<1>6. CASE SeatPhase(sess[p]) # "vacant"
  <2>1. SeatPhase(sess[p]) \in Lifecycle!Phases \ {"vacant"}
    BY <1>6, PhaseRange DEF Lifecycle!Phases
  <2>2. Lifecycle!Leave(p)
    BY <1>3, <1>4, <2>1, PhaseMove DEF Lifecycle!Leave
  <2> QED
    BY <1>2, <2>2 DEF SeatsMove, Lifecycle!Next
<1> QED
  BY <1>5, <1>6

LEMMA StartPlayMoves ==
  ASSUME IInv, ClientInv, NEW c \in Conns, StartPlay(c)
  PROVE  SeatsMove
<1> DEFINE p == owner[c]
           s == sess[p]
<1>1. p \in Players /\ s.loading
  BY OwnerIsPlayer DEF StartPlay, At
<1>2. s.member /\ ~s.playing /\ ~s.hold
  BY <1>1, SeatKnown
<1>3. SeatSet(p, s.member, TRUE, FALSE, s.hold, s.await, s.pending, s.gs)
  BY StartPlaySeat
<1>4. p \notin quit
  BY <1>1 DEF ClientInv, QuitIsQuiet
<1>5. QuitStays
  BY <1>3, <1>4 DEF QuitStays, SeatSet, IInv, TypeOK
<1>6. SeatPhase(s) \in {"loading"} /\ SeatPhase(sess'[p]) = "playing"
  BY <1>1, <1>2, <1>3, PhaseValues DEF SeatSet
<1>7. \A q \in Players \ {p} : sess'[q] = sess[q]
  BY <1>3 DEF SeatSet
<1>8. Lifecycle!Begin(p)
  BY <1>1, <1>6, <1>7, PhaseMove DEF Lifecycle!Begin
<1> QED
  BY <1>1, <1>5, <1>8 DEF SeatsMove, Lifecycle!Next

\* A reservation is made for a seat in play.
LEMMA ReservePhase ==
  ASSUME IInv, NEW p \in Players, NEW s, s = sess[p], NEW w, NEW gs,
         s.member, s.playing, SeatSet(p, s.member, FALSE, FALSE, TRUE, FALSE, w, gs)
  PROVE  SeatsMove
<1>1. ~s.hold
  BY SeatKnown
<1>2. QuitStays
  BY DEF QuitStays, SeatSet, IInv, TypeOK
<1>3. \A q \in Players \ {p} : sess'[q] = sess[q]
  BY DEF SeatSet
<1>4. SeatPhase(s) \in {"playing"} /\ SeatPhase(sess'[p]) = "reserved"
  BY <1>1, PhaseValues DEF SeatSet
<1>5. Lifecycle!Reserve(p)
  BY <1>3, <1>4, PhaseMove DEF Lifecycle!Reserve
<1> QED
  BY <1>2, <1>5 DEF SeatsMove, Lifecycle!Next

LEMMA DetachGSMoves ==
  ASSUME IInv, NEW c \in Conns, DetachGS(c)
  PROVE  SeatsMove
<1> DEFINE p == owner[c]
           s == sess[p]
<1>1. p \in Players /\ s \in Session
  BY OwnerIsPlayer DEF DetachGS
<1>2. CASE ~LastTransport(c)
  <2>1. SeatSet(p, s.member, s.playing, s.loading, s.hold, s.await,
                s.pending, s.gs \ {c})
    BY <1>2, DetachOtherSeat
  <2> QED
    BY <2>1, SamePhases DEF SeatSet
<1>3. CASE LastTransport(c) /\ HoldEligible(c)
  <2>1. PICK w \in {None, s.pending} :
          SeatSet(p, s.member, FALSE, FALSE, TRUE, FALSE, w, {})
    BY <1>3, DetachHeldSeat
  <2>2. s.member /\ (s.hold \/ s.playing)
    BY <1>1, <1>3, SeatKnown, NoneAssumption DEF HoldEligible
  <2>3. CASE s.playing
    BY <1>1, <2>1, <2>2, <2>3, ReservePhase
  <2>4. CASE s.hold
    <3>1. s.playing = FALSE /\ s.loading = FALSE /\ s.hold = TRUE
      BY <1>1, <2>4, SeatKnown DEF Session
    <3> QED
      BY <2>1, <3>1, SamePhases DEF SeatSet
  <2> QED
    BY <2>2, <2>3, <2>4
<1>4. CASE LastTransport(c) /\ ~HoldEligible(c)
  <2>1. SeatSet(p, s.member, FALSE, FALSE, FALSE, s.await, None, {})
    BY <1>4, DetachIdleSeat
  <2> QED
    BY <1>1, <2>1, IdlePhase
<1> QED
  BY <1>2, <1>3, <1>4

\* A takeover of a seat that waits for its resume ping without being in play
\* would bring a seat back that was left; its client has quit, and a client
\* that quit has no handshake.
LEMMA TakeoverMoves ==
  ASSUME IInv, ClientInv, NEW c \in Conns, TakeoverMatchSession(c)
  PROVE  SeatsMove
<1> DEFINE p == owner[c]
           s == sess[p]
<1>1. p \in Players /\ pc[c] = "nohold"
  BY OwnerIsPlayer DEF TakeoverMatchSession
<1>2. CASE LiveOwner(p)
  <2>1. SeatSet(p, s.member, FALSE, FALSE, TRUE, FALSE, None, {})
    BY <1>2, TakeoverSeat
  <2>2. s.member /\ (s.playing \/ s.await) /\ s.gs # {}
    BY <1>2 DEF LiveOwner
  <2>3. p \notin quit
    BY <1>1, <2>2 DEF ClientInv, QuitIsQuiet, Handshaking
  <2>4. s.playing
    BY <1>1, <2>2, <2>3 DEF ClientInv, AwaitIsLeft
  <2> QED
    BY <1>1, <2>1, <2>2, <2>4, ReservePhase
<1>3. CASE ~LiveOwner(p)
  BY <1>3, SamePhases DEF TakeoverMatchSession
<1> QED
  BY <1>2, <1>3

LEMMA ClaimMoves ==
  ASSUME IInv, NEW c \in Conns, NEW p \in Players, NEW nohold,
         ClaimMatchHold(c, p, nohold)
  PROVE  SeatsMove
<1> DEFINE s == sess[p]
<1>1. CASE sess' # sess
  <2>1. SeatSet(p, s.member, FALSE, FALSE, s.hold, s.await, c, s.gs \cup {c})
    BY <1>1, ClaimSeat
  <2>2. s.hold /\ s \in Session
    BY <1>1, ClaimSeat DEF IInv, TypeOK
  <2>3. s.playing = FALSE /\ s.loading = FALSE
    BY <2>2, SeatKnown DEF Session
  <2> QED
    BY <2>1, <2>3, SamePhases DEF SeatSet
<1>2. CASE sess' = sess
  BY <1>2, SamePhases
<1> QED
  BY <1>1, <1>2

LEMMA AbandonMoves ==
  ASSUME IInv, NEW c \in Conns, AbandonMatchResume(c)
  PROVE  SeatsMove
<1> DEFINE p == owner[c]
           s == sess[p]
<1>1. PICK w \in {None, s.pending} :
        SeatSet(p, s.member, s.playing, s.loading, s.hold, s.await, w, s.gs \ {c})
  BY AbandonSeat
<1> QED
  BY <1>1, SamePhases DEF SeatSet

LEMMA CompleteMoves ==
  ASSUME IInv, NEW c \in Conns, CompleteMatchResume(c)
  PROVE  SeatsMove
<1> DEFINE p == owner[c]
           s == sess[p]
<1>1. p \in Players
  BY OwnerIsPlayer DEF CompleteMatchResume
<1>2. CASE ClaimStands(c)
  <2>1. s.member /\ s.hold
    BY <1>2, CompleteSeat
  <2>2. SeatSet(p, s.member, TRUE, FALSE, FALSE, TRUE, None, s.gs)
    BY <1>2, CompleteSeat
  <2>3. QuitStays
    BY <2>1, <2>2 DEF QuitStays, SeatSet, IInv, TypeOK
  <2>4. \A q \in Players \ {p} : sess'[q] = sess[q]
    BY <2>2 DEF SeatSet
  <2>5. SeatPhase(s) \in {"reserved"} /\ SeatPhase(sess'[p]) = "playing"
    BY <2>1, <2>2, PhaseValues DEF SeatSet
  <2>6. Lifecycle!Resume(p)
    BY <1>1, <2>4, <2>5, PhaseMove DEF Lifecycle!Resume
  <2> QED
    BY <1>1, <2>3, <2>6 DEF SeatsMove, Lifecycle!Next
<1>3. CASE ~ClaimStands(c)
  BY <1>3, SamePhases DEF CompleteMatchResume
<1> QED
  BY <1>2, <1>3

LEMMA LeaveGSMoves ==
  ASSUME IInv, NEW c \in Conns, LeaveGS(c)
  PROVE  SeatsMove
<1> DEFINE p == owner[c]
           s == sess[p]
<1>1. p \in Players
  BY OwnerIsPlayer DEF LeaveGS
<1>2. SeatSet(p, s.member, FALSE, FALSE, FALSE, s.await, None, s.gs)
  BY LeaveGSSeat
<1> QED
  BY <1>1, <1>2, IdlePhase

LEMMA QuietMoves ==
  ASSUME IInv, Quiet
  PROVE  SeatsMove
  BY SamePhases DEF Quiet

LEMMA NextMoves == IInv /\ ClientInv /\ [Next]_vars => SeatsMove
<1> SUFFICES ASSUME IInv, ClientInv, [Next]_vars PROVE SeatsMove
  OBVIOUS
<1>1. ASSUME NEW c \in Conns, Handler(c) PROVE SeatsMove
  <2>1. CASE \/ Ping(c) \/ Arm(c) \/ EOF(c) \/ NoteSoftResumeEOF(c) \/ DisarmIfIdle(c)
             \/ Retire(c) \/ SoftResumeRefuse(c) \/ ReLoginAck(c) \/ NoteSoftResumeAck(c)
    BY <2>1, QuietHandler, QuietMoves
  <2>2. CASE StartPlay(c) \/ LeaveGS(c) \/ DetachGS(c)
    BY <2>2, StartPlayMoves, LeaveGSMoves, DetachGSMoves
  <2>3. CASE TakeoverMatchSession(c) \/ AbandonMatchResume(c) \/ CompleteMatchResume(c)
    BY <2>3, TakeoverMoves, AbandonMoves, CompleteMoves
  <2>4. CASE Reclaim(c)
    BY <2>4, OwnerIsPlayer, ClaimMoves DEF Reclaim
  <2>5. ASSUME NEW p \in Players, ReLogin(c, p) PROVE SeatsMove
    BY <2>5, ClaimMoves DEF ReLogin
  <2> QED
    BY <1>1, <2>1, <2>2, <2>3, <2>4, <2>5 DEF Handler
<1>2. ASSUME NEW p \in Players, QuitRoom(p) PROVE SeatsMove
  BY <1>2, VacantPhase DEF QuitRoom
<1>3. ASSUME NEW p \in Players, HoldDeadline(p) \/ AckWindowCloses(p) \/ CooldownEnds(p)
                                \/ LobbyEOF(p)
      PROVE  SeatsMove
  BY <1>3, QuietClock, QuietMoves
<1>4. ASSUME NEW t \in timers, ExpireMatchHold(t[1], t[2]) PROVE SeatsMove
  <2>1. t[1] \in Players
    BY DEF IInv, TypeOK
  <2>2. CASE LeaveEffect(t[1])
    BY <2>1, <2>2, VacantPhase
  <2>3. CASE sess' = sess
    BY <2>3, SamePhases
  <2> QED
    BY <1>4, <2>2, <2>3 DEF ExpireMatchHold
<1>5. CASE IdleTick \/ UNCHANGED vars
  BY <1>5, SamePhases DEF IdleTick, vars
<1> QED
  BY <1>1, <1>2, <1>3, <1>4, <1>5 DEF Next

LEMMA LifecycleInit == Init => Lifecycle!Init
<1> SUFFICES ASSUME Init PROVE Lifecycle!Init
  OBVIOUS
<1>1. \A p \in Players : SeatPhase(sess[p]) = "loading"
  BY SeatedInit, PhaseValues
<1> QED
  BY <1>1 DEF Lifecycle!Init

-----------------------------------------------------------------------------
\* Whatever clients do, every active transport is attached, marked or about
\* to be marked, and a seat has at most one (DetachGSForDisconnect,
\* TakeoverMatchSession and handleReLogin's retiring loop).
THEOREM TransportsAreKnown == Spec => []TransportInv
<1>1. Init => IInv /\ TransportInv
  BY InitInv, TransportInit
<1>2. IInv /\ TransportInv /\ [Next]_vars => (IInv /\ TransportInv)'
  BY NextInv, TransportNext
<1> QED
  BY <1>1, <1>2, PTL DEF Spec

\* What holds of clients that wait for the answer to a ReLoginReq.
THEOREM ClientInvariance == ~Overlap => (Spec => []ClientInv)
<1> SUFFICES ASSUME ~Overlap PROVE Spec => []ClientInv
  OBVIOUS
<1>1. Init => IInv /\ ClientInv
  BY InitInv, ClientInit
<1>2. IInv /\ ClientInv /\ [Next]_vars => (IInv /\ ClientInv)'
  BY NextInv, ClientNext
<1> QED
  BY <1>1, <1>2, PTL DEF Spec

\* For such clients the newest connection wins, and a playing session always
\* has a transport whose disconnect will reserve or free its seat
\* (DetachGSForDisconnect, TakeoverMatchSession).
THEOREM TransportsTheorem == ~Overlap => (Spec => []TransportsFollowSeats)
<1> SUFFICES ASSUME ~Overlap PROVE Spec => []TransportsFollowSeats
  OBVIOUS
<1>1. IInv /\ TransportInv /\ ClientInv => TransportsFollowSeats
  <2> SUFFICES ASSUME IInv, TransportInv, ClientInv PROVE TransportsFollowSeats
    OBVIOUS
  <2>1. ASSUME NEW c \in Conns, NEW d \in Conns, pc[c] = "live", pc[d] = "live",
               c \notin detached, d \notin detached, owner[c] = owner[d], c # d
        PROVE  \E b \in Conns : c \in stale[b] \/ d \in stale[b]
    <3>1. owner[c] \in Players
      BY <2>1, OwnerIsPlayer
    <3>2. Serves(c, owner[c]) /\ Serves(d, owner[c])
      BY <2>1 DEF Serves, Active
    <3>3. ~(c \in sess[owner[c]].gs /\ d \in sess[owner[c]].gs)
      BY <2>1, <3>1, <3>2 DEF TransportInv, OneActive
    <3> QED
      BY <2>1, <3>2, <3>3 DEF TransportInv, ActiveIsKnown, Serves
  <2>2. transient \subseteq Conns
    BY DEF IInv, TypeOK
  <2>3. \A p \in Players : sess[p].playing => sess[p].gs # {}
    BY DEF ClientInv, InMatchIsAttached
  <2> QED
    BY <2>1, <2>2, <2>3 DEF TransportsFollowSeats
<1> QED
  BY <1>1, Invariance, TransportsAreKnown, ClientInvariance, PTL

\* For such clients a seat left on purpose is never reserved or resumed again
\* (LeaveRoom, MarkGSLeave against every section under way).
THEOREM QuitTheorem == ~Overlap => (Spec => QuitIsFinal)
<1> SUFFICES ASSUME ~Overlap PROVE Spec => QuitIsFinal
  OBVIOUS
<1>1. IInv /\ ClientInv /\ [Next]_vars =>
        [\A p \in quit : ~sess[p].playing /\ ~sess[p].hold
           => ~sess'[p].playing /\ ~sess'[p].hold]_vars
  BY NextMoves DEF SeatsMove, QuitStays
<1> QED
  BY <1>1, Invariance, ClientInvariance, PTL DEF Spec, QuitIsFinal

\* For such clients the machinery implements the safety part of SeatLifecycle:
\* it starts as the lifecycle does, and each of its steps begins, reserves,
\* resumes, gives up or vacates one seat, or leaves all phases as they are.
THEOREM LifecycleTheorem ==
  ~Overlap => (Spec => Lifecycle!Init /\ [][Lifecycle!Next]_Seat)
<1> SUFFICES ASSUME ~Overlap PROVE Spec => Lifecycle!Init /\ [][Lifecycle!Next]_Seat
  OBVIOUS
<1>1. IInv /\ ClientInv /\ [Next]_vars => [Lifecycle!Next]_Seat
  BY NextMoves DEF SeatsMove
<1> QED
  BY <1>1, LifecycleInit, Invariance, ClientInvariance, PTL DEF Spec
=============================================================================
