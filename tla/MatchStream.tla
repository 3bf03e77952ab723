---------------------------- MODULE MatchStream ----------------------------
(***************************************************************************)
(* The shared in-match packet stream of a room: op11 frames numbered by    *)
(* sendFrames (internal/match/clock.go), op7 actions numbered by           *)
(* handleUnitAction, and the replay that brings a rejoiner up to date      *)
(* (replayMatchResume, handleReLogin in internal/gs/handler.go).           *)
(*                                                                         *)
(* All three draw on one counter, room.MatchSynNext, under room.mu, and    *)
(* write under room.wireMu, which they take before they let go of room.mu. *)
(* The two locks are variables here, and each actor - the clock's owner    *)
(* goroutine and the handler of each peer's connection - is a process that *)
(* stops between the sections.                                             *)
(*                                                                         *)
(* A packet is its place in the order in which packets were numbered, and  *)
(* syn[k] is the number that packet k carries: the two differ by one until *)
(* the counter is moved for a rejoiner, after which numbers may repeat.    *)
(*                                                                         *)
(* MatchHold is the model of which connection may speak for a session;     *)
(* here a peer has one connection at a time, and conn[p] counts them, so   *)
(* that a write to a connection that is gone is lost.                      *)
(***************************************************************************)
EXTENDS Integers, Sequences, FiniteSets, SequencesExt

CONSTANTS
  Peers,       \* the members when LoadMap was broadcast
  Clock,       \* the owner goroutine
  None,        \* nobody holds the lock
  Catchup,     \* config.CatchupMax
  RingLimit,   \* session.MatchReplayLimit
  MaxPackets,  \* bound on the packets of one match
  MaxDrops,    \* bound on connections lost in one match
  Early        \* may a client act while another member is still loading?

ASSUME NamesAssumption == Clock \notin Peers /\ None \notin Peers \cup {Clock}
ASSUME NumbersAssumption ==
  /\ Catchup \in Nat \ {0} /\ RingLimit \in Nat \ {0}
  /\ MaxPackets \in Nat /\ MaxDrops \in Nat
ASSUME ClientsAssumption == Early \in BOOLEAN

VARIABLES
  synNext,     \* room.MatchSynNext
  syn,         \* syn[k]: the number of the k-th packet
  ring,        \* room.MatchReplay, oldest packet first
  mu, wire,    \* the holders of room.mu and room.wireMu
  status,      \* status[p]: p's session
  conn,        \* conn[p]: the number of p's connection
  from,        \* from[p]: the last number p's client has, its RequestedSyn
  pending,     \* peers whose connState.resumePending is set
  out,         \* out[p]: what was written to p's connection
  pc,          \* pc[x]: the next section of process x
  batch,       \* batch[x]: the packets x has numbered or copied
  dests,       \* the connections that the clock's batch goes to
  allFrozen,   \* rejoiners that found every other peer frozen
  drops        \* connections lost so far

roomVars == <<synNext, syn, ring>>
lockVars == <<mu, wire>>
peerVars == <<status, conn, from, pending>>
vars == <<synNext, syn, ring, mu, wire, status, conn, from, pending, out, pc, batch,
          dests, allFrozen, drops>>

Procs == Peers \cup {Clock}
Packets == 1..Len(syn)
Stages == {"idle", "wire", "write", "ask", "align", "replaywire", "replay", "stable"}
Statuses == {"loading", "playing", "await", "held", "left"}

TypeOK ==
  /\ syn \in Seq(0..MaxPackets - 1) /\ Len(syn) <= MaxPackets
  /\ synNext \in 0..Len(syn)
  /\ ring \in Seq(Packets) /\ Len(ring) <= RingLimit
  /\ mu \in Procs \cup {None} /\ wire \in Procs \cup {None}
  /\ status \in [Peers -> Statuses]
  /\ conn \in [Peers -> 0..MaxDrops]
  /\ from \in [Peers -> -1..MaxPackets - 1]
  /\ pending \subseteq Peers
  /\ out \in [Peers -> Seq(Packets)]
  /\ pc \in [Procs -> Stages]
  /\ batch \in [Procs -> Seq(Packets)]
  /\ dests \subseteq Peers \X (0..MaxDrops)
  /\ allFrozen \subseteq Peers
  /\ drops \in 0..MaxDrops

-----------------------------------------------------------------------------
Loading == {p \in Peers : status[p] = "loading"}

\* Mutant: a peer that was just acknowledged gets the live stream at once.
GateOpen == {p \in Peers : status[p] \in {"playing", "await"}}

\* Mutant: the whole room waits for a rejoiner.
GateFreezesRoom ==
  {p \in Peers : status[p] = "playing" /\ \A q \in Peers : status[q] # "held"}

\* IsMatchPlaying and not IsMatchClockFrozen: the peers the live stream goes to.
Live == {p \in Peers : status[p] = "playing"}

\* GSConns of each live peer, copied now.
LiveConns == {<<p, conn[p]>> : p \in Live}

\* Mutant: one packet too many survives.
KeepMore(s) == IF Len(s) > RingLimit + 1 THEN Tail(s) ELSE s

\* AppendMatchReplayLocked drops the oldest beyond the limit.
Bounded(s) ==
  IF Len(s) > RingLimit THEN SubSeq(s, Len(s) - RingLimit + 1, Len(s)) ELSE s

\* MatchReplayFromLocked(r) has something to give.
Replayable(r) == ring # <<>> /\ r >= syn[Head(ring)]

\* What MatchReplayFromLocked(r) gives of the ring.
Missed(k, r) == syn[k] >= r

\* RequestedSyn of a client that has not received anything yet is 0.
Requested(p) == IF from[p] < 0 THEN 0 ELSE from[p]

\* Every connection of D that is still p's gets packet k.
Deliver(k, D) ==
  out' = [p \in Peers |-> IF <<p, conn[p]>> \in D THEN Append(out[p], k) ELSE out[p]]

\* The room counts n packets: the next n numbers, kept in the ring.
Number(n) ==
  /\ Len(syn) + n <= MaxPackets
  /\ synNext' = synNext + n
  /\ syn' = syn \o [i \in 1..n |-> synNext + i - 1]
  /\ ring' = Bounded(ring \o [i \in 1..n |-> Len(syn) + i])

Goes(x, to) == pc' = [pc EXCEPT ![x] = to]

-----------------------------------------------------------------------------
(* op11: sendFrames.                                                       *)

\* Mutant: the frames are written without having claimed the wire.
NumberUnlocked ==
  /\ pc[Clock] = "idle" /\ mu = None /\ Loading = {} /\ LiveConns # {}
  /\ Number(1)
  /\ batch' = [batch EXCEPT ![Clock] = <<Len(syn) + 1>>]
  /\ dests' = LiveConns
  /\ Goes(Clock, "write")
  /\ UNCHANGED <<lockVars, peerVars, out, allFrozen, drops>>

\* Under room.mu: number n frames and copy the connections they go to.  The
\* wire lock is only wanted when there is somebody to write to.
NumberFrames ==
  /\ pc[Clock] = "idle" /\ mu = None
  /\ Loading = {}
  /\ \E p \in Peers : status[p] \in {"playing", "await", "held"}
  /\ \E n \in 1..Catchup :
       /\ Number(n)
       /\ IF LiveConns = {}
            THEN UNCHANGED <<mu, pc, batch, dests>>
            ELSE /\ mu' = Clock
                 /\ batch' = [batch EXCEPT ![Clock] = [i \in 1..n |-> Len(syn) + i]]
                 /\ dests' = LiveConns
                 /\ Goes(Clock, "wire")
  /\ UNCHANGED <<wire, peerVars, out, allFrozen, drops>>

\* WireLock, then room.Unlock: the clock and an op7 do it alike.
TakeWire(x) ==
  /\ pc[x] = "wire" /\ wire = None
  /\ wire' = x /\ mu' = None
  /\ Goes(x, "write")
  /\ UNCHANGED <<roomVars, peerVars, out, batch, dests, allFrozen, drops>>

\* One frame to every copied connection; WireUnlock after the last one.
WriteFrame ==
  /\ pc[Clock] = "write"
  /\ Deliver(Head(batch[Clock]), dests)
  /\ batch' = [batch EXCEPT ![Clock] = Tail(@)]
  /\ IF Len(batch[Clock]) > 1
       THEN UNCHANGED <<wire, pc, dests>>
       ELSE wire' = None /\ Goes(Clock, "idle") /\ dests' = {}
  /\ UNCHANGED <<roomVars, mu, peerVars, allFrozen, drops>>

-----------------------------------------------------------------------------
(* op7: handleUnitAction of p's connection.                                *)

\* Under room.mu: stamp and count the action.
StampUnitAction(p) ==
  /\ pc[p] = "idle" /\ mu = None
  /\ status[p] = "playing"
  /\ Early \/ Loading = {}
  /\ Number(1)
  /\ batch' = [batch EXCEPT ![p] = <<Len(syn) + 1>>]
  /\ mu' = p
  /\ Goes(p, "wire")
  /\ UNCHANGED <<wire, peerVars, out, dests, allFrozen, drops>>

\* To its sender, and to the peers that are live now.
RelayUnitAction(p) ==
  /\ pc[p] = "write"
  /\ Deliver(Head(batch[p]), LiveConns \cup {<<p, conn[p]>>})
  /\ batch' = [batch EXCEPT ![p] = <<>>]
  /\ wire' = None
  /\ Goes(p, "idle")
  /\ UNCHANGED <<roomVars, mu, peerVars, dests, allFrozen, drops>>

-----------------------------------------------------------------------------
(* Sessions come into the match, drop, come back and leave.                *)

\* op9/0x2003.
StartPlay(p) ==
  /\ status[p] = "loading"
  /\ status' = [status EXCEPT ![p] = "playing"]
  /\ UNCHANGED <<roomVars, lockVars, conn, from, pending, out, pc, batch, dests, allFrozen, drops>>

\* op9/0x3001.
LeaveGS(p) ==
  /\ pc[p] = "idle" /\ status[p] \in {"playing", "await"}
  /\ status' = [status EXCEPT ![p] = "left"]
  /\ UNCHANGED <<roomVars, lockVars, conn, from, pending, out, pc, batch, dests, allFrozen, drops>>

\* The connection is lost with what was still under way, and the seat held.
Drop(p) ==
  /\ pc[p] = "idle" /\ status[p] \in {"playing", "await"}
  /\ drops < MaxDrops
  /\ drops' = drops + 1
  /\ status' = [status EXCEPT ![p] = "held"]
  /\ conn' = [conn EXCEPT ![p] = @ + 1]
  /\ \E r \in {from[p]} \cup {syn[k] : k \in Range(out[p])} :
       from' = [from EXCEPT ![p] = r]
  /\ out' = [out EXCEPT ![p] = <<>>]
  /\ pending' = pending \ {p}
  /\ UNCHANGED <<roomVars, lockVars, pc, batch, dests, allFrozen>>

\* handleReLogin up to CompleteMatchResume.
ReLogin(p) ==
  /\ status[p] = "held"
  /\ status' = [status EXCEPT ![p] = "await"]
  /\ pending' = pending \cup {p}
  /\ Goes(p, "ask")
  /\ UNCHANGED <<roomVars, lockVars, conn, from, out, batch, dests, allFrozen, drops>>

\* MatchPeersFrozen: p itself is frozen until its first ping.
AskPeers(p) ==
  /\ pc[p] = "ask" /\ mu = None
  /\ allFrozen' = IF Live \subseteq {p} THEN allFrozen \cup {p} ELSE allFrozen
  /\ Goes(p, "align")
  /\ UNCHANGED <<roomVars, lockVars, peerVars, out, batch, dests, drops>>

\* The counter is moved up to a client that is ahead, and back to one that is
\* behind the ring, if every other peer was frozen when it was asked.
AlignSyn(p) ==
  LET need == Requested(p) + 1
      ahead == synNext < need
      rewind == synNext > need /\ p \in allFrozen /\ ~Replayable(Requested(p)) IN
  /\ pc[p] = "align" /\ mu = None
  /\ synNext' = IF Requested(p) > 0 /\ (ahead \/ rewind) THEN need ELSE synNext
  /\ allFrozen' = allFrozen \ {p}
  /\ Goes(p, "idle")
  /\ UNCHANGED <<syn, ring, lockVars, peerVars, out, batch, dests, drops>>

-----------------------------------------------------------------------------
(* op3 of a rejoiner: replayMatchResume.                                   *)

\* Under room.mu: copy the ring if it reaches back to what was missed.
CopyReplay(p) ==
  /\ pc[p] = "idle" /\ mu = None
  /\ p \in pending /\ status[p] = "await"
  /\ IF Replayable(Requested(p))
       THEN /\ mu' = p
            /\ batch' = [batch EXCEPT ![p] = ring]
            /\ Goes(p, "replaywire")
            /\ pending' = pending
       ELSE /\ Goes(p, "stable")
            /\ pending' = pending \ {p}
            /\ UNCHANGED <<mu, batch>>
  /\ UNCHANGED <<roomVars, wire, status, conn, from, out, dests, allFrozen, drops>>

TakeReplayWire(p) ==
  /\ pc[p] = "replaywire" /\ wire = None
  /\ wire' = p /\ mu' = None
  /\ Goes(p, "replay")
  /\ UNCHANGED <<roomVars, peerVars, out, batch, dests, allFrozen, drops>>

\* Mutant: a failed write returns without WireUnlock.
KeepTheWire(p) ==
  /\ pc[p] = "replay"
  /\ batch' = [batch EXCEPT ![p] = <<>>]
  /\ Goes(p, "stable")
  /\ UNCHANGED <<roomVars, lockVars, peerVars, out, dests, allFrozen, drops>>

\* One packet of the copy, if it was missed; after the last one WireUnlock, and
\* resumePending is cleared.  (A write that fails is one to a connection that is
\* about to drop, where Drop lets the client have any part of out.)
WriteReplay(p) ==
  /\ pc[p] = "replay"
  /\ out' = [out EXCEPT ![p] =
               IF Missed(Head(batch[p]), Requested(p)) THEN Append(@, Head(batch[p])) ELSE @]
  /\ batch' = [batch EXCEPT ![p] = Tail(@)]
  /\ IF Len(batch[p]) > 1
       THEN UNCHANGED <<wire, pending, pc>>
       ELSE wire' = None /\ pending' = pending \ {p} /\ Goes(p, "stable")
  /\ UNCHANGED <<roomVars, mu, status, conn, from, dests, allFrozen, drops>>

\* NoteSoftResumeStable opens the gate for the live stream.
Stable(p) ==
  /\ pc[p] = "stable"
  /\ status' = [status EXCEPT ![p] = IF @ = "await" THEN "playing" ELSE @]
  /\ Goes(p, "idle")
  /\ UNCHANGED <<roomVars, lockVars, conn, from, pending, out, batch, dests, allFrozen, drops>>

-----------------------------------------------------------------------------
Init ==
  /\ synNext = 0 /\ syn = <<>> /\ ring = <<>>
  /\ mu = None /\ wire = None
  /\ status = [p \in Peers |-> "loading"]
  /\ conn = [p \in Peers |-> 0]
  /\ from = [p \in Peers |-> -1]
  /\ pending = {}
  /\ out = [p \in Peers |-> <<>>]
  /\ pc = [x \in Procs |-> "idle"]
  /\ batch = [x \in Procs |-> <<>>]
  /\ dests = {}
  /\ allFrozen = {}
  /\ drops = 0

\* The sections a process runs through once it has started a packet.
Going(x) ==
  \/ TakeWire(x)
  \/ x = Clock /\ WriteFrame
  \/ x \in Peers /\ (RelayUnitAction(x) \/ AskPeers(x) \/ AlignSyn(x)
                       \/ TakeReplayWire(x) \/ WriteReplay(x) \/ Stable(x))

Next ==
  \/ NumberFrames
  \/ \E x \in Procs : Going(x)
  \/ \E p \in Peers :
       \/ StartPlay(p) \/ StampUnitAction(p) \/ LeaveGS(p) \/ Drop(p)
       \/ ReLogin(p) \/ CopyReplay(p)

\* A process that holds or wants a lock is scheduled, and a mutex that keeps
\* being free is taken (Go's mutexes do not starve a waiter).
Fairness == \A x \in Procs : SF_vars(Going(x))

Spec == Init /\ [][Next]_vars /\ Fairness

-----------------------------------------------------------------------------
Increasing(s) == \A i \in 1..(Len(s) - 1) : s[i] < s[i + 1]

\* One order on the wire: no connection ever sees a packet overtake one that was
\* numbered before it, among the clock, the op7s of all peers and a replay ("op7
\* and op11 must not overtake each other on the wire"), however often
\* connections are lost and the counter is moved.
WireOrder == \A p \in Peers : Increasing(out[p])

\* A peer that plays on gets every packet of the match from the first, under
\* consecutive numbers, whatever happens to the others (rejoins, replays,
\* rewinds included).
SurvivorGetsAll ==
  \A p \in Peers : conn[p] = 0 /\ status[p] # "left" =>
    \A i \in 1..Len(out[p]) : out[p][i] = i /\ syn[i] = i - 1

\* A rejoiner is written to by its own replay and nothing else until its gate
\* opens, even by a batch whose recipients were copied before it dropped.
NoFarAheadLive ==
  [][\A p \in Peers :
       status[p] = "await" /\ out'[p] # out[p] /\ conn'[p] = conn[p]
         => wire = p]_vars

\* Nobody waits for ever for room.mu or the wire: whoever has numbered or
\* copied packets gets them out.
PacketsGetOut == \A x \in Procs : batch[x] # <<>> ~> batch[x] = <<>>
=============================================================================
