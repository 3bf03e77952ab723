------------------------- MODULE MatchStreamProofs -------------------------
(***************************************************************************)
(* Proofs about MatchStream, for every set of peers, every ring, batch and *)
(* number of packets and of lost connections: types, the order on the      *)
(* wire, the gate of a rejoiner and, where clients act only once all have  *)
(* loaded, that a survivor gets every packet.                              *)
(***************************************************************************)
EXTENDS MatchStream, SequenceTheorems, TLAPS

-----------------------------------------------------------------------------
Bringing == {"wire", "write"}
Replaying == {"replaywire", "replay"}
Rejoining == {"ask", "align", "replaywire", "replay", "stable"}

Ascending(s) == \A i, j \in 1..Len(s) : i < j => s[i] < s[j]

Precedes(s, t) == \A i \in 1..Len(s), j \in 1..Len(t) : s[i] < t[j]

\* The numbers that were given, and that a client can ask for, are below the
\* number of packets; a client has had as many connections as were lost.
NumbersAreBounded ==
  /\ \A p \in Peers : conn[p] <= drops
  /\ \A k \in 1..Len(syn) : syn[k] < Len(syn)
  /\ \A p \in Peers : from[p] < Len(syn)

\* A lock is held in exactly the stages that claim it.
LocksAgree ==
  \A x \in Procs :
    /\ mu = x <=> pc[x] \in {"wire", "replaywire"}
    /\ wire = x <=> pc[x] \in {"write", "replay"}

\* What a process can be doing, by what it is and what its session is.
StagesAgree ==
  /\ pc[Clock] \in {"idle", "wire", "write"}
  /\ \A p \in Peers : pc[p] \in Bringing => status[p] = "playing"
  /\ \A p \in Peers : pc[p] \in Rejoining => status[p] = "await"
  /\ \A p \in Peers : pc[p] \in Rejoining \ {"stable"} => p \in pending

\* Packets wait to be written only in the stages that bring them to the wire.
BatchesAgree ==
  \A x \in Procs :
    /\ batch[x] # <<>> <=> pc[x] \in Bringing \cup Replaying
    /\ Ascending(batch[x])

RingAscends == Ascending(ring)

\* New packets come behind all that is written, and behind those whose writer
\* has the wire already.
NewComesLast ==
  \A x \in Procs :
    /\ pc[x] \in Bringing => \A p \in Peers : Precedes(out[p], batch[x])
    /\ pc[x] = "wire" =>
         \A y \in Procs : pc[y] \in {"write", "replay"} => Precedes(batch[y], batch[x])

\* A rejoiner has got nothing before its replay, and then only its replay.
RejoinersWait ==
  \A p \in Peers :
    /\ status[p] = "held" => out[p] = <<>>
    /\ status[p] = "await" /\ p \in pending /\ pc[p] # "replay" => out[p] = <<>>
    /\ pc[p] = "replay" => Precedes(out[p], batch[p])
    /\ status[p] \in {"held", "await"} => <<p, conn[p]>> \notin dests
    /\ \A c \in 0..MaxDrops : <<p, c>> \in dests => c <= conn[p]

OutAscends == \A p \in Peers : Ascending(out[p])

IInv ==
  /\ TypeOK /\ NumbersAreBounded /\ LocksAgree /\ StagesAgree /\ BatchesAgree
  /\ RingAscends /\ NewComesLast /\ RejoinersWait /\ OutAscends

-----------------------------------------------------------------------------
Survives(p) == conn[p] = 0 /\ status[p] # "left"

\* The packets that a process in stage st, holding lock l, has still to write.
InHand(l, st) == IF l \in Procs /\ pc[l] = st THEN Len(batch[l]) ELSE 0

SurvivorPlays ==
  /\ \A p \in Peers : conn[p] = 0 => status[p] \in {"loading", "playing", "left"}
  /\ Loading # {} => syn = <<>>

\* While somebody plays on, nobody that could rewind was told that all are frozen.
NobodyRewinds ==
  /\ allFrozen \subseteq {q \in Peers : pc[q] = "align"}
  /\ (\E p \in Peers : Survives(p)) =>
       /\ \A q \in allFrozen : from[q] <= 0
       /\ synNext = Len(syn)
       /\ \A k \in 1..Len(syn) : syn[k] = k - 1

\* What a survivor has, what is being written and what waits for the wire are
\* together all packets.
NothingSkipped ==
  /\ \A x \in Procs : pc[x] \in Bringing =>
       \A i \in 1..Len(batch[x]) : batch[x][i] = batch[x][1] + i - 1
  /\ \A p \in Peers : pc[p] \in Bringing => Len(batch[p]) = 1
  /\ \A p \in Peers : Survives(p) =>
       /\ \A i \in 1..Len(out[p]) : out[p][i] = i
       /\ Len(out[p]) + InHand(wire, "write") + InHand(mu, "wire") = Len(syn)
       /\ \A x \in Procs : pc[x] = "write" => batch[x][1] = Len(out[p]) + 1
       /\ \A x \in Procs : pc[x] = "wire" =>
            batch[x][1] = Len(out[p]) + InHand(wire, "write") + 1
       /\ pc[Clock] \in Bringing => <<p, 0>> \in dests

SInv == SurvivorPlays /\ NobodyRewinds /\ NothingSkipped

-----------------------------------------------------------------------------
(* Sequences of packets.                                                   *)

\* A sequence over some packets is one over more of them.
LEMMA MorePackets ==
  ASSUME NEW S, NEW T, S \subseteq T, NEW s \in Seq(S)
  PROVE  s \in Seq(T)
<1>1. s \in [1..Len(s) -> T]  OBVIOUS
<1>2. QED  BY <1>1

\* Append adds one packet at the end.
LEMMA AppendFacts ==
  ASSUME NEW S, NEW s \in Seq(S), NEW k \in S
  PROVE  /\ Append(s, k) \in Seq(S)
         /\ Len(Append(s, k)) = Len(s) + 1
         /\ \A i \in 1..Len(s) : Append(s, k)[i] = s[i]
         /\ Append(s, k)[Len(s) + 1] = k
OBVIOUS

\* Tail takes the first one away.
LEMMA TailFacts ==
  ASSUME NEW S, NEW s \in Seq(S), s # <<>>
  PROVE  /\ Head(s) = s[1] /\ Head(s) \in S /\ 1 \in 1..Len(s)
         /\ Tail(s) \in Seq(S)
         /\ Len(Tail(s)) = Len(s) - 1
         /\ \A i \in 1..Len(s) - 1 : Tail(s)[i] = s[i + 1] /\ i + 1 \in 1..Len(s)
OBVIOUS

\* Ascending and Precedes under Append: the new packet comes behind all.
LEMMA AppendAscends ==
  ASSUME NEW s \in Seq(Int), NEW k \in Int, Ascending(s),
         \A i \in 1..Len(s) : s[i] < k
  PROVE  Ascending(Append(s, k))
BY AppendFacts, SMT DEF Ascending

LEMMA AppendPrecedes ==
  ASSUME NEW s \in Seq(Int), NEW k \in Int, NEW t \in Seq(Int),
         Precedes(s, t), \A j \in 1..Len(t) : k < t[j]
  PROVE  Precedes(Append(s, k), t)
BY AppendFacts, SMT DEF Precedes

\* What the head of an ascending batch leaves behind it.
LEMMA TailAscends ==
  ASSUME NEW s \in Seq(Int), s # <<>>, Ascending(s)
  PROVE  /\ Ascending(Tail(s))
         /\ \A i \in 1..Len(Tail(s)) : s[1] < Tail(s)[i]
<1> DEFINE t == Tail(s)
<1>1. /\ Len(t) = Len(s) - 1 /\ Len(s) \in Nat
      /\ \A i \in 1..Len(s) - 1 : t[i] = s[i + 1] /\ i + 1 \in 1..Len(s) /\ 1 \in 1..Len(s)
  BY TailFacts
<1> HIDE DEF t
<1>2. ASSUME NEW i \in 1..Len(t), NEW j \in 1..Len(t), i < j  PROVE t[i] < t[j]
  <2>1. t[i] = s[i + 1] /\ t[j] = s[j + 1]  BY <1>1
  <2>2. i + 1 \in 1..Len(s) /\ j + 1 \in 1..Len(s) /\ i + 1 < j + 1  BY <1>1, <1>2
  <2>3. QED  BY <2>1, <2>2 DEF Ascending
<1>3. ASSUME NEW i \in 1..Len(t)  PROVE s[1] < t[i]
  <2>1. t[i] = s[i + 1]  BY <1>1
  <2>2. 1 \in 1..Len(s) /\ i + 1 \in 1..Len(s) /\ 1 < i + 1  BY <1>1
  <2>3. QED  BY <2>1, <2>2 DEF Ascending
<1>4. Ascending(t) /\ \A i \in 1..Len(t) : s[1] < t[i]  BY <1>2, <1>3 DEF Ascending
<1>5. QED  BY <1>4 DEF t

LEMMA TailPrecedes ==
  ASSUME NEW s \in Seq(Int), s # <<>>, NEW t \in Seq(Int)
  PROVE  /\ Precedes(s, t) => Precedes(Tail(s), t)
         /\ Precedes(t, s) => Precedes(t, Tail(s))
         /\ Precedes(s, t) => \A j \in 1..Len(t) : s[1] < t[j]
         /\ Precedes(t, s) => \A j \in 1..Len(t) : t[j] < s[1]
<1> DEFINE u == Tail(s)
<1>1. /\ Len(u) = Len(s) - 1 /\ Len(s) \in Nat /\ 1 \in 1..Len(s)
      /\ \A i \in 1..Len(s) - 1 : u[i] = s[i + 1] /\ i + 1 \in 1..Len(s)
  BY TailFacts
<1> HIDE DEF u
<1>2. QED  BY <1>1, SMT DEF Precedes

\* The ring keeps the last packets, in their order.
LEMMA BoundedFacts ==
  ASSUME NEW S, NEW s \in Seq(S)
  PROVE  /\ Bounded(s) \in Seq(S)
         /\ Len(Bounded(s)) <= RingLimit
<1>1. CASE Len(s) > RingLimit
  <2> DEFINE m == Len(s) - RingLimit + 1
  <2>1. m \in 1..Len(s) /\ Len(s) - m + 1 = RingLimit  BY <1>1, NumbersAssumption
  <2>2. SubSeq(s, m, Len(s)) \in Seq(S) /\ Len(SubSeq(s, m, Len(s))) = RingLimit
    BY <2>1, SubSeqProperties, NumbersAssumption
  <2>3. QED  BY <1>1, <2>2, NumbersAssumption DEF Bounded
<1>2. CASE ~(Len(s) > RingLimit)
  BY <1>2, NumbersAssumption DEF Bounded
<1>3. QED  BY <1>1, <1>2

LEMMA BoundedAscends ==
  ASSUME NEW s \in Seq(Int), Ascending(s)
  PROVE  Ascending(Bounded(s))
<1>1. CASE Len(s) > RingLimit
  <2> DEFINE m == Len(s) - RingLimit + 1
             t == SubSeq(s, m, Len(s))
  <2>1. m \in 1..Len(s) /\ Len(s) \in 1..Len(s) /\ Len(s) - m + 1 = RingLimit /\ Len(s) \in Nat
    BY <1>1, NumbersAssumption
  <2>2. Len(t) = RingLimit /\ \A i \in 1..RingLimit : t[i] = s[m + i - 1]
    BY <2>1, SubSeqProperties, NumbersAssumption
  <2>3. \A i \in 1..RingLimit : m + i - 1 \in 1..Len(s)
    BY <2>1, NumbersAssumption
  <2>4. Bounded(s) = t  BY <1>1 DEF Bounded
  <2> HIDE DEF m, t
  <2>5. ASSUME NEW i \in 1..Len(t), NEW j \in 1..Len(t), i < j  PROVE t[i] < t[j]
    <3>1. i \in 1..RingLimit /\ j \in 1..RingLimit  BY <2>2, <2>5
    <3>2. m + i - 1 \in 1..Len(s) /\ m + j - 1 \in 1..Len(s) /\ m + i - 1 < m + j - 1
      BY <2>1, <2>3, <2>5, <3>1
    <3>3. s[m + i - 1] < s[m + j - 1]  BY <3>2 DEF Ascending
    <3>4. QED  BY <2>2, <3>1, <3>3
  <2>6. QED  BY <2>4, <2>5 DEF Ascending
<1>2. CASE ~(Len(s) > RingLimit)
  BY <1>2 DEF Bounded
<1>3. QED  BY <1>1, <1>2

-----------------------------------------------------------------------------
(* Numbering n packets.                                                    *)

Frames(n) == [i \in 1..n |-> Len(syn) + i]

\* The new packets, in order, come behind all that there were.
LEMMA FramesFacts ==
  ASSUME TypeOK, NEW n \in Nat, n > 0
  PROVE  /\ Frames(n) \in Seq(1..(Len(syn) + n))
         /\ Len(Frames(n)) = n /\ Frames(n) # <<>>
         /\ \A i \in 1..n : Frames(n)[i] = Len(syn) + i
         /\ Ascending(Frames(n))
         /\ \A s \in Seq(1..Len(syn)) : Precedes(s, Frames(n))
<1>1. Len(syn) \in Nat  BY DEF TypeOK
<1>2. /\ Frames(n) \in Seq(1..(Len(syn) + n)) /\ Len(Frames(n)) = n
      /\ \A i \in 1..n : Frames(n)[i] = Len(syn) + i
  BY <1>1 DEF Frames
<1>3. Ascending(Frames(n))  BY <1>1, <1>2, SMT DEF Ascending
<1>4. ASSUME NEW s \in Seq(1..Len(syn))  PROVE Precedes(s, Frames(n))
  <2>1. \A i \in 1..Len(s) : s[i] \in 1..Len(syn)  OBVIOUS
  <2>2. QED  BY <1>1, <1>2, <2>1, SMT DEF Precedes
<1>5. Frames(n) # <<>>  BY <1>2
<1>6. QED  BY <1>2, <1>3, <1>4, <1>5

\* The counter, the numbers and the ring afterwards.
LEMMA NumberFacts ==
  ASSUME TypeOK, NumbersAreBounded, RingAscends, NEW n \in Nat, n > 0, Number(n)
  PROVE  /\ syn' \in Seq(0..MaxPackets - 1) /\ Len(syn') = Len(syn) + n
         /\ Len(syn) \in Nat /\ Len(syn') <= MaxPackets
         /\ synNext' \in 0..Len(syn')
         /\ \A k \in 1..Len(syn) : syn'[k] = syn[k]
         /\ \A k \in (Len(syn) + 1)..Len(syn') : syn'[k] = synNext + (k - Len(syn)) - 1
         /\ Packets \subseteq Packets'
         /\ ring' \in Seq(Packets') /\ Len(ring') <= RingLimit
         /\ RingAscends'
         /\ \A k \in 1..Len(syn') : syn'[k] < Len(syn')
<1>1. /\ Len(syn) \in Nat /\ synNext \in Nat /\ synNext <= Len(syn) /\ MaxPackets \in Nat
      /\ syn \in Seq(0..MaxPackets - 1) /\ ring \in Seq(1..Len(syn))
      /\ Len(syn) + n <= MaxPackets
  BY NumbersAssumption DEF TypeOK, Number, Packets
<1> DEFINE new == [i \in 1..n |-> synNext + i - 1]
<1>2. new \in Seq(0..MaxPackets - 1) /\ Len(new) = n /\ \A i \in 1..n : new[i] = synNext + i - 1
  <2>1. \A i \in 1..n : synNext + i - 1 \in 0..MaxPackets - 1  BY <1>1
  <2>2. QED  BY <2>1
<1>3. syn' = syn \o new /\ synNext' = synNext + n  BY DEF Number
<1> HIDE DEF new
<1>4. syn' \in Seq(0..MaxPackets - 1) /\ Len(syn') = Len(syn) + n
  BY <1>1, <1>2, <1>3, ConcatProperties
<1>5. \A k \in 1..Len(syn') : syn'[k] = IF k <= Len(syn) THEN syn[k] ELSE new[k - Len(syn)]
  BY <1>1, <1>2, <1>3, <1>4, ConcatProperties
<1>6. /\ \A k \in 1..Len(syn) : syn'[k] = syn[k]
      /\ \A k \in (Len(syn) + 1)..Len(syn') : syn'[k] = synNext + (k - Len(syn)) - 1
  <2>1. ASSUME NEW k \in 1..Len(syn)  PROVE syn'[k] = syn[k]
    <3>1. k \in 1..Len(syn') /\ k <= Len(syn)  BY <1>1, <1>4
    <3>2. QED  BY <1>5, <3>1
  <2>2. ASSUME NEW k \in (Len(syn) + 1)..Len(syn')
        PROVE  syn'[k] = synNext + (k - Len(syn)) - 1
    <3>1. k \in 1..Len(syn') /\ ~(k <= Len(syn)) /\ k - Len(syn) \in 1..n  BY <1>1, <1>4
    <3>2. syn'[k] = new[k - Len(syn)]  BY <1>5, <3>1
    <3>3. QED  BY <1>2, <3>1, <3>2
  <2>3. QED  BY <2>1, <2>2
<1>7. \A k \in 1..Len(syn') : syn'[k] < Len(syn')
  <2>1. TAKE k \in 1..Len(syn')
  <2>2. CASE k <= Len(syn)
    <3>1. k \in 1..Len(syn)  BY <1>1, <1>4, <2>2
    <3>2. syn'[k] = syn[k] /\ syn[k] < Len(syn) /\ syn[k] \in Int
      BY <1>1, <1>6, <3>1, ElementOfSeq DEF NumbersAreBounded
    <3>3. QED  BY <1>1, <1>4, <3>2
  <2>3. CASE k > Len(syn)
    <3>1. k \in (Len(syn) + 1)..Len(syn') /\ k <= Len(syn) + n  BY <1>1, <1>4, <2>3
    <3>2. syn'[k] = synNext + (k - Len(syn)) - 1  BY <1>6, <3>1
    <3>3. QED  BY <1>1, <1>4, <3>1, <3>2
  <2>4. QED  BY <1>1, <1>4, <2>2, <2>3
<1>8. Packets' = 1..(Len(syn) + n) /\ Packets = 1..Len(syn) /\ Packets \subseteq Packets'
  BY <1>1, <1>4 DEF Packets
<1> DEFINE all == ring \o Frames(n)
<1>9. /\ all \in Seq(Packets') /\ Len(all) = Len(ring) + n /\ Len(ring) \in Nat
      /\ \A i \in 1..Len(all) : all[i] = IF i <= Len(ring) THEN ring[i] ELSE Frames(n)[i - Len(ring)]
  <2>1. ring \in Seq(Packets')  BY <1>1, <1>8, MorePackets
  <2>2. Frames(n) \in Seq(Packets') /\ Len(Frames(n)) = n  BY <1>8, FramesFacts
  <2>3. Len(all) = Len(ring) + Len(Frames(n))  BY <2>1, <2>2, ConcatProperties
  <2>4. /\ all \in Seq(Packets')
        /\ \A i \in 1..(Len(ring) + Len(Frames(n))) :
             all[i] = IF i <= Len(ring) THEN ring[i] ELSE Frames(n)[i - Len(ring)]
    BY <2>1, <2>2, ConcatProperties
  <2> HIDE DEF all
  <2>5. Len(all) = Len(ring) + n  BY <2>2, <2>3
  <2>6. Len(ring) \in Nat  BY <1>1
  <2>7. QED  BY <2>2, <2>3, <2>4, <2>5, <2>6
<1>10. Ascending(all)
  <2>1. /\ Ascending(ring) /\ Ascending(Frames(n)) /\ Precedes(ring, Frames(n))
        /\ Len(Frames(n)) = n
    BY <1>1, FramesFacts DEF RingAscends
  <2> HIDE DEF all
  <2>2. ASSUME NEW i \in 1..Len(all), NEW j \in 1..Len(all), i < j  PROVE all[i] < all[j]
    <3>1. CASE j <= Len(ring)
      BY <1>9, <2>1, <2>2, <3>1 DEF Ascending
    <3>2. CASE i > Len(ring)
      BY <1>9, <2>1, <2>2, <3>2 DEF Ascending
    <3>3. CASE i <= Len(ring) /\ j > Len(ring)
      BY <1>9, <2>1, <2>2, <3>3 DEF Precedes
    <3>4. QED  BY <1>9, <2>2, <3>1, <3>2, <3>3
  <2>3. QED  BY <2>2 DEF Ascending
<1>11. ring' = Bounded(all)  BY DEF Number, Frames
<1>12. all \in Seq(Int)
  BY <1>8, <1>9, MorePackets
<1> HIDE DEF all
<1>13. ring' \in Seq(Packets') /\ Len(ring') <= RingLimit  BY <1>9, <1>11, BoundedFacts
<1>14. RingAscends'  BY <1>10, <1>11, <1>12, BoundedAscends DEF RingAscends
<1>15. synNext' \in 0..Len(syn')  BY <1>1, <1>3, <1>4
<1>16. QED  BY <1>1, <1>4, <1>6, <1>7, <1>8, <1>13, <1>14, <1>15

-----------------------------------------------------------------------------
(* The initial state, and the steps that write no packet.                  *)

LEMMA InitInv == Init => IInv
<1> SUFFICES ASSUME Init PROVE IInv  OBVIOUS
<1>0. <<>> \in Seq(1..0) /\ <<>> \in Seq(0..MaxPackets - 1) /\ Len(<<>>) = 0
  OBVIOUS
<1>1. syn = <<>> /\ Len(syn) = 0 /\ Packets = 1..0  BY <1>0 DEF Init, Packets
<1>2. TypeOK
  BY <1>0, <1>1, NumbersAssumption, NamesAssumption
  DEF Init, TypeOK, Procs, Stages, Statuses
<1>3. /\ NumbersAreBounded /\ LocksAgree /\ StagesAgree /\ BatchesAgree
      /\ RingAscends /\ NewComesLast /\ RejoinersWait /\ OutAscends
  <2>1. NumbersAreBounded  BY <1>1 DEF Init, NumbersAreBounded
  <2>2. LocksAgree /\ StagesAgree
    BY NamesAssumption DEF Init, LocksAgree, StagesAgree, Procs, Bringing, Rejoining
  <2>3. BatchesAgree /\ RingAscends /\ OutAscends
    BY <1>0 DEF Init, BatchesAgree, RingAscends, OutAscends, Ascending, Bringing, Replaying
  <2>4. NewComesLast /\ RejoinersWait
    <3>1. \A x \in Procs : pc[x] = "idle"  BY DEF Init
    <3>2. \A p \in Peers : p \in Procs /\ status[p] = "loading" /\ dests = {}
      BY DEF Init, Procs
    <3>3. NewComesLast  BY <3>1 DEF NewComesLast, Bringing
    <3>4. RejoinersWait  BY <3>1, <3>2 DEF RejoinersWait
    <3>5. QED  BY <3>3, <3>4
  <2>5. QED  BY <2>1, <2>2, <2>3, <2>4
<1>4. QED  BY <1>2, <1>3 DEF IInv

\* Where a process goes, and that the others stay.
LEMMA PcStep ==
  ASSUME pc \in [Procs -> Stages], NEW x \in Procs, NEW to \in Stages, Goes(x, to)
  PROVE  /\ pc' \in [Procs -> Stages]
         /\ pc'[x] = to
         /\ \A y \in Procs \ {x} : pc'[y] = pc[y]
BY DEF Goes

LEMMA Names ==
  /\ Clock \in Procs /\ Clock \notin Peers /\ Peers \subseteq Procs
  /\ None \notin Procs
  /\ \A x \in Procs : x # Clock => x \in Peers
BY NamesAssumption DEF Procs

\* Only the session changes, to one that is not gated.
LEMMA StatusInv ==
  ASSUME IInv, NEW p \in Peers, NEW st \in Statuses \ {"held", "await"},
         status' = [status EXCEPT ![p] = st],
         pc[p] \in Bringing => st = "playing",
         pc[p] \notin Rejoining,
         UNCHANGED <<roomVars, lockVars, conn, from, pending, out, pc, batch, dests, allFrozen, drops>>
  PROVE  IInv'
<1>1. /\ status' \in [Peers -> Statuses] /\ status'[p] = st
      /\ \A q \in Peers \ {p} : status'[q] = status[q]
  BY DEF IInv, TypeOK
<1>2. TypeOK'
  BY <1>1 DEF IInv, TypeOK, roomVars, lockVars, Packets
<1>3. NumbersAreBounded' /\ LocksAgree' /\ BatchesAgree' /\ RingAscends' /\ NewComesLast' /\ OutAscends'
  BY DEF IInv, NumbersAreBounded, LocksAgree, BatchesAgree, RingAscends, NewComesLast,
         OutAscends, roomVars, lockVars
<1>4. StagesAgree'  BY <1>1 DEF IInv, StagesAgree
<1>5. RejoinersWait'
  BY <1>1 DEF IInv, RejoinersWait, Rejoining
<1>6. QED  BY <1>2, <1>3, <1>4, <1>5 DEF IInv

LEMMA StartPlayInv ==
  ASSUME IInv, NEW p \in Peers, StartPlay(p)
  PROVE  IInv'
<1>1. pc[p] \notin Rejoining  BY DEF IInv, StagesAgree, StartPlay
<1>2. QED  BY <1>1, StatusInv DEF StartPlay, Statuses

LEMMA LeaveGSInv ==
  ASSUME IInv, NEW p \in Peers, LeaveGS(p)
  PROVE  IInv'
<1>1. pc[p] \notin Rejoining /\ pc[p] \notin Bringing  BY DEF LeaveGS, Rejoining, Bringing
<1>2. QED  BY <1>1, StatusInv DEF LeaveGS, Statuses

\* op3 opens the gate after the replay.
LEMMA StableInv ==
  ASSUME IInv, NEW p \in Peers, Stable(p)
  PROVE  IInv'
<1> USE Names
<1>1. /\ pc' \in [Procs -> Stages] /\ pc'[p] = "idle"
      /\ \A y \in Procs \ {p} : pc'[y] = pc[y]
  BY PcStep DEF IInv, TypeOK, Stable, Stages
<1>2. status[p] = "await" /\ pc[p] = "stable"  BY DEF IInv, StagesAgree, Stable, Rejoining
<1>3. /\ status' \in [Peers -> Statuses] /\ status'[p] = "playing"
      /\ \A q \in Peers \ {p} : status'[q] = status[q]
  BY <1>2 DEF IInv, TypeOK, Stable, Statuses
<1>4. TypeOK'
  BY <1>1, <1>3 DEF IInv, TypeOK, Stable, roomVars, lockVars, Packets
<1>5. NumbersAreBounded' /\ RingAscends' /\ OutAscends'
  BY DEF IInv, NumbersAreBounded, RingAscends, OutAscends, Stable, roomVars
<1>6. LocksAgree'
  BY <1>1, <1>2 DEF IInv, LocksAgree, Stable, lockVars
<1>7. StagesAgree'
  BY <1>1, <1>2, <1>3 DEF IInv, StagesAgree, Stable, Bringing, Rejoining
<1>8. BatchesAgree'
  BY <1>1, <1>2 DEF IInv, BatchesAgree, Stable, Bringing, Replaying
<1>9. NewComesLast'
  BY <1>1, <1>2 DEF IInv, NewComesLast, Stable, Bringing
<1>10. RejoinersWait'
  BY <1>1, <1>2, <1>3 DEF IInv, RejoinersWait, Stable
<1>11. QED  BY <1>4, <1>5, <1>6, <1>7, <1>8, <1>9, <1>10 DEF IInv

\* An acknowledged ReLogin puts the session behind the gate.
LEMMA ReLoginInv ==
  ASSUME IInv, NEW p \in Peers, ReLogin(p)
  PROVE  IInv'
<1> USE Names
<1>1. /\ pc' \in [Procs -> Stages] /\ pc'[p] = "ask"
      /\ \A y \in Procs \ {p} : pc'[y] = pc[y]
  BY PcStep DEF IInv, TypeOK, ReLogin, Stages
<1>2. status[p] = "held" /\ pc[p] = "idle"
  <2>1. status[p] = "held"  BY DEF ReLogin
  <2>2. pc[p] \notin Bringing /\ pc[p] \notin Rejoining
    BY <2>1 DEF IInv, StagesAgree
  <2>3. QED  BY <2>1, <2>2 DEF IInv, TypeOK, Stages, Bringing, Rejoining
<1>3. /\ status' \in [Peers -> Statuses] /\ status'[p] = "await"
      /\ \A q \in Peers \ {p} : status'[q] = status[q]
  BY DEF IInv, TypeOK, ReLogin, Statuses
<1>4. pending' = pending \cup {p}  BY DEF ReLogin
<1>5. TypeOK'
  BY <1>1, <1>3, <1>4 DEF IInv, TypeOK, ReLogin, roomVars, lockVars, Packets
<1>6. NumbersAreBounded' /\ RingAscends' /\ OutAscends'
  BY DEF IInv, NumbersAreBounded, RingAscends, OutAscends, ReLogin, roomVars
<1>7. LocksAgree'
  BY <1>1, <1>2 DEF IInv, LocksAgree, ReLogin, lockVars
<1>8. StagesAgree'
  BY <1>1, <1>2, <1>3, <1>4 DEF IInv, StagesAgree, Bringing, Rejoining
<1>9. BatchesAgree'
  BY <1>1, <1>2 DEF IInv, BatchesAgree, ReLogin, Bringing, Replaying
<1>10. NewComesLast'
  BY <1>1, <1>2 DEF IInv, NewComesLast, ReLogin, Bringing
<1>11. RejoinersWait'
  BY <1>1, <1>2, <1>3, <1>4 DEF IInv, RejoinersWait, ReLogin
<1>12. QED  BY <1>5, <1>6, <1>7, <1>8, <1>9, <1>10, <1>11 DEF IInv

\* Asking the others and moving the counter leave the packets alone.
LEMMA RejoinStepInv ==
  ASSUME IInv, NEW p \in Peers, NEW to \in {"align", "idle"},
         pc[p] \in {"ask", "align"}, Goes(p, to),
         synNext' \in 0..Len(syn), allFrozen' \subseteq Peers,
         UNCHANGED <<syn, ring, lockVars, peerVars, out, batch, dests, drops>>
  PROVE  IInv'
<1> USE Names
<1>1. /\ pc' \in [Procs -> Stages] /\ pc'[p] = to
      /\ \A y \in Procs \ {p} : pc'[y] = pc[y]
  BY PcStep DEF IInv, TypeOK, Stages
<1>2. status[p] = "await" /\ p \in pending  BY DEF IInv, StagesAgree, Rejoining
<1>3. TypeOK'
  BY <1>1 DEF IInv, TypeOK, lockVars, peerVars, Packets
<1>4. NumbersAreBounded' /\ RingAscends' /\ OutAscends'
  BY DEF IInv, NumbersAreBounded, RingAscends, OutAscends, peerVars
<1>5. LocksAgree'
  BY <1>1 DEF IInv, LocksAgree, lockVars
<1>6. StagesAgree'
  BY <1>1, <1>2 DEF IInv, StagesAgree, peerVars, Bringing, Rejoining
<1>7. BatchesAgree'
  BY <1>1 DEF IInv, BatchesAgree, Bringing, Replaying
<1>8. NewComesLast'
  BY <1>1 DEF IInv, NewComesLast, Bringing
<1>9. RejoinersWait'
  BY <1>1 DEF IInv, RejoinersWait, peerVars
<1>10. QED  BY <1>3, <1>4, <1>5, <1>6, <1>7, <1>8, <1>9 DEF IInv

LEMMA AskPeersInv ==
  ASSUME IInv, NEW p \in Peers, AskPeers(p)
  PROVE  IInv'
<1>1. /\ pc[p] \in {"ask", "align"} /\ Goes(p, "align")
      /\ UNCHANGED <<syn, ring, lockVars, peerVars, out, batch, dests, drops>>
      /\ synNext' = synNext /\ allFrozen' \subseteq Peers
  BY DEF IInv, TypeOK, AskPeers, roomVars
<1>2. synNext' \in 0..Len(syn)  BY <1>1 DEF IInv, TypeOK
<1>3. QED  BY <1>1, <1>2, RejoinStepInv

LEMMA AlignSynInv ==
  ASSUME IInv, NEW p \in Peers, AlignSyn(p)
  PROVE  IInv'
<1>1. /\ pc[p] \in {"ask", "align"} /\ Goes(p, "idle")
      /\ UNCHANGED <<syn, ring, lockVars, peerVars, out, batch, dests, drops>>
      /\ allFrozen' \subseteq Peers
  BY DEF IInv, TypeOK, AlignSyn
<1>2. synNext' \in {synNext, Requested(p) + 1}  BY DEF AlignSyn
<1>3. synNext' = Requested(p) + 1 => Requested(p) > 0 \/ synNext' = synNext
  BY DEF AlignSyn
<1>4. from[p] \in Int /\ from[p] < Len(syn) /\ Len(syn) \in Nat /\ synNext \in 0..Len(syn)
  BY DEF IInv, TypeOK, NumbersAreBounded
<1>5. synNext' \in 0..Len(syn)  BY <1>2, <1>3, <1>4 DEF Requested
<1>6. QED  BY <1>1, <1>5, RejoinStepInv

-----------------------------------------------------------------------------
(* Copying the ring, and taking the wire.                                  *)

LEMMA CopyReplayInv ==
  ASSUME IInv, NEW p \in Peers, CopyReplay(p)
  PROVE  IInv'
<1> USE Names
<1>1. pc[p] = "idle" /\ mu = None /\ p \in pending /\ status[p] = "await"
  BY DEF CopyReplay
<1>2. CASE Replayable(Requested(p))
  <2>1. /\ mu' = p /\ batch' = [batch EXCEPT ![p] = ring] /\ pending' = pending
        /\ Goes(p, "replaywire")
    BY <1>2 DEF CopyReplay
  <2>2. /\ pc' \in [Procs -> Stages] /\ pc'[p] = "replaywire"
        /\ \A y \in Procs \ {p} : pc'[y] = pc[y]
    BY <2>1, PcStep DEF IInv, TypeOK, Stages
  <2>3. /\ batch' \in [Procs -> Seq(Packets)] /\ batch'[p] = ring
        /\ \A y \in Procs \ {p} : batch'[y] = batch[y]
    BY <2>1 DEF IInv, TypeOK
  <2>4. TypeOK'
    BY <2>1, <2>2, <2>3 DEF IInv, TypeOK, CopyReplay, roomVars, Packets
  <2>5. NumbersAreBounded' /\ RingAscends' /\ OutAscends'
    BY DEF IInv, NumbersAreBounded, RingAscends, OutAscends, CopyReplay, roomVars
  <2>6. LocksAgree'
    BY <1>1, <2>1, <2>2 DEF IInv, LocksAgree, CopyReplay
  <2>7. StagesAgree'
    BY <1>1, <2>1, <2>2 DEF IInv, StagesAgree, CopyReplay, Bringing, Rejoining
  <2>8. BatchesAgree'
    <3>1. ring # <<>> /\ Ascending(ring)  BY <1>2 DEF IInv, RingAscends, Replayable
    <3>2. QED  BY <1>1, <2>2, <2>3, <3>1 DEF IInv, BatchesAgree, Bringing, Replaying
  <2>9. NewComesLast'
    <3>1. \A x \in Procs : pc[x] # "wire"  BY <1>1 DEF IInv, LocksAgree
    <3>2. \A x \in Procs : pc'[x] \in Bringing =>
            x # p /\ pc'[x] = pc[x] /\ batch'[x] = batch[x] /\ pc'[x] # "wire"
      BY <1>1, <2>2, <2>3, <3>1 DEF Bringing
    <3>3. \A x \in Procs : pc'[x] \in Bringing => \A q \in Peers : Precedes(out'[q], batch'[x])
      BY <3>2 DEF IInv, NewComesLast, CopyReplay
    <3>4. QED  BY <3>2, <3>3 DEF NewComesLast, Bringing
  <2>10. RejoinersWait'
    BY <1>1, <2>1, <2>2, <2>3 DEF IInv, RejoinersWait, CopyReplay
  <2>11. QED  BY <2>4, <2>5, <2>6, <2>7, <2>8, <2>9, <2>10 DEF IInv
<1>3. CASE ~Replayable(Requested(p))
  <2>1. /\ mu' = mu /\ batch' = batch /\ pending' = pending \ {p} /\ Goes(p, "stable")
    BY <1>3 DEF CopyReplay
  <2>2. /\ pc' \in [Procs -> Stages] /\ pc'[p] = "stable"
        /\ \A y \in Procs \ {p} : pc'[y] = pc[y]
    BY <2>1, PcStep DEF IInv, TypeOK, Stages
  <2>3. TypeOK'
    BY <2>1, <2>2 DEF IInv, TypeOK, CopyReplay, roomVars, Packets
  <2>4. NumbersAreBounded' /\ RingAscends' /\ OutAscends'
    BY DEF IInv, NumbersAreBounded, RingAscends, OutAscends, CopyReplay, roomVars
  <2>5. LocksAgree'
    BY <1>1, <2>1, <2>2 DEF IInv, LocksAgree, CopyReplay
  <2>6. StagesAgree'
    BY <1>1, <2>1, <2>2 DEF IInv, StagesAgree, CopyReplay, Bringing, Rejoining
  <2>7. BatchesAgree'
    BY <1>1, <2>1, <2>2 DEF IInv, BatchesAgree, Bringing, Replaying
  <2>8. NewComesLast'
    BY <1>1, <2>1, <2>2 DEF IInv, NewComesLast, CopyReplay, Bringing
  <2>9. RejoinersWait'
    BY <1>1, <2>1, <2>2 DEF IInv, RejoinersWait, CopyReplay
  <2>10. QED  BY <2>3, <2>4, <2>5, <2>6, <2>7, <2>8, <2>9 DEF IInv
<1>4. QED  BY <1>2, <1>3

LEMMA TakeWireInv ==
  ASSUME IInv, NEW x \in Procs, TakeWire(x)
  PROVE  IInv'
<1> USE Names
<1>1. pc[x] = "wire" /\ wire = None /\ wire' = x /\ mu' = None  BY DEF TakeWire
<1>2. /\ pc' \in [Procs -> Stages] /\ pc'[x] = "write"
      /\ \A y \in Procs \ {x} : pc'[y] = pc[y]
  BY PcStep DEF IInv, TypeOK, TakeWire, Stages
<1>3. mu = x  BY <1>1 DEF IInv, LocksAgree
<1>4. TypeOK'
  BY <1>1, <1>2 DEF IInv, TypeOK, TakeWire, roomVars, peerVars, Packets
<1>5. NumbersAreBounded' /\ RingAscends' /\ OutAscends'
  BY DEF IInv, NumbersAreBounded, RingAscends, OutAscends, TakeWire, roomVars, peerVars
<1>6. LocksAgree'
  BY <1>1, <1>2, <1>3 DEF IInv, LocksAgree
<1>7. StagesAgree'
  BY <1>1, <1>2 DEF IInv, StagesAgree, TakeWire, peerVars, Bringing, Rejoining
<1>8. BatchesAgree'
  BY <1>1, <1>2 DEF IInv, BatchesAgree, TakeWire, Bringing, Replaying
<1>9. NewComesLast'
  <2>1. \A y \in Procs : pc'[y] # "wire"  BY <1>1, <1>2, <1>3 DEF IInv, LocksAgree
  <2>2. QED  BY <1>1, <1>2, <2>1 DEF IInv, NewComesLast, TakeWire, Bringing
<1>10. RejoinersWait'
  BY <1>1, <1>2 DEF IInv, RejoinersWait, TakeWire, peerVars
<1>11. QED  BY <1>4, <1>5, <1>6, <1>7, <1>8, <1>9, <1>10 DEF IInv

LEMMA TakeReplayWireInv ==
  ASSUME IInv, NEW p \in Peers, TakeReplayWire(p)
  PROVE  IInv'
<1> USE Names
<1>1. pc[p] = "replaywire" /\ wire = None /\ wire' = p /\ mu' = None  BY DEF TakeReplayWire
<1>2. /\ pc' \in [Procs -> Stages] /\ pc'[p] = "replay"
      /\ \A y \in Procs \ {p} : pc'[y] = pc[y]
  BY PcStep DEF IInv, TypeOK, TakeReplayWire, Stages
<1>3. mu = p /\ status[p] = "await" /\ p \in pending
  BY <1>1 DEF IInv, LocksAgree, StagesAgree, Rejoining
<1>4. TypeOK'
  BY <1>1, <1>2 DEF IInv, TypeOK, TakeReplayWire, roomVars, peerVars, Packets
<1>5. NumbersAreBounded' /\ RingAscends' /\ OutAscends'
  BY DEF IInv, NumbersAreBounded, RingAscends, OutAscends, TakeReplayWire, roomVars, peerVars
<1>6. LocksAgree'
  BY <1>1, <1>2, <1>3 DEF IInv, LocksAgree
<1>7. StagesAgree'
  BY <1>1, <1>2, <1>3 DEF IInv, StagesAgree, TakeReplayWire, peerVars, Bringing, Rejoining
<1>8. BatchesAgree'
  BY <1>1, <1>2 DEF IInv, BatchesAgree, TakeReplayWire, Bringing, Replaying
<1>9. NewComesLast'
  <2>1. \A y \in Procs : pc'[y] # "wire"  BY <1>1, <1>2, <1>3 DEF IInv, LocksAgree
  <2>2. QED  BY <1>1, <1>2, <2>1 DEF IInv, NewComesLast, TakeReplayWire, Bringing
<1>10. RejoinersWait'
  <2>1. out[p] = <<>>  BY <1>1, <1>3 DEF IInv, RejoinersWait
  <2>2. Precedes(out[p], batch[p])  BY <2>1 DEF Precedes
  <2>3. QED  BY <1>1, <1>2, <2>2 DEF IInv, RejoinersWait, TakeReplayWire, peerVars
<1>11. QED  BY <1>4, <1>5, <1>6, <1>7, <1>8, <1>9, <1>10 DEF IInv

\* A lost connection takes its packets with it; the next one is new to dests.
LEMMA DropInv ==
  ASSUME IInv, NEW p \in Peers, Drop(p)
  PROVE  IInv'
<1> USE Names
<1>1. pc[p] = "idle" /\ drops < MaxDrops /\ drops' = drops + 1  BY DEF Drop
<1>2. /\ status' \in [Peers -> Statuses] /\ status'[p] = "held"
      /\ \A q \in Peers \ {p} : status'[q] = status[q]
  BY DEF IInv, TypeOK, Drop, Statuses
<1>3. /\ conn' \in [Peers -> 0..MaxDrops] /\ conn'[p] = conn[p] + 1
      /\ \A q \in Peers \ {p} : conn'[q] = conn[q]
      /\ \A q \in Peers : conn'[q] <= drops' /\ conn[q] \in 0..MaxDrops
      /\ drops' \in 0..MaxDrops
  <2>1. /\ conn \in [Peers -> 0..MaxDrops] /\ drops \in 0..MaxDrops /\ MaxDrops \in Nat
        /\ \A q \in Peers : conn[q] <= drops /\ conn[q] \in 0..MaxDrops
    BY NumbersAssumption DEF IInv, TypeOK, NumbersAreBounded
  <2>2. conn[p] + 1 \in 0..MaxDrops /\ conn' = [conn EXCEPT ![p] = conn[p] + 1]
    BY <1>1, <2>1 DEF Drop
  <2>3. /\ conn' \in [Peers -> 0..MaxDrops] /\ conn'[p] = conn[p] + 1
        /\ \A q \in Peers \ {p} : conn'[q] = conn[q]
    BY <2>1, <2>2
  <2>4. drops' \in 0..MaxDrops  BY <1>1, <2>1
  <2>5. \A q \in Peers : conn'[q] <= drops'  BY <1>1, <2>1, <2>3
  <2>6. QED  BY <2>1, <2>3, <2>4, <2>5
<1>4. PICK r \in {from[p]} \cup {syn[k] : k \in Range(out[p])} : from' = [from EXCEPT ![p] = r]
  BY DEF Drop
<1>5. r \in -1..MaxPackets - 1 /\ r < Len(syn)
  <2>1. CASE r = from[p]
    BY <2>1 DEF IInv, TypeOK, NumbersAreBounded
  <2>2. ASSUME NEW k \in Range(out[p]), r = syn[k]  PROVE r \in -1..MaxPackets - 1 /\ r < Len(syn)
    <3>1. k \in 1..Len(syn)
      <4>1. out[p] \in Seq(1..Len(syn))  BY DEF IInv, TypeOK, Packets
      <4>2. PICK i \in DOMAIN out[p] : k = out[p][i]  BY <2>2 DEF Range
      <4>3. QED  BY <4>1, <4>2
    <3>2. syn[k] \in 0..MaxPackets - 1  BY <3>1, ElementOfSeq DEF IInv, TypeOK
    <3>3. syn[k] < Len(syn)  BY <3>1 DEF IInv, NumbersAreBounded
    <3>4. QED  BY <2>2, <3>2, <3>3, NumbersAssumption
  <2>3. QED  BY <1>4, <2>1, <2>2
<1>6. /\ from' \in [Peers -> -1..MaxPackets - 1] /\ from'[p] = r
      /\ \A q \in Peers \ {p} : from'[q] = from[q]
  BY <1>4, <1>5 DEF IInv, TypeOK
<1>7. /\ out' \in [Peers -> Seq(Packets)] /\ out'[p] = <<>>
      /\ \A q \in Peers \ {p} : out'[q] = out[q]
  BY DEF IInv, TypeOK, Drop
<1>8. TypeOK'
  BY <1>2, <1>3, <1>6, <1>7 DEF IInv, TypeOK, Drop, roomVars, lockVars, Packets
<1>9. NumbersAreBounded' /\ RingAscends'
  BY <1>3, <1>5, <1>6 DEF IInv, NumbersAreBounded, RingAscends, Drop, roomVars
<1>10. LocksAgree' /\ BatchesAgree'
  BY DEF IInv, LocksAgree, BatchesAgree, Drop, lockVars
<1>11. StagesAgree'
  BY <1>1, <1>2 DEF IInv, StagesAgree, Drop, Bringing, Rejoining
<1>12. \A t \in Seq(Int) : Precedes(<<>>, t)  BY DEF Precedes
<1>13. NewComesLast'
  <2>1. \A q \in Peers, x \in Procs : Precedes(out[q], batch[x]) => Precedes(out'[q], batch'[x])
    BY <1>7 DEF Drop, Precedes
  <2>2. QED  BY <2>1 DEF IInv, NewComesLast, Drop
<1>14. RejoinersWait'
  <2>1. ASSUME NEW q \in Peers
        PROVE  /\ status'[q] = "held" => out'[q] = <<>>
               /\ status'[q] = "await" /\ q \in pending' /\ pc'[q] # "replay" => out'[q] = <<>>
               /\ pc'[q] = "replay" => Precedes(out'[q], batch'[q])
    BY <1>1, <1>2, <1>7 DEF IInv, RejoinersWait, Drop
  <2>2. ASSUME NEW q \in Peers
        PROVE  /\ status'[q] \in {"held", "await"} => <<q, conn'[q]>> \notin dests'
               /\ \A c \in 0..MaxDrops : <<q, c>> \in dests' => c <= conn'[q]
    <3>1. CASE q = p
      <4>1. \A c \in 0..MaxDrops : <<p, c>> \in dests => c <= conn[p]
        BY DEF IInv, RejoinersWait
      <4>2. dests' = dests  BY DEF Drop
      <4>3. QED  BY <1>3, <3>1, <4>1, <4>2, NumbersAssumption
    <3>2. CASE q # p
      BY <1>2, <1>3, <3>2 DEF IInv, RejoinersWait, Drop
    <3>3. QED  BY <3>1, <3>2
  <2>3. QED  BY <2>1, <2>2 DEF RejoinersWait
<1>15. OutAscends'
  BY <1>7 DEF IInv, OutAscends, Ascending
<1>16. QED  BY <1>8, <1>9, <1>10, <1>11, <1>13, <1>14, <1>15 DEF IInv

-----------------------------------------------------------------------------
(* Numbering.                                                              *)

\* What all numbering has in common: the room's part, and that the packets
\* written and waiting are packets still.
LEMMA NumberedRoom ==
  ASSUME IInv, NEW n \in Nat, n > 0, Number(n), UNCHANGED <<peerVars, out, drops>>
  PROVE  /\ NumbersAreBounded' /\ RingAscends' /\ OutAscends'
         /\ out' \in [Peers -> Seq(Packets')]
         /\ batch \in [Procs -> Seq(Packets')]
         /\ syn' \in Seq(0..MaxPackets - 1) /\ Len(syn') <= MaxPackets
         /\ synNext' \in 0..Len(syn')
         /\ ring' \in Seq(Packets') /\ Len(ring') <= RingLimit
<1>1. TypeOK /\ NumbersAreBounded /\ RingAscends  BY DEF IInv
<1>2. /\ syn' \in Seq(0..MaxPackets - 1) /\ Len(syn') <= MaxPackets
      /\ Len(syn) \in Nat /\ Len(syn') = Len(syn) + n
      /\ synNext' \in 0..Len(syn') /\ Packets \subseteq Packets'
      /\ ring' \in Seq(Packets') /\ Len(ring') <= RingLimit
      /\ RingAscends'
      /\ \A k \in 1..Len(syn') : syn'[k] < Len(syn')
  BY <1>1, NumberFacts
<1>3. NumbersAreBounded'
  <2>1. \A p \in Peers : from[p] < Len(syn) /\ from[p] \in Int  BY <1>1 DEF TypeOK, NumbersAreBounded
  <2>2. \A p \in Peers : from'[p] < Len(syn')  BY <1>2, <2>1 DEF peerVars
  <2>3. \A p \in Peers : conn'[p] <= drops'  BY <1>1 DEF NumbersAreBounded, peerVars
  <2>4. QED  BY <1>2, <2>2, <2>3 DEF NumbersAreBounded
<1>4. OutAscends'  BY DEF IInv, OutAscends
<1>5. \A s \in Seq(Packets) : s \in Seq(Packets')  BY <1>2, MorePackets
<1>6. out' \in [Peers -> Seq(Packets')] /\ batch \in [Procs -> Seq(Packets')]
  BY <1>1, <1>5 DEF TypeOK
<1>7. QED  BY <1>2, <1>3, <1>4, <1>6

\* Packets that nobody is there to get are only counted.
LEMMA CountedInv ==
  ASSUME IInv, NEW n \in Nat, n > 0, Number(n),
         UNCHANGED <<lockVars, peerVars, pc, out, batch, dests, allFrozen, drops>>
  PROVE  IInv'
<1>1. TypeOK'
  BY NumberedRoom DEF IInv, TypeOK, lockVars, peerVars
<1>2. NumbersAreBounded' /\ RingAscends' /\ OutAscends'  BY NumberedRoom
<1>3. LocksAgree' /\ StagesAgree' /\ BatchesAgree' /\ NewComesLast' /\ RejoinersWait'
  BY DEF IInv, LocksAgree, StagesAgree, BatchesAgree, NewComesLast, RejoinersWait,
         lockVars, peerVars
<1>4. QED  BY <1>1, <1>2, <1>3 DEF IInv

\* Otherwise x has them in hand and wants the wire.
LEMMA NumberedInv ==
  ASSUME IInv, NEW n \in Nat, n > 0, Number(n), NEW x \in Procs,
         mu = None, mu' = x, pc[x] = "idle", Goes(x, "wire"),
         batch' = [batch EXCEPT ![x] = Frames(n)],
         dests' \in {dests, LiveConns},
         x \in Peers => status[x] = "playing",
         UNCHANGED <<wire, peerVars, out, allFrozen, drops>>
  PROVE  IInv'
<1> USE Names
<1>1. /\ pc' \in [Procs -> Stages] /\ pc'[x] = "wire"
      /\ \A y \in Procs \ {x} : pc'[y] = pc[y]
  BY PcStep DEF IInv, TypeOK, Stages
<1>2. /\ Frames(n) \in Seq(Packets') /\ Frames(n) # <<>> /\ Ascending(Frames(n))
      /\ \A s \in Seq(Packets) : Precedes(s, Frames(n))
  <2>1. Len(syn') = Len(syn) + n  BY NumberFacts DEF IInv
  <2>2. QED  BY <2>1, FramesFacts DEF IInv, Packets
<1>3. /\ batch' \in [Procs -> Seq(Packets')] /\ batch'[x] = Frames(n)
      /\ \A y \in Procs \ {x} : batch'[y] = batch[y]
  BY <1>2, NumberedRoom
<1>4. dests' \subseteq Peers \X (0..MaxDrops)
  BY DEF IInv, TypeOK, LiveConns, Live
<1>5. TypeOK'
  BY <1>1, <1>3, <1>4, NumberedRoom DEF IInv, TypeOK, peerVars
<1>6. NumbersAreBounded' /\ RingAscends' /\ OutAscends'  BY NumberedRoom
<1>7. LocksAgree'
  BY <1>1 DEF IInv, LocksAgree
<1>8. StagesAgree'
  BY <1>1 DEF IInv, StagesAgree, peerVars, Bringing, Rejoining
<1>9. BatchesAgree'
  BY <1>1, <1>2, <1>3 DEF IInv, BatchesAgree, Bringing, Replaying
<1>10. NewComesLast'
  <2>1. \A y \in Procs : pc[y] # "wire"  BY DEF IInv, LocksAgree
  <2>2. \A p \in Peers : out'[p] = out[p] /\ Precedes(out[p], Frames(n))
    BY <1>2 DEF IInv, TypeOK
  <2>3. \A y \in Procs : Precedes(batch[y], Frames(n))  BY <1>2 DEF IInv, TypeOK
  <2>4. ASSUME NEW y \in Procs, y # x
        PROVE  /\ pc'[y] \in Bringing => \A p \in Peers : Precedes(out'[p], batch'[y])
               /\ pc'[y] # "wire"
    BY <1>1, <1>3, <2>1, <2>2, <2>4 DEF IInv, NewComesLast
  <2>5. \A y \in Procs : pc'[y] \in {"write", "replay"} => batch'[y] = batch[y]
    BY <1>1, <1>3
  <2>6. QED  BY <1>3, <2>2, <2>3, <2>4, <2>5 DEF NewComesLast
<1>11. RejoinersWait'
  <2>1. ASSUME NEW q \in Peers
        PROVE  /\ status'[q] = "held" => out'[q] = <<>>
               /\ status'[q] = "await" /\ q \in pending' /\ pc'[q] # "replay" => out'[q] = <<>>
               /\ pc'[q] = "replay" => Precedes(out'[q], batch'[q])
    BY <1>1, <1>3 DEF IInv, RejoinersWait, peerVars
  <2>2. ASSUME NEW q \in Peers
        PROVE  /\ status'[q] \in {"held", "await"} => <<q, conn'[q]>> \notin dests'
               /\ \A c \in 0..MaxDrops : <<q, c>> \in dests' => c <= conn'[q]
    <3>1. conn[q] \in Int  BY DEF IInv, TypeOK
    <3>2. CASE dests' = dests
      BY <3>2 DEF IInv, RejoinersWait, peerVars
    <3>3. CASE dests' = LiveConns
      BY <3>1, <3>3 DEF LiveConns, Live, peerVars
    <3>4. QED  BY <3>2, <3>3
  <2>3. QED  BY <2>1, <2>2 DEF RejoinersWait
<1>12. QED  BY <1>5, <1>6, <1>7, <1>8, <1>9, <1>10, <1>11 DEF IInv

LEMMA NumberFramesInv == ASSUME IInv, NumberFrames PROVE IInv'
<1>1. PICK n \in 1..Catchup :
        /\ Number(n)
        /\ IF LiveConns = {}
             THEN UNCHANGED <<mu, pc, batch, dests>>
             ELSE /\ mu' = Clock
                  /\ batch' = [batch EXCEPT ![Clock] = Frames(n)]
                  /\ dests' = LiveConns
                  /\ Goes(Clock, "wire")
  BY DEF NumberFrames, Frames
<1>2. n \in Nat /\ n > 0  BY NumbersAssumption
<1>3. CASE LiveConns = {}
  BY <1>1, <1>2, <1>3, CountedInv DEF NumberFrames, lockVars
<1>4. CASE LiveConns # {}
  <2>1. Clock \in Procs /\ pc[Clock] = "idle" /\ mu = None /\ ~(Clock \in Peers)
    BY Names DEF NumberFrames
  <2>2. QED  BY <1>1, <1>2, <1>4, <2>1, NumberedInv DEF NumberFrames
<1>5. QED  BY <1>3, <1>4

LEMMA StampUnitActionInv ==
  ASSUME IInv, NEW p \in Peers, StampUnitAction(p)
  PROVE  IInv'
<1>1. Frames(1) = <<Len(syn) + 1>>  BY DEF Frames
<1>2. p \in Procs /\ dests' \in {dests, LiveConns}  BY Names DEF StampUnitAction
<1>3. /\ Number(1) /\ mu = None /\ mu' = p /\ pc[p] = "idle" /\ Goes(p, "wire")
      /\ batch' = [batch EXCEPT ![p] = Frames(1)]
      /\ status[p] = "playing"
      /\ UNCHANGED <<wire, peerVars, out, allFrozen, drops>>
  BY <1>1 DEF StampUnitAction
<1>4. 1 \in Nat /\ 1 > 0  OBVIOUS
<1>5. QED  BY <1>2, <1>3, <1>4, NumberedInv

-----------------------------------------------------------------------------
(* Writing.                                                                *)

\* x has the wire and writes its first packet to some connections, none of a
\* gated rejoiner but its own; what it has left, if anything, it goes on with.
LEMMA WroteInv ==
  ASSUME IInv, NEW x \in Procs, pc[x] \in {"write", "replay"},
         NEW rest \in {Tail(batch[x]), <<>>}, batch' = [batch EXCEPT ![x] = rest],
         out' \in [Peers -> Seq(Packets)],
         \A q \in Peers : out'[q] # out[q] =>
           /\ out'[q] = Append(out[q], Head(batch[x]))
           /\ pc[x] = "replay" => q = x
           /\ pc[x] = "write" => status[q] \notin {"held", "await"},
         \/ rest # <<>> /\ UNCHANGED <<pc, wire, pending, dests>>
         \/ /\ rest = <<>> /\ wire' = None /\ dests' \in {dests, {}}
            /\ pc[x] = "write" => Goes(x, "idle") /\ pending' = pending
            /\ pc[x] = "replay" => Goes(x, "stable") /\ pending' = pending \ {x},
         UNCHANGED <<roomVars, mu, status, conn, from, allFrozen, drops>>
  PROVE  IInv'
<1> USE Names
<1> DEFINE b == batch[x]
           k == Head(b)
<1>1. b \in Seq(Packets) /\ b \in Seq(Int) /\ b # <<>> /\ Ascending(b) /\ wire = x
  <2>1. b \in Seq(Packets)  BY DEF IInv, TypeOK
  <2>2. b \in Seq(Int)  BY <2>1, MorePackets DEF Packets
  <2>3. QED  BY <2>1, <2>2 DEF IInv, BatchesAgree, LocksAgree, Bringing, Replaying
<1>2. k = b[1] /\ k \in Packets /\ k \in Int /\ Tail(b) \in Seq(Packets) /\ 1 \in 1..Len(b)
  BY <1>1, TailFacts DEF Packets
<1>3. /\ rest \in Seq(Packets) /\ rest \in Seq(Int) /\ Ascending(rest)
      /\ \A i \in 1..Len(rest) : k < rest[i]
  <2>1. CASE rest = <<>>
    BY <2>1 DEF Ascending
  <2>2. CASE rest = Tail(b)
    BY <1>1, <1>2, <2>2, TailAscends, MorePackets DEF Packets
  <2>3. QED  BY <2>1, <2>2
<1>4. /\ batch' \in [Procs -> Seq(Packets)] /\ batch'[x] = rest
      /\ \A y \in Procs \ {x} : batch'[y] = batch[y]
  BY <1>3 DEF IInv, TypeOK
<1>5. ASSUME NEW t \in Seq(Int), Precedes(t, b)
      PROVE  Precedes(t, rest) /\ \A i \in 1..Len(t) : t[i] < k
  <2>1. Precedes(t, <<>>)  BY DEF Precedes
  <2>2. Precedes(t, Tail(b)) /\ \A i \in 1..Len(t) : t[i] < b[1]
    BY <1>1, <1>5, TailPrecedes
  <2>3. rest = Tail(b) \/ rest = <<>>  OBVIOUS
  <2>4. QED  BY <1>2, <2>1, <2>2, <2>3
<1>6. ASSUME NEW t \in Seq(Int), Precedes(b, t)
      PROVE  Precedes(rest, t) /\ \A i \in 1..Len(t) : k < t[i]
  <2>1. Precedes(<<>>, t)  BY DEF Precedes
  <2>2. Precedes(Tail(b), t) /\ \A i \in 1..Len(t) : b[1] < t[i]
    BY <1>1, <1>6, TailPrecedes
  <2>3. rest = Tail(b) \/ rest = <<>>  OBVIOUS
  <2>4. QED  BY <1>2, <2>1, <2>2, <2>3
<1> HIDE DEF b, k
<1>7. /\ pc' \in [Procs -> Stages]
      /\ \A y \in Procs \ {x} : pc'[y] = pc[y]
      /\ rest # <<>> => pc'[x] = pc[x]
      /\ rest = <<>> => pc'[x] = IF pc[x] = "write" THEN "idle" ELSE "stable"
  <2>1. CASE rest # <<>>
    BY <2>1 DEF IInv, TypeOK
  <2>2. CASE rest = <<>>
    <3>1. pc \in [Procs -> Stages] /\ "idle" \in Stages /\ "stable" \in Stages
      BY DEF IInv, TypeOK, Stages
    <3>2. CASE pc[x] = "write"
      BY <2>2, <3>1, <3>2, PcStep
    <3>3. CASE pc[x] = "replay"
      BY <2>2, <3>1, <3>3, PcStep
    <3>4. QED  BY <3>2, <3>3
  <2>3. QED  BY <2>1, <2>2
<1>8. /\ \A q \in Peers : out[q] \in Seq(Packets) /\ out[q] \in Seq(Int)
      /\ \A y \in Procs : batch[y] \in Seq(Packets) /\ batch[y] \in Seq(Int)
  <2>1. \A t \in Seq(Packets) : t \in Seq(Int)
    <3>1. Packets \subseteq Int  BY DEF Packets
    <3>2. QED  BY <3>1, MorePackets
  <2>2. QED  BY <2>1 DEF IInv, TypeOK
<1>9. \A y \in Procs : y # x => pc[y] \notin {"write", "replay"}
  BY <1>1 DEF IInv, LocksAgree
<1>10. \A q \in Peers : out'[q] # out[q] =>
         /\ out'[q] = Append(out[q], k)
         /\ Precedes(out[q], b)
         /\ \A i \in 1..Len(out[q]) : out[q][i] < k
  <2>1. ASSUME NEW q \in Peers, out'[q] # out[q]  PROVE Precedes(out[q], b)
    BY <2>1 DEF IInv, NewComesLast, RejoinersWait, Bringing, b
  <2>2. QED  BY <1>5, <1>8, <2>1 DEF b, k
<1>11. OutAscends'
  <2>1. ASSUME NEW q \in Peers  PROVE Ascending(out'[q])
    <3>1. Ascending(out[q])  BY DEF IInv, OutAscends
    <3>2. CASE out'[q] = out[q]
      BY <3>1, <3>2
    <3>3. CASE out'[q] # out[q]
      <4>1. out'[q] = Append(out[q], k) /\ (\A i \in 1..Len(out[q]) : out[q][i] < k)
        BY <1>10, <3>3
      <4>2. out[q] \in Seq(Int)  BY <1>8
      <4>3. Ascending(Append(out[q], k))  BY <1>2, <3>1, <4>1, <4>2, AppendAscends
      <4>4. QED  BY <4>1, <4>3
    <3>4. QED  BY <3>2, <3>3
  <2>2. QED  BY <2>1 DEF OutAscends
<1>12. ASSUME NEW q \in Peers, NEW t \in Seq(Int),
              Precedes(out[q], t), \A i \in 1..Len(t) : k < t[i]
       PROVE  Precedes(out'[q], t)
  <2>1. CASE out'[q] = out[q]
    BY <1>12, <2>1
  <2>2. CASE out'[q] # out[q]
    <3>1. out'[q] = Append(out[q], k) /\ out[q] \in Seq(Int)  BY <1>8, <1>10, <2>2
    <3>2. Precedes(Append(out[q], k), t)  BY <1>2, <1>12, <3>1, AppendPrecedes
    <3>3. QED  BY <3>1, <3>2
  <2>3. QED  BY <2>1, <2>2
<1>13. TypeOK'
  BY <1>1, <1>4, <1>7 DEF IInv, TypeOK, roomVars, Packets
<1>14. NumbersAreBounded' /\ RingAscends'
  BY DEF IInv, NumbersAreBounded, RingAscends, roomVars
<1>15. LocksAgree'
  <2>1. CASE rest # <<>>
    BY <2>1 DEF IInv, LocksAgree
  <2>2. CASE rest = <<>>
    BY <1>1, <1>7, <1>9, <2>2 DEF IInv, LocksAgree
  <2>3. QED  BY <2>1, <2>2
<1>16. StagesAgree'
  <2>1. /\ \A p \in Peers : pc'[p] \in Bringing => status[p] = "playing"
        /\ pc'[Clock] \in {"idle", "wire", "write"}
        /\ \A p \in Peers : pc'[p] \in Rejoining => status[p] = "await"
    BY <1>7 DEF IInv, StagesAgree, Bringing, Rejoining
  <2>2. \A p \in Peers : pc'[p] \in Rejoining \ {"stable"} => p \in pending'
    BY <1>7 DEF IInv, StagesAgree, Rejoining
  <2>3. QED  BY <2>1, <2>2 DEF StagesAgree
<1>17. BatchesAgree'
  BY <1>1, <1>3, <1>4, <1>7 DEF IInv, BatchesAgree, Bringing, Replaying
<1>18. NewComesLast'
  <2>1. ASSUME NEW y \in Procs, pc'[y] = "wire"
        PROVE  /\ \A q \in Peers : Precedes(out'[q], batch'[y])
               /\ \A z \in Procs : pc'[z] \in {"write", "replay"} => Precedes(batch'[z], batch'[y])
    <3>1. y # x /\ pc[y] = "wire" /\ batch'[y] = batch[y]  BY <1>4, <1>7, <2>1
    <3>2. Precedes(b, batch[y]) /\ \A q \in Peers : Precedes(out[q], batch[y])
      BY <3>1 DEF IInv, NewComesLast, Bringing, b
    <3>3. \A q \in Peers : Precedes(out'[q], batch[y])
      BY <1>6, <1>8, <1>12, <3>2
    <3>4. \A z \in Procs : pc'[z] \in {"write", "replay"} => z = x
      BY <1>7, <1>9
    <3>5. QED  BY <1>4, <1>6, <1>8, <3>1, <3>2, <3>3, <3>4
  <2>2. ASSUME NEW y \in Procs, pc'[y] = "write"
        PROVE  \A q \in Peers : Precedes(out'[q], batch'[y])
    <3>1. y = x /\ pc[x] = "write"  BY <1>7, <1>9, <2>2
    <3>2. \A q \in Peers : Precedes(out[q], b)
      BY <3>1 DEF IInv, NewComesLast, Bringing, b
    <3>3. \A q \in Peers : Precedes(out'[q], rest)
      BY <1>3, <1>5, <1>8, <1>12, <3>2
    <3>4. QED  BY <1>4, <3>1, <3>3
  <2>3. QED  BY <2>1, <2>2 DEF NewComesLast, Bringing
<1>19. RejoinersWait'
  <2>1. ASSUME NEW q \in Peers
        PROVE  /\ status[q] = "held" => out'[q] = <<>>
               /\ status[q] = "await" /\ q \in pending' /\ pc'[q] # "replay" => out'[q] = <<>>
    <3>1. CASE out'[q] = out[q]
      <4>1. q \in pending' => q \in pending  OBVIOUS
      <4>2. q \in pending' /\ pc'[q] # "replay" => pc[q] # "replay"
        BY <1>7
      <4>3. QED  BY <3>1, <4>1, <4>2 DEF IInv, RejoinersWait
    <3>2. CASE out'[q] # out[q] /\ pc[x] = "replay"
      <4>1. q = x /\ status[q] = "await"  BY <3>2 DEF IInv, StagesAgree, Rejoining
      <4>2. q \in pending' => pc'[q] = "replay"  BY <1>7, <3>2, <4>1
      <4>3. QED  BY <4>1, <4>2
    <3>3. CASE out'[q] # out[q] /\ pc[x] = "write"
      BY <3>3
    <3>4. QED  BY <3>1, <3>2, <3>3
  <2>2. ASSUME NEW q \in Peers, pc'[q] = "replay"  PROVE Precedes(out'[q], batch'[q])
    <3>1. q = x /\ pc[x] = "replay"  BY <1>7, <1>9, <2>2
    <3>2. Precedes(out[q], b)  BY <3>1 DEF IInv, RejoinersWait, b
    <3>3. Precedes(out'[q], rest)  BY <1>3, <1>5, <1>8, <1>12, <3>2
    <3>4. QED  BY <1>4, <3>1, <3>3
  <2>3. ASSUME NEW q \in Peers
        PROVE  /\ status[q] \in {"held", "await"} => <<q, conn[q]>> \notin dests'
               /\ \A c \in 0..MaxDrops : <<q, c>> \in dests' => c <= conn[q]
    BY DEF IInv, RejoinersWait
  <2>4. QED  BY <2>1, <2>2, <2>3 DEF RejoinersWait
<1>20. QED  BY <1>11, <1>13, <1>14, <1>15, <1>16, <1>17, <1>18, <1>19 DEF IInv

\* The packets that were delivered, and to whom.
LEMMA DeliverFacts ==
  ASSUME IInv, NEW k \in Packets, NEW D, Deliver(k, D)
  PROVE  /\ out' \in [Peers -> Seq(Packets)]
         /\ \A q \in Peers : out'[q] # out[q] =>
              out'[q] = Append(out[q], k) /\ <<q, conn[q]>> \in D
         /\ \A q \in Peers : <<q, conn[q]>> \in D => out'[q] = Append(out[q], k)
<1>1. \A q \in Peers : out[q] \in Seq(Packets) /\ Append(out[q], k) \in Seq(Packets)
  BY DEF IInv, TypeOK
<1>2. QED  BY <1>1 DEF Deliver

\* What is left of a batch after its first packet.
LEMMA BatchFacts ==
  ASSUME IInv, NEW x \in Procs, pc[x] \in {"wire", "write", "replaywire", "replay"}
  PROVE  /\ batch[x] \in Seq(Packets) /\ batch[x] # <<>>
         /\ Head(batch[x]) \in Packets /\ Head(batch[x]) = batch[x][1]
         /\ Len(batch[x]) > 1 <=> Tail(batch[x]) # <<>>
<1>1. batch[x] \in Seq(Packets) /\ batch[x] # <<>>
  BY DEF IInv, TypeOK, BatchesAgree, Bringing, Replaying
<1>2. Tail(batch[x]) \in Seq(Packets) /\ Len(Tail(batch[x])) = Len(batch[x]) - 1
  BY <1>1, TailFacts
<1>3. Len(batch[x]) > 1 <=> Len(Tail(batch[x])) > 0  BY <1>1, <1>2
<1>4. Len(Tail(batch[x])) > 0 <=> Tail(batch[x]) # <<>>
  <2>1. \A t \in Seq(Packets) : Len(t) > 0 <=> t # <<>>  OBVIOUS
  <2>2. QED  BY <1>2, <2>1
<1>5. QED  BY <1>1, <1>3, <1>4, TailFacts

LEMMA WriteFrameInv == ASSUME IInv, WriteFrame PROVE IInv'
<1> USE Names
<1> DEFINE rest == Tail(batch[Clock])
<1>1. pc[Clock] = "write" /\ batch[Clock] \in Seq(Packets) /\ batch' = [batch EXCEPT ![Clock] = rest]
  BY BatchFacts DEF WriteFrame
<1>2. /\ out' \in [Peers -> Seq(Packets)]
      /\ \A q \in Peers : out'[q] # out[q] =>
           out'[q] = Append(out[q], Head(batch[Clock])) /\ <<q, conn[q]>> \in dests
  BY <1>1, BatchFacts, DeliverFacts DEF WriteFrame
<1>3. \A q \in Peers : <<q, conn[q]>> \in dests => status[q] \notin {"held", "await"}
  BY DEF IInv, RejoinersWait
<1>4. \/ rest # <<>> /\ UNCHANGED <<pc, wire, pending, dests>>
      \/ rest = <<>> /\ wire' = None /\ dests' = {} /\ Goes(Clock, "idle") /\ pending' = pending
  BY <1>1, BatchFacts DEF WriteFrame, peerVars
<1>5. UNCHANGED <<roomVars, mu, status, conn, from, allFrozen, drops>>
  BY DEF WriteFrame, peerVars
<1>6. rest \in {Tail(batch[Clock]), <<>>}  OBVIOUS
<1> HIDE DEF rest
<1>7. QED  BY <1>1, <1>2, <1>3, <1>4, <1>5, <1>6, WroteInv

LEMMA RelayUnitActionInv ==
  ASSUME IInv, NEW p \in Peers, RelayUnitAction(p)
  PROVE  IInv'
<1> USE Names
<1>1. pc[p] = "write" /\ status[p] = "playing"
  BY DEF RelayUnitAction, IInv, StagesAgree, Bringing
<1>2. /\ out' \in [Peers -> Seq(Packets)]
      /\ \A q \in Peers : out'[q] # out[q] =>
           out'[q] = Append(out[q], Head(batch[p])) /\ <<q, conn[q]>> \in LiveConns \cup {<<p, conn[p]>>}
  BY <1>1, BatchFacts, DeliverFacts DEF RelayUnitAction
<1>3. \A q \in Peers : <<q, conn[q]>> \in LiveConns \cup {<<p, conn[p]>>} => status[q] = "playing"
  BY <1>1 DEF LiveConns, Live
<1>4. /\ batch' = [batch EXCEPT ![p] = <<>>] /\ wire' = None /\ dests' = dests
      /\ Goes(p, "idle") /\ pending' = pending
      /\ UNCHANGED <<roomVars, mu, status, conn, from, allFrozen, drops>>
  BY DEF RelayUnitAction, peerVars
<1>5. QED  BY <1>1, <1>2, <1>3, <1>4, WroteInv

LEMMA WriteReplayInv ==
  ASSUME IInv, NEW p \in Peers, WriteReplay(p)
  PROVE  IInv'
<1> USE Names
<1> DEFINE rest == Tail(batch[p])
<1>1. /\ pc[p] = "replay" /\ batch[p] \in Seq(Packets) /\ batch' = [batch EXCEPT ![p] = rest]
      /\ Head(batch[p]) \in Packets
  BY BatchFacts DEF WriteReplay
<1>2. /\ out' \in [Peers -> Seq(Packets)]
      /\ \A q \in Peers : out'[q] # out[q] => out'[q] = Append(out[q], Head(batch[p])) /\ q = p
  <2>1. out[p] \in Seq(Packets) /\ Append(out[p], Head(batch[p])) \in Seq(Packets)
    BY <1>1 DEF IInv, TypeOK
  <2>2. out' = [out EXCEPT ![p] = out[p]] \/ out' = [out EXCEPT ![p] = Append(out[p], Head(batch[p]))]
    BY DEF WriteReplay
  <2>3. out \in [Peers -> Seq(Packets)]  BY DEF IInv, TypeOK
  <2>4. ASSUME NEW o \in Seq(Packets), out' = [out EXCEPT ![p] = o]
        PROVE  out' \in [Peers -> Seq(Packets)] /\ \A q \in Peers : out'[q] = IF q = p THEN o ELSE out[q]
    BY <2>3, <2>4
  <2>5. CASE out' = [out EXCEPT ![p] = out[p]]
    BY <2>1, <2>4, <2>5
  <2>6. CASE out' = [out EXCEPT ![p] = Append(out[p], Head(batch[p]))]
    BY <2>1, <2>4, <2>6
  <2>7. QED  BY <2>2, <2>5, <2>6
<1>3. \/ rest # <<>> /\ UNCHANGED <<pc, wire, pending, dests>>
      \/ rest = <<>> /\ wire' = None /\ dests' = dests /\ Goes(p, "stable") /\ pending' = pending \ {p}
  BY <1>1, BatchFacts DEF WriteReplay
<1>4. UNCHANGED <<roomVars, mu, status, conn, from, allFrozen, drops>>
  BY DEF WriteReplay
<1>5. rest \in {Tail(batch[p]), <<>>}  OBVIOUS
<1> HIDE DEF rest
<1>6. QED  BY <1>1, <1>2, <1>3, <1>4, <1>5, WroteInv

-----------------------------------------------------------------------------
(* Together.                                                               *)

LEMMA NextInv == IInv /\ [Next]_vars => IInv'
<1> SUFFICES ASSUME IInv, [Next]_vars PROVE IInv'  OBVIOUS
<1>1. CASE NumberFrames  BY <1>1, NumberFramesInv
<1>2. ASSUME NEW x \in Procs, Going(x)  PROVE IInv'
  <2>1. CASE TakeWire(x)  BY <2>1, TakeWireInv
  <2>2. CASE x = Clock /\ WriteFrame  BY <2>2, WriteFrameInv
  <2>3. CASE x \in Peers /\ RelayUnitAction(x)  BY <2>3, RelayUnitActionInv
  <2>4. CASE x \in Peers /\ AskPeers(x)  BY <2>4, AskPeersInv
  <2>5. CASE x \in Peers /\ AlignSyn(x)  BY <2>5, AlignSynInv
  <2>6. CASE x \in Peers /\ TakeReplayWire(x)  BY <2>6, TakeReplayWireInv
  <2>7. CASE x \in Peers /\ WriteReplay(x)  BY <2>7, WriteReplayInv
  <2>8. CASE x \in Peers /\ Stable(x)  BY <2>8, StableInv
  <2>9. QED  BY <1>2, <2>1, <2>2, <2>3, <2>4, <2>5, <2>6, <2>7, <2>8 DEF Going
<1>3. ASSUME NEW p \in Peers,
             \/ StartPlay(p) \/ StampUnitAction(p) \/ LeaveGS(p) \/ Drop(p)
             \/ ReLogin(p) \/ CopyReplay(p)
      PROVE  IInv'
  BY <1>3, StartPlayInv, StampUnitActionInv, LeaveGSInv, DropInv, ReLoginInv, CopyReplayInv
<1>4. CASE UNCHANGED vars
  <2>1. TypeOK'  BY <1>4 DEF IInv, TypeOK, vars, Packets
  <2>2. /\ NumbersAreBounded' /\ LocksAgree' /\ StagesAgree' /\ BatchesAgree'
        /\ RingAscends' /\ NewComesLast' /\ RejoinersWait' /\ OutAscends'
    BY <1>4 DEF IInv, NumbersAreBounded, LocksAgree, StagesAgree, BatchesAgree, RingAscends,
                NewComesLast, RejoinersWait, OutAscends, vars
  <2>3. QED  BY <2>1, <2>2 DEF IInv
<1>5. QED  BY <1>1, <1>2, <1>3, <1>4 DEF Next

\* What the proofs below start from.
THEOREM Invariance == Spec => []IInv
BY InitInv, NextInv, PTL DEF Spec

\* The variables of the stream have their types: the ring keeps to its limit,
\* and the counter is never above the number of packets.
THEOREM TypeCorrect == Spec => []TypeOK
<1>1. IInv => TypeOK  BY DEF IInv
<1>2. QED  BY <1>1, Invariance, PTL

\* However often connections are lost, replays run and the counter is moved, no
\* connection sees a packet overtake one that was numbered before it.
THEOREM OrderTheorem == Spec => []WireOrder
<1>1. IInv => WireOrder
  <2> SUFFICES ASSUME IInv, NEW p \in Peers, NEW i \in 1..(Len(out[p]) - 1)
               PROVE  out[p][i] < out[p][i + 1]
    BY DEF WireOrder, Increasing
  <2>1. Len(out[p]) \in Nat /\ Ascending(out[p])  BY DEF IInv, TypeOK, OutAscends
  <2>2. i \in 1..Len(out[p]) /\ i + 1 \in 1..Len(out[p]) /\ i < i + 1  BY <2>1
  <2>3. QED  BY <2>1, <2>2 DEF Ascending
<1>2. QED  BY <1>1, Invariance, PTL

-----------------------------------------------------------------------------
(* The gate.                                                               *)

\* A step writes to a peer behind its gate only if that peer has the wire.
LEMMA GateStep ==
  ASSUME IInv, [Next]_vars, NEW p \in Peers,
         status[p] = "await", out'[p] # out[p], conn'[p] = conn[p]
  PROVE  wire = p
<1> USE Names
<1>1. CASE WriteFrame
  <2>1. Head(batch[Clock]) \in Packets  BY <1>1, BatchFacts DEF WriteFrame
  <2>2. <<p, conn[p]>> \in dests  BY <1>1, <2>1, DeliverFacts DEF WriteFrame
  <2>3. QED  BY <2>2 DEF IInv, RejoinersWait
<1>2. ASSUME NEW q \in Peers, RelayUnitAction(q)  PROVE wire = p
  <2>1. pc[q] = "write" /\ status[q] = "playing"
    BY <1>2 DEF RelayUnitAction, IInv, StagesAgree, Bringing
  <2>2. Head(batch[q]) \in Packets  BY <2>1, BatchFacts
  <2>3. <<p, conn[p]>> \in LiveConns \cup {<<q, conn[q]>>}
    BY <1>2, <2>2, DeliverFacts DEF RelayUnitAction
  <2>4. QED  BY <2>1, <2>3 DEF LiveConns, Live
<1>3. ASSUME NEW q \in Peers, WriteReplay(q)  PROVE wire = p
  <2>1. wire = q  BY <1>3 DEF WriteReplay, IInv, LocksAgree
  <2>2. q = p  BY <1>3 DEF WriteReplay, IInv, TypeOK
  <2>3. QED  BY <2>1, <2>2
<1>4. ASSUME NEW q \in Peers, Drop(q)  PROVE wire = p
  <2>1. q # p  BY <1>4 DEF Drop, IInv, TypeOK
  <2>2. QED  BY <1>4, <2>1 DEF Drop, IInv, TypeOK
<1>5. CASE out' = out
  BY <1>5
<1>6. QED
  BY <1>1, <1>2, <1>3, <1>4, <1>5
  DEF Next, Going, vars, NumberFrames, TakeWire, AskPeers, AlignSyn, TakeReplayWire, Stable,
      StartPlay, StampUnitAction, LeaveGS, ReLogin, CopyReplay

\* A rejoiner is written to by its own replay and nothing else until its gate
\* opens.
THEOREM GateTheorem == Spec => NoFarAheadLive
<1>1. IInv /\ [Next]_vars =>
        [\A p \in Peers :
           status[p] = "await" /\ out'[p] # out[p] /\ conn'[p] = conn[p] => wire = p]_vars
  BY GateStep
<1>2. QED  BY <1>1, Invariance, PTL DEF Spec, NoFarAheadLive

-----------------------------------------------------------------------------
(* Survivors.                                                              *)

\* The packets in hand are those of the process that has the lock.
LEMMA InHandFacts ==
  ASSUME LocksAgree
  PROVE  /\ \A x \in Procs : pc[x] = "write" => InHand(wire, "write") = Len(batch[x])
         /\ (\A x \in Procs : pc[x] # "write") => InHand(wire, "write") = 0
         /\ \A x \in Procs : pc[x] = "wire" => InHand(mu, "wire") = Len(batch[x])
         /\ (\A x \in Procs : pc[x] # "wire") => InHand(mu, "wire") = 0
BY DEF InHand, LocksAgree

\* A step that numbers nothing and brings nothing further skips nothing.
LEMMA QuietSkips ==
  ASSUME IInv, IInv', NothingSkipped, syn' = syn, dests' = dests,
         \A x \in Procs : pc[x] \in Bringing \/ pc'[x] \in Bringing =>
           pc'[x] = pc[x] /\ batch'[x] = batch[x],
         \A p \in Peers : Survives(p)' => Survives(p) /\ out'[p] = out[p]
  PROVE  NothingSkipped'
<1>1. \A x \in Procs : pc[x] \in Bringing <=> pc'[x] \in Bringing  OBVIOUS
<1>2. InHand(wire, "write")' = InHand(wire, "write")
  <2>1. CASE \E x \in Procs : pc[x] = "write"
    <3>1. PICK x \in Procs : pc[x] = "write"  BY <2>1
    <3>2. pc'[x] = "write" /\ batch'[x] = batch[x]  BY <3>1 DEF Bringing
    <3>3. InHand(wire, "write") = Len(batch[x])  BY <3>1, InHandFacts DEF IInv
    <3>4. wire' = x  BY <3>2 DEF IInv, LocksAgree
    <3>5. InHand(wire, "write")' = Len(batch'[x])  BY <3>2, <3>4 DEF InHand
    <3>6. QED  BY <3>2, <3>3, <3>5
  <2>2. CASE \A x \in Procs : pc[x] # "write"
    <3>1. \A x \in Procs : pc'[x] # "write"  BY <2>2 DEF Bringing
    <3>2. InHand(wire, "write")' = 0  BY <3>1 DEF InHand
    <3>3. QED  BY <2>2, <3>2, InHandFacts DEF IInv
  <2>3. QED  BY <2>1, <2>2
<1>3. InHand(mu, "wire")' = InHand(mu, "wire")
  <2>1. CASE \E x \in Procs : pc[x] = "wire"
    <3>1. PICK x \in Procs : pc[x] = "wire"  BY <2>1
    <3>2. pc'[x] = "wire" /\ batch'[x] = batch[x]  BY <3>1 DEF Bringing
    <3>3. InHand(mu, "wire") = Len(batch[x])  BY <3>1, InHandFacts DEF IInv
    <3>4. mu' = x  BY <3>2 DEF IInv, LocksAgree
    <3>5. InHand(mu, "wire")' = Len(batch'[x])  BY <3>2, <3>4 DEF InHand
    <3>6. QED  BY <3>2, <3>3, <3>5
  <2>2. CASE \A x \in Procs : pc[x] # "wire"
    <3>1. \A x \in Procs : pc'[x] # "wire"  BY <2>2 DEF Bringing
    <3>2. InHand(mu, "wire")' = 0  BY <3>1 DEF InHand
    <3>3. QED  BY <2>2, <3>2, InHandFacts DEF IInv
  <2>3. QED  BY <2>1, <2>2
<1>4. \A x \in Procs : pc'[x] \in Bringing =>
        \A i \in 1..Len(batch'[x]) : batch'[x][i] = batch'[x][1] + i - 1
  BY DEF NothingSkipped
<1>5. \A p \in Peers : pc'[p] \in Bringing => Len(batch'[p]) = 1
  BY Names DEF NothingSkipped
<1>6. ASSUME NEW p \in Peers, Survives(p)'
      PROVE  /\ \A i \in 1..Len(out'[p]) : out'[p][i] = i
             /\ Len(out'[p]) + InHand(wire, "write")' + InHand(mu, "wire")' = Len(syn')
             /\ \A x \in Procs : pc'[x] = "write" => batch'[x][1] = Len(out'[p]) + 1
             /\ \A x \in Procs : pc'[x] = "wire" =>
                  batch'[x][1] = Len(out'[p]) + InHand(wire, "write")' + 1
             /\ pc'[Clock] \in Bringing => <<p, 0>> \in dests'
  <2>1. Survives(p) /\ out'[p] = out[p]  BY <1>6
  <2>2. QED  BY <1>2, <1>3, <2>1, Names DEF NothingSkipped, Bringing
<1>7. QED  BY <1>4, <1>5, <1>6 DEF NothingSkipped

\* A step that leaves the counter, the numbers and the frozen alone.
LEMMA QuietRewinds ==
  ASSUME NobodyRewinds, UNCHANGED <<synNext, syn, from, allFrozen>>,
         \A q \in Peers : pc[q] = "align" => pc'[q] = "align",
         \A p \in Peers : Survives(p)' => Survives(p)
  PROVE  NobodyRewinds'
BY DEF NobodyRewinds

\* Init has numbered nothing.
LEMMA SInit == Init => SInv
<1> SUFFICES ASSUME Init PROVE SInv  OBVIOUS
<1>1. syn = <<>> /\ Len(syn) = 0 /\ synNext = 0 /\ allFrozen = {} /\ mu = None /\ wire = None
  BY DEF Init
<1>2. \A x \in Procs : pc[x] = "idle"  BY DEF Init
<1>3. \A p \in Peers : out[p] = <<>> /\ Len(out[p]) = 0 /\ status[p] = "loading"  BY DEF Init
<1>4. SurvivorPlays  BY <1>1, <1>3 DEF SurvivorPlays
<1>5. NobodyRewinds  BY <1>1 DEF NobodyRewinds
<1>6. InHand(wire, "write") = 0 /\ InHand(mu, "wire") = 0  BY <1>1, Names DEF InHand
<1>7. NothingSkipped  BY <1>1, <1>2, <1>3, <1>6, Names DEF NothingSkipped, Bringing
<1>8. QED  BY <1>4, <1>5, <1>7 DEF SInv

\* A step that numbers nothing, brings nothing further and does not touch the
\* counter: a session starts, leaves, drops or opens its gate, a replay goes on.
LEMMA QuietInv ==
  ASSUME IInv, IInv', SInv,
         UNCHANGED <<synNext, syn, dests, allFrozen>>,
         \A x \in Procs : pc[x] \in Bringing \/ pc'[x] \in Bringing =>
           pc'[x] = pc[x] /\ batch'[x] = batch[x],
         \A q \in Peers : pc[q] = "align" => pc'[q] = "align" /\ from'[q] = from[q],
         \A p \in Peers : Survives(p)' => Survives(p) /\ out'[p] = out[p],
         \A p \in Peers : conn'[p] = 0 => conn[p] = 0 /\ status'[p] \in {status[p], "playing", "left"},
         Loading' \subseteq Loading
  PROVE  SInv'
<1>1. SurvivorPlays'
  BY DEF SInv, SurvivorPlays
<1>2. NobodyRewinds'
  <2>1. allFrozen' \subseteq {q \in Peers : pc'[q] = "align"}
    BY DEF SInv, NobodyRewinds
  <2>2. ASSUME NEW p \in Peers, Survives(p)'
        PROVE  /\ \A q \in allFrozen' : from'[q] <= 0
               /\ synNext' = Len(syn')
               /\ \A k \in 1..Len(syn') : syn'[k] = k - 1
    <3>1. Survives(p)  BY <2>2
    <3>2. \A q \in allFrozen : q \in Peers /\ pc[q] = "align" /\ from[q] <= 0
      BY <3>1 DEF SInv, NobodyRewinds
    <3>3. QED  BY <3>1, <3>2 DEF SInv, NobodyRewinds
  <2>3. QED  BY <2>1, <2>2 DEF NobodyRewinds
<1>3. NothingSkipped'
  BY QuietSkips DEF SInv
<1>4. QED  BY <1>1, <1>2, <1>3 DEF SInv

LEMMA StartPlayS ==
  ASSUME IInv, IInv', SInv, NEW p \in Peers, StartPlay(p)
  PROVE  SInv'
<1>1. \A q \in Peers : status'[q] = IF q = p THEN "playing" ELSE status[q]
  BY DEF StartPlay, IInv, TypeOK
<1>2. /\ UNCHANGED <<synNext, syn, dests, allFrozen, pc, batch, from, out, conn>>
      /\ status[p] = "loading"
  BY DEF StartPlay, roomVars
<1>3. \A q \in Peers : Survives(q)' => Survives(q)  BY <1>1, <1>2 DEF Survives
<1>4. Loading' \subseteq Loading  BY <1>1 DEF Loading
<1>5. QED  BY <1>1, <1>2, <1>3, <1>4, QuietInv

LEMMA LeaveGSS ==
  ASSUME IInv, IInv', SInv, NEW p \in Peers, LeaveGS(p)
  PROVE  SInv'
<1>1. \A q \in Peers : status'[q] = IF q = p THEN "left" ELSE status[q]
  BY DEF LeaveGS, IInv, TypeOK
<1>2. UNCHANGED <<synNext, syn, dests, allFrozen, pc, batch, from, out, conn>>
  BY DEF LeaveGS, roomVars
<1>3. \A q \in Peers : Survives(q)' => Survives(q)  BY <1>1, <1>2 DEF Survives
<1>4. Loading' \subseteq Loading  BY <1>1 DEF Loading
<1>5. QED  BY <1>1, <1>2, <1>3, <1>4, QuietInv

LEMMA DropS ==
  ASSUME IInv, IInv', SInv, NEW p \in Peers, Drop(p)
  PROVE  SInv'
<1>1. \A q \in Peers : status'[q] = IF q = p THEN "held" ELSE status[q]
  BY DEF Drop, IInv, TypeOK
<1>2. /\ UNCHANGED <<synNext, syn, dests, allFrozen, pc, batch>> /\ pc[p] = "idle"
      /\ \A q \in Peers : q # p => from'[q] = from[q] /\ out'[q] = out[q] /\ conn'[q] = conn[q]
      /\ conn'[p] = conn[p] + 1 /\ conn[p] \in Nat
  BY DEF Drop, roomVars, IInv, TypeOK
<1>3. conn'[p] # 0  BY <1>2
<1>4. \A q \in Peers : Survives(q)' => Survives(q) /\ out'[q] = out[q]
  BY <1>1, <1>2, <1>3 DEF Survives
<1>5. Loading' \subseteq Loading  BY <1>1 DEF Loading
<1>6. \A q \in Peers : conn'[q] = 0 => conn[q] = 0 /\ status'[q] \in {status[q], "playing", "left"}
  BY <1>1, <1>2, <1>3
<1>7. \A q \in Peers : pc[q] = "align" => pc'[q] = "align" /\ from'[q] = from[q]
  BY <1>2
<1>8. QED  BY <1>2, <1>4, <1>5, <1>6, <1>7, QuietInv

LEMMA StableS ==
  ASSUME IInv, IInv', SInv, NEW p \in Peers, Stable(p)
  PROVE  SInv'
<1> USE Names
<1>1. /\ pc[p] = "stable" /\ pc'[p] = "idle" /\ \A y \in Procs \ {p} : pc'[y] = pc[y]
  BY DEF Stable, Goes, IInv, TypeOK
<1>2. status[p] = "await"  BY <1>1 DEF IInv, StagesAgree, Rejoining
<1>3. \A q \in Peers : status'[q] = IF q = p THEN "playing" ELSE status[q]
  BY <1>2 DEF Stable, IInv, TypeOK
<1>4. UNCHANGED <<synNext, syn, dests, allFrozen, batch, from, out, conn>>
  BY DEF Stable, roomVars
<1>5. \A q \in Peers : Survives(q)' => Survives(q)  BY <1>2, <1>3, <1>4 DEF Survives
<1>6. Loading' \subseteq Loading  BY <1>3 DEF Loading
<1>7. \A x \in Procs : pc[x] \in Bringing \/ pc'[x] \in Bringing => pc'[x] = pc[x]
  BY <1>1 DEF Bringing
<1>8. \A q \in Peers : pc[q] = "align" => pc'[q] = "align"  BY <1>1
<1>9. QED  BY <1>3, <1>4, <1>5, <1>6, <1>7, <1>8, QuietInv

LEMMA ReLoginS ==
  ASSUME IInv, IInv', SInv, NEW p \in Peers, ReLogin(p)
  PROVE  SInv'
<1> USE Names
<1>1. pc'[p] = "ask" /\ \A y \in Procs \ {p} : pc'[y] = pc[y]
  BY DEF ReLogin, Goes, IInv, TypeOK
<1>2. status[p] = "held" /\ pc[p] \notin Bringing /\ pc[p] # "align"
  BY DEF ReLogin, IInv, StagesAgree, Bringing, Rejoining
<1>3. \A q \in Peers : status'[q] = IF q = p THEN "await" ELSE status[q]
  BY DEF ReLogin, IInv, TypeOK
<1>4. UNCHANGED <<synNext, syn, dests, allFrozen, batch, from, out, conn>>
  BY DEF ReLogin, roomVars
<1>5. conn[p] # 0  BY <1>2 DEF SInv, SurvivorPlays
<1>6. \A q \in Peers : Survives(q)' => Survives(q)  BY <1>2, <1>3, <1>4 DEF Survives
<1>7. Loading' \subseteq Loading  BY <1>3 DEF Loading
<1>8. \A x \in Procs : pc[x] \in Bringing \/ pc'[x] \in Bringing => pc'[x] = pc[x]
  BY <1>1, <1>2 DEF Bringing
<1>9. \A q \in Peers : pc[q] = "align" => pc'[q] = "align"  BY <1>1, <1>2
<1>10. \A q \in Peers : conn'[q] = 0 => conn[q] = 0 /\ status'[q] \in {status[q], "playing", "left"}
  BY <1>3, <1>4, <1>5
<1>11. QED  BY <1>4, <1>6, <1>7, <1>8, <1>9, <1>10, QuietInv

\* Steps of a rejoiner that change no session.
LEMMA RejoinerS ==
  ASSUME IInv, IInv', SInv, NEW p \in Peers,
         UNCHANGED <<synNext, syn, dests, allFrozen, status, conn, from>>,
         pc[p] \notin Bringing, pc'[p] \notin Bringing, pc[p] # "align",
         \A y \in Procs \ {p} : pc'[y] = pc[y] /\ batch'[y] = batch[y],
         \A q \in Peers \ {p} : out'[q] = out[q],
         status[p] = "await"
  PROVE  SInv'
<1> USE Names
<1>1. conn[p] # 0  BY DEF SInv, SurvivorPlays
<1>2. \A q \in Peers : Survives(q)' => Survives(q) /\ out'[q] = out[q]
  BY <1>1 DEF Survives
<1>3. Loading' \subseteq Loading  BY DEF Loading
<1>4. QED  BY <1>2, <1>3, QuietInv

LEMMA CopyReplayS ==
  ASSUME IInv, IInv', SInv, NEW p \in Peers, CopyReplay(p)
  PROVE  SInv'
<1> USE Names
<1>1. pc[p] = "idle" /\ status[p] = "await"  BY DEF CopyReplay
<1>2. UNCHANGED <<synNext, syn, dests, allFrozen, status, conn, from, out>>
  BY DEF CopyReplay, roomVars
<1>3. pc' = [pc EXCEPT ![p] = "replaywire"] \/ pc' = [pc EXCEPT ![p] = "stable"]
  BY DEF CopyReplay, Goes
<1>4. pc'[p] \in {"replaywire", "stable"} /\ \A y \in Procs \ {p} : pc'[y] = pc[y]
  BY <1>3 DEF IInv, TypeOK
<1>5. \A y \in Procs \ {p} : batch'[y] = batch[y]  BY DEF CopyReplay, IInv, TypeOK
<1>6. QED  BY <1>1, <1>2, <1>4, <1>5, RejoinerS DEF Bringing

LEMMA TakeReplayWireS ==
  ASSUME IInv, IInv', SInv, NEW p \in Peers, TakeReplayWire(p)
  PROVE  SInv'
<1> USE Names
<1>1. pc[p] = "replaywire" /\ status[p] = "await"
  BY DEF TakeReplayWire, IInv, StagesAgree, Rejoining
<1>2. UNCHANGED <<synNext, syn, dests, allFrozen, status, conn, from, out, batch>>
  BY DEF TakeReplayWire, roomVars, peerVars
<1>3. pc'[p] = "replay" /\ \A y \in Procs \ {p} : pc'[y] = pc[y]
  BY DEF TakeReplayWire, Goes, IInv, TypeOK
<1>4. QED  BY <1>1, <1>2, <1>3, RejoinerS DEF Bringing

LEMMA WriteReplayS ==
  ASSUME IInv, IInv', SInv, NEW p \in Peers, WriteReplay(p)
  PROVE  SInv'
<1> USE Names
<1>1. pc[p] = "replay" /\ status[p] = "await"
  BY DEF WriteReplay, IInv, StagesAgree, Rejoining
<1>2. UNCHANGED <<synNext, syn, dests, allFrozen, status, conn, from>>
  BY DEF WriteReplay, roomVars
<1>3. pc' = pc \/ pc' = [pc EXCEPT ![p] = "stable"]  BY DEF WriteReplay, Goes
<1>4. pc'[p] \in {"replay", "stable"} /\ \A y \in Procs \ {p} : pc'[y] = pc[y]
  BY <1>1, <1>3 DEF IInv, TypeOK
<1>5. \A y \in Procs \ {p} : batch'[y] = batch[y]  BY DEF WriteReplay, IInv, TypeOK
<1>6. \A q \in Peers \ {p} : out'[q] = out[q]  BY DEF WriteReplay, IInv, TypeOK
<1>7. QED  BY <1>1, <1>2, <1>4, <1>5, <1>6, RejoinerS DEF Bringing

\* A peer that asks while somebody plays on is not told that all are frozen,
\* unless that one is loading still, when nothing has been numbered.
LEMMA AskPeersS ==
  ASSUME IInv, IInv', SInv, NEW p \in Peers, AskPeers(p)
  PROVE  SInv'
<1> USE Names
<1>1. /\ pc[p] = "ask" /\ pc'[p] = "align" /\ \A y \in Procs \ {p} : pc'[y] = pc[y]
  BY DEF AskPeers, Goes, IInv, TypeOK
<1>2. status[p] = "await"  BY <1>1 DEF IInv, StagesAgree, Rejoining
<1>3. UNCHANGED <<synNext, syn, dests, status, conn, from, out, batch>>
  BY DEF AskPeers, roomVars, peerVars
<1>4. \A q \in Peers : Survives(q)' <=> Survives(q)  BY <1>3 DEF Survives
<1>5. SurvivorPlays'  BY <1>3 DEF SInv, SurvivorPlays, Loading
<1>6. NobodyRewinds'
  <2>1. allFrozen' \subseteq {q \in Peers : pc'[q] = "align"}
    BY <1>1 DEF AskPeers, SInv, NobodyRewinds
  <2>2. ASSUME NEW s \in Peers, Survives(s), NEW q \in allFrozen'  PROVE from[q] <= 0
    <3>1. CASE q \in allFrozen
      BY <2>2, <3>1 DEF SInv, NobodyRewinds
    <3>2. CASE q \notin allFrozen
      <4>1. q = p /\ Live \subseteq {p}  BY <2>2, <3>2 DEF AskPeers
      <4>2. s # p  BY <1>2, <2>2 DEF Survives, SInv, SurvivorPlays
      <4>3. status[s] = "loading"
        BY <2>2, <4>1, <4>2 DEF Live, Survives, SInv, SurvivorPlays
      <4>4. Len(syn) = 0  BY <4>3 DEF Loading, SInv, SurvivorPlays
      <4>5. from[p] \in Int /\ from[p] < Len(syn)  BY DEF IInv, TypeOK, NumbersAreBounded
      <4>6. QED  BY <4>1, <4>4, <4>5
    <3>3. QED  BY <3>1, <3>2
  <2>3. QED  BY <1>3, <1>4, <2>1, <2>2 DEF SInv, NobodyRewinds
<1>7. NothingSkipped'
  <2>1. \A x \in Procs : pc[x] \in Bringing \/ pc'[x] \in Bringing => pc'[x] = pc[x]
    BY <1>1 DEF Bringing
  <2>2. QED  BY <1>3, <1>4, <2>1, QuietSkips DEF SInv
<1>8. QED  BY <1>5, <1>6, <1>7 DEF SInv

\* While somebody plays on, the counter is neither moved up nor back.
LEMMA AlignSynS ==
  ASSUME IInv, IInv', SInv, NEW p \in Peers, AlignSyn(p)
  PROVE  SInv'
<1> USE Names
<1>1. /\ pc[p] = "align" /\ pc'[p] = "idle" /\ \A y \in Procs \ {p} : pc'[y] = pc[y]
  BY DEF AlignSyn, Goes, IInv, TypeOK
<1>2. UNCHANGED <<syn, dests, status, conn, from, out, batch>> /\ allFrozen' = allFrozen \ {p}
  BY DEF AlignSyn, peerVars
<1>3. \A q \in Peers : Survives(q)' <=> Survives(q)  BY <1>2 DEF Survives
<1>4. SurvivorPlays'  BY <1>2 DEF SInv, SurvivorPlays, Loading
<1>5. ASSUME NEW s \in Peers, Survives(s)  PROVE synNext' = synNext
  <2>1. synNext = Len(syn) /\ (p \in allFrozen => from[p] <= 0)
    BY <1>5 DEF SInv, NobodyRewinds
  <2>2. from[p] \in Int /\ from[p] < Len(syn) /\ Len(syn) \in Nat
    BY DEF IInv, TypeOK, NumbersAreBounded
  <2>3. CASE Requested(p) > 0
    <3>1. Requested(p) = from[p] /\ from[p] > 0  BY <2>2, <2>3 DEF Requested
    <3>2. ~(synNext < Requested(p) + 1) /\ p \notin allFrozen  BY <2>1, <2>2, <3>1
    <3>3. QED  BY <3>2 DEF AlignSyn
  <2>4. CASE ~(Requested(p) > 0)
    BY <2>4 DEF AlignSyn
  <2>5. QED  BY <2>3, <2>4
<1>6. NobodyRewinds'
  <2>1. allFrozen' \subseteq {q \in Peers : pc'[q] = "align"}
    BY <1>1, <1>2 DEF SInv, NobodyRewinds
  <2>2. QED  BY <1>2, <1>3, <1>5, <2>1 DEF SInv, NobodyRewinds
<1>7. NothingSkipped'
  <2>1. \A x \in Procs : pc[x] \in Bringing \/ pc'[x] \in Bringing => pc'[x] = pc[x]
    BY <1>1 DEF Bringing
  <2>2. QED  BY <1>2, <1>3, <2>1, QuietSkips DEF SInv
<1>8. QED  BY <1>4, <1>6, <1>7 DEF SInv

\* Numbering when everybody has loaded: the numbers of the new packets follow on.
LEMMA NumberedRewinds ==
  ASSUME IInv, SInv, NEW n \in Nat, n > 0, Number(n), Loading = {},
         UNCHANGED <<peerVars, allFrozen>>,
         \A q \in Peers : pc[q] = "align" => pc'[q] = "align"
  PROVE  SurvivorPlays' /\ NobodyRewinds'
<1>1. SurvivorPlays'
  BY DEF SInv, SurvivorPlays, Loading, peerVars
<1>2. \A q \in Peers : Survives(q)' <=> Survives(q)  BY DEF Survives, peerVars
<1>3. /\ Len(syn') = Len(syn) + n /\ Len(syn) \in Nat
      /\ \A k \in 1..Len(syn) : syn'[k] = syn[k]
      /\ \A k \in (Len(syn) + 1)..Len(syn') : syn'[k] = synNext + (k - Len(syn)) - 1
  BY NumberFacts DEF IInv
<1>4. synNext' = synNext + n  BY DEF Number
<1>5. allFrozen' \subseteq {q \in Peers : pc'[q] = "align"}
  BY DEF SInv, NobodyRewinds
<1>6. ASSUME NEW p \in Peers, Survives(p)
      PROVE  /\ \A q \in allFrozen' : from'[q] <= 0
             /\ synNext' = Len(syn')
             /\ \A k \in 1..Len(syn') : syn'[k] = k - 1
  <2>1. /\ \A q \in allFrozen : from[q] <= 0
        /\ synNext = Len(syn)
        /\ \A k \in 1..Len(syn) : syn[k] = k - 1
    BY <1>6 DEF SInv, NobodyRewinds
  <2>2. ASSUME NEW k \in 1..Len(syn')  PROVE syn'[k] = k - 1
    <3>1. CASE k <= Len(syn)
      <4>1. k \in 1..Len(syn)  BY <1>3, <3>1
      <4>2. QED  BY <1>3, <2>1, <4>1
    <3>2. CASE k > Len(syn)
      <4>1. k \in (Len(syn) + 1)..Len(syn')  BY <1>3, <3>2
      <4>2. syn'[k] = synNext + (k - Len(syn)) - 1  BY <1>3, <4>1
      <4>3. QED  BY <1>3, <2>1, <4>2
    <3>3. QED  BY <1>3, <3>1, <3>2
  <2>3. QED  BY <1>3, <1>4, <2>1, <2>2 DEF peerVars
<1>7. QED  BY <1>1, <1>2, <1>5, <1>6 DEF NobodyRewinds

\* x has them in hand, and survivors are among those they go to.
LEMMA NumberedS ==
  ASSUME IInv, IInv', SInv, NEW n \in Nat, n > 0, Number(n), NEW x \in Procs, Loading = {},
         mu = None, mu' = x, pc[x] = "idle", Goes(x, "wire"),
         batch' = [batch EXCEPT ![x] = Frames(n)],
         x = Clock => dests' = LiveConns,
         x \in Peers => dests' = dests /\ n = 1,
         UNCHANGED <<wire, peerVars, out, allFrozen, drops>>
  PROVE  SInv'
<1> USE Names
<1>1. /\ pc'[x] = "wire" /\ \A y \in Procs \ {x} : pc'[y] = pc[y]
  BY DEF Goes, IInv, TypeOK
<1>2. /\ Frames(n) \in Seq(1..(Len(syn) + n)) /\ Len(Frames(n)) = n
      /\ \A i \in 1..n : Frames(n)[i] = Len(syn) + i
  BY FramesFacts DEF IInv
<1>3. batch'[x] = Frames(n) /\ \A y \in Procs \ {x} : batch'[y] = batch[y]
  BY DEF IInv, TypeOK
<1>4. Len(syn') = Len(syn) + n /\ Len(syn) \in Nat  BY NumberFacts DEF IInv
<1>5. SurvivorPlays' /\ NobodyRewinds'
  BY <1>1, NumberedRewinds
<1>6. \A y \in Procs : pc[y] # "wire"  BY DEF IInv, LocksAgree
<1>7. InHand(mu, "wire") = 0 /\ InHand(mu, "wire")' = n
  BY <1>1, <1>2, <1>3 DEF InHand
<1>8. InHand(wire, "write")' = InHand(wire, "write")
  BY <1>1, <1>3 DEF InHand
<1>9. /\ \A y \in Procs : pc'[y] \in Bringing =>
           \A i \in 1..Len(batch'[y]) : batch'[y][i] = batch'[y][1] + i - 1
      /\ \A q \in Peers : pc'[q] \in Bringing => Len(batch'[q]) = 1
  <2>1. \A i \in 1..n : Frames(n)[i] = Frames(n)[1] + i - 1  BY <1>2, <1>4
  <2>2. ASSUME NEW y \in Procs, pc'[y] \in Bringing
        PROVE  /\ \A i \in 1..Len(batch'[y]) : batch'[y][i] = batch'[y][1] + i - 1
               /\ y \in Peers => Len(batch'[y]) = 1
    <3>1. CASE y = x
      BY <1>2, <1>3, <2>1, <3>1
    <3>2. CASE y # x
      BY <1>1, <1>3, <2>2, <3>2 DEF SInv, NothingSkipped
    <3>3. QED  BY <3>1, <3>2
  <2>3. QED  BY <2>2
<1>10. ASSUME NEW p \in Peers, Survives(p)'
       PROVE  /\ \A i \in 1..Len(out'[p]) : out'[p][i] = i
              /\ Len(out'[p]) + InHand(wire, "write")' + InHand(mu, "wire")' = Len(syn')
              /\ \A y \in Procs : pc'[y] = "write" => batch'[y][1] = Len(out'[p]) + 1
              /\ \A y \in Procs : pc'[y] = "wire" =>
                   batch'[y][1] = Len(out'[p]) + InHand(wire, "write")' + 1
              /\ pc'[Clock] \in Bringing => <<p, 0>> \in dests'
  <2>1. Survives(p) /\ status[p] = "playing" /\ conn[p] = 0
    BY <1>10 DEF Survives, peerVars, Loading, SInv, SurvivorPlays
  <2>2. /\ \A i \in 1..Len(out[p]) : out[p][i] = i
        /\ Len(out[p]) + InHand(wire, "write") = Len(syn)
        /\ \A y \in Procs : pc[y] = "write" => batch[y][1] = Len(out[p]) + 1
        /\ pc[Clock] \in Bringing => <<p, 0>> \in dests
        /\ Len(out[p]) \in Nat
    <3>1. Len(out[p]) \in Nat  BY DEF IInv, TypeOK
    <3>2. InHand(wire, "write") \in Nat  BY DEF InHand, IInv, TypeOK
    <3>3. QED  BY <1>7, <2>1, <3>1, <3>2 DEF SInv, NothingSkipped
  <2>3. Len(out[p]) + InHand(wire, "write") + n = Len(syn')  BY <1>4, <2>2
  <2>4. \A y \in Procs : pc'[y] = "write" => batch'[y][1] = Len(out[p]) + 1
    BY <1>1, <1>3, <2>2
  <2>5. \A y \in Procs : pc'[y] = "wire" =>
          batch'[y][1] = Len(out[p]) + InHand(wire, "write") + 1
    <3>1. Frames(n)[1] = Len(syn) + 1  BY <1>2
    <3>2. \A y \in Procs : pc'[y] = "wire" => y = x  BY <1>1, <1>6
    <3>3. QED  BY <1>3, <2>2, <3>1, <3>2
  <2>6. pc'[Clock] \in Bringing => <<p, 0>> \in dests'
    <3>1. CASE x = Clock
      BY <2>1, <3>1 DEF LiveConns, Live
    <3>2. CASE x # Clock
      BY <1>1, <2>2, <3>2
    <3>3. QED  BY <3>1, <3>2
  <2>7. QED  BY <1>7, <1>8, <2>2, <2>3, <2>4, <2>5, <2>6
<1>11. NothingSkipped'  BY <1>9, <1>10 DEF NothingSkipped
<1>12. QED  BY <1>5, <1>11 DEF SInv

LEMMA NumberFramesS ==
  ASSUME IInv, IInv', SInv, NumberFrames
  PROVE  SInv'
<1> USE Names
<1>1. PICK n \in 1..Catchup :
        /\ Number(n)
        /\ IF LiveConns = {}
             THEN UNCHANGED <<mu, pc, batch, dests>>
             ELSE /\ mu' = Clock
                  /\ batch' = [batch EXCEPT ![Clock] = Frames(n)]
                  /\ dests' = LiveConns
                  /\ Goes(Clock, "wire")
  BY DEF NumberFrames, Frames
<1>2. n \in Nat /\ n > 0  BY NumbersAssumption
<1>3. Loading = {} /\ pc[Clock] = "idle" /\ mu = None
      /\ UNCHANGED <<wire, peerVars, out, allFrozen, drops>>
  BY DEF NumberFrames
<1>4. CASE LiveConns = {}
  <2>1. UNCHANGED <<mu, pc, batch, dests>>  BY <1>1, <1>4
  <2>2. SurvivorPlays' /\ NobodyRewinds'
    BY <1>1, <1>2, <1>3, <2>1, NumberedRewinds
  <2>3. \A p \in Peers : ~Survives(p)'
    <3>1. \A p \in Peers : status[p] # "playing"  BY <1>4 DEF LiveConns, Live
    <3>2. \A p \in Peers : status[p] # "loading"  BY <1>3 DEF Loading
    <3>3. QED  BY <1>3, <3>1, <3>2 DEF Survives, SInv, SurvivorPlays, peerVars
  <2>4. NothingSkipped'  BY <2>1, <2>3 DEF SInv, NothingSkipped
  <2>5. QED  BY <2>2, <2>4 DEF SInv
<1>5. CASE LiveConns # {}
  BY <1>1, <1>2, <1>3, <1>5, NumberedS
<1>6. QED  BY <1>4, <1>5

LEMMA StampUnitActionS ==
  ASSUME ~Early, IInv, IInv', SInv, NEW p \in Peers, StampUnitAction(p)
  PROVE  SInv'
<1> USE Names
<1>1. Frames(1) = <<Len(syn) + 1>>  BY DEF Frames
<1>2. /\ Number(1) /\ mu = None /\ mu' = p /\ pc[p] = "idle" /\ Goes(p, "wire")
      /\ batch' = [batch EXCEPT ![p] = Frames(1)]
      /\ dests' = dests /\ Loading = {}
      /\ UNCHANGED <<wire, peerVars, out, allFrozen, drops>>
  BY <1>1 DEF StampUnitAction
<1>3. 1 \in Nat /\ 1 > 0 /\ p # Clock  OBVIOUS
<1>4. QED  BY <1>2, <1>3, NumberedS

\* From the room to the wire.
LEMMA TakeWireS ==
  ASSUME IInv, IInv', SInv, NEW x \in Procs, TakeWire(x)
  PROVE  SInv'
<1> USE Names
<1>1. pc[x] = "wire" /\ wire = None /\ wire' = x /\ mu' = None  BY DEF TakeWire
<1>2. pc'[x] = "write" /\ \A y \in Procs \ {x} : pc'[y] = pc[y]
  BY DEF TakeWire, Goes, IInv, TypeOK
<1>3. mu = x  BY <1>1 DEF IInv, LocksAgree
<1>4. UNCHANGED <<synNext, syn, dests, allFrozen, status, conn, from, out, batch>>
  BY DEF TakeWire, roomVars, peerVars
<1>5. \A q \in Peers : Survives(q)' <=> Survives(q)  BY <1>4 DEF Survives
<1>6. SurvivorPlays'  BY <1>4 DEF SInv, SurvivorPlays, Loading
<1>7. NobodyRewinds'  BY <1>1, <1>2, <1>4, <1>5, QuietRewinds DEF SInv
<1>8. /\ InHand(wire, "write") = 0 /\ InHand(mu, "wire") = Len(batch[x])
      /\ InHand(wire, "write")' = Len(batch[x]) /\ InHand(mu, "wire")' = 0
  BY <1>1, <1>2, <1>3, <1>4 DEF InHand
<1>9. \A y \in Procs : pc[y] # "write" /\ pc'[y] # "wire"
  BY <1>1, <1>2, <1>3 DEF IInv, LocksAgree
<1>10. ASSUME NEW p \in Peers, Survives(p)
       PROVE  /\ Len(out[p]) + Len(batch[x]) = Len(syn)
              /\ batch[x][1] = Len(out[p]) + 1
              /\ \A i \in 1..Len(out[p]) : out[p][i] = i
              /\ pc[Clock] \in Bringing => <<p, 0>> \in dests
  <2>1. /\ out[p] \in Seq(Packets) /\ batch[x] \in Seq(Packets)
        /\ Len(out[p]) \in Nat /\ Len(batch[x]) \in Nat
    <3>1. out[p] \in Seq(Packets) /\ batch[x] \in Seq(Packets)  BY DEF IInv, TypeOK
    <3>2. QED  BY <3>1
  <2>2. /\ Len(out[p]) + InHand(wire, "write") + InHand(mu, "wire") = Len(syn)
        /\ batch[x][1] = Len(out[p]) + InHand(wire, "write") + 1
        /\ \A i \in 1..Len(out[p]) : out[p][i] = i
        /\ pc[Clock] \in Bringing => <<p, 0>> \in dests
    BY <1>1, <1>10 DEF SInv, NothingSkipped
  <2>3. Len(out[p]) + 0 + Len(batch[x]) = Len(syn)  BY <1>8, <2>2
  <2>4. batch[x][1] = Len(out[p]) + 0 + 1  BY <1>8, <2>2
  <2>5. Len(out[p]) + Len(batch[x]) = Len(syn)
    <3>1. Len(out[p]) + 0 = Len(out[p])  BY <2>1
    <3>2. QED  BY <2>3, <3>1
  <2>6. batch[x][1] = Len(out[p]) + 1  BY <2>1, <2>4
  <2>7. QED  BY <2>2, <2>5, <2>6
<1>11. ASSUME NEW p \in Peers, Survives(p)
       PROVE  Len(out[p]) + InHand(wire, "write")' + InHand(mu, "wire")' = Len(syn)
  <2>1. /\ out[p] \in Seq(Packets) /\ batch[x] \in Seq(Packets)
        /\ Len(out[p]) \in Nat /\ Len(batch[x]) \in Nat
    <3>1. out[p] \in Seq(Packets) /\ batch[x] \in Seq(Packets)  BY DEF IInv, TypeOK
    <3>2. QED  BY <3>1
  <2>2. Len(out[p]) + Len(batch[x]) = Len(syn)  BY <1>10, <1>11, <2>1
  <2>3. Len(out[p]) + Len(batch[x]) + 0 = Len(syn)
    <3>1. \A m, n \in Nat : m + n + 0 = m + n  OBVIOUS
    <3>2. QED  BY <2>1, <2>2, <3>1, Zenon
  <2>4. QED  BY <1>8, <2>3
<1>12. \A y \in Procs : pc'[y] \in Bringing <=> pc[y] \in Bringing
  BY <1>1, <1>2 DEF Bringing
<1>13. NothingSkipped'
  BY <1>2, <1>4, <1>5, <1>9, <1>10, <1>11, <1>12 DEF SInv, NothingSkipped
<1>14. QED  BY <1>6, <1>7, <1>13 DEF SInv

\* The process that has the wire writes a packet to every survivor.
LEMMA WroteS ==
  ASSUME IInv, IInv', SInv, NEW x \in Procs, pc[x] = "write",
         batch' = [batch EXCEPT ![x] = Tail(batch[x])],
         \A q \in Peers : Survives(q) => out'[q] = Append(out[q], Head(batch[x])),
         \/ Tail(batch[x]) # <<>> /\ UNCHANGED <<pc, wire, dests>>
         \/ /\ Tail(batch[x]) = <<>> /\ wire' = None /\ Goes(x, "idle")
            /\ x # Clock => dests' = dests,
         UNCHANGED <<roomVars, mu, status, conn, from, allFrozen, drops>>
  PROVE  SInv'
<1> USE Names
<1> DEFINE b == batch[x]
           rest == Tail(b)
<1>1. /\ b \in Seq(Packets) /\ b # <<>> /\ Head(b) = b[1] /\ Head(b) \in Packets
      /\ rest \in Seq(Packets) /\ Len(rest) = Len(b) - 1 /\ Len(b) \in Nat /\ 1 \in 1..Len(b)
      /\ \A i \in 1..Len(b) - 1 : rest[i] = b[i + 1] /\ i + 1 \in 1..Len(b)
      /\ Len(rest) \in Nat
  <2>1. b \in Seq(Packets) /\ b # <<>>  BY BatchFacts
  <2>2. QED  BY <2>1, TailFacts
<1>2. batch'[x] = rest /\ \A y \in Procs \ {x} : batch'[y] = batch[y]
  BY DEF IInv, TypeOK
<1>3. b[1] \in Int /\ \A i \in 1..Len(b) : b[i] = b[1] + i - 1
  <2>1. pc[x] \in Bringing  BY DEF Bringing
  <2>2. \A i \in 1..Len(b) : b[i] = b[1] + i - 1  BY <2>1 DEF SInv, NothingSkipped
  <2>3. b[1] \in Int  BY <1>1 DEF Packets
  <2>4. QED  BY <2>2, <2>3
<1> HIDE DEF rest, b
<1>4. \A i \in 1..Len(rest) : rest[i] = b[1] + i
  <2>1. ASSUME NEW i \in 1..Len(rest)  PROVE  rest[i] = b[1] + i
    <3>1. i \in 1..Len(b) - 1 /\ i \in Int  BY <1>1
    <3>2. rest[i] = b[i + 1] /\ i + 1 \in 1..Len(b)  BY <1>1, <3>1
    <3>3. b[i + 1] = b[1] + (i + 1) - 1  BY <1>3, <3>2
    <3>4. QED  BY <1>3, <3>1, <3>2, <3>3
  <2>2. QED  BY <2>1
<1>5. Len(rest) = 0 <=> rest = <<>>
  <2>1. rest \in Seq(Packets)  BY <1>1
  <2>2. QED  BY <2>1
<1>6. /\ \A y \in Procs \ {x} : pc'[y] = pc[y]
      /\ rest # <<>> => pc'[x] = "write" /\ wire' = x
      /\ rest = <<>> => pc'[x] = "idle" /\ wire' = None
  <2>1. wire = x  BY DEF IInv, LocksAgree
  <2>2. QED  BY <2>1 DEF Goes, IInv, TypeOK, rest, b
<1>7. \A q \in Peers : Survives(q)' <=> Survives(q)  BY DEF Survives
<1>8. SurvivorPlays'  BY DEF SInv, SurvivorPlays, Loading, roomVars
<1>9. \A q \in Peers : pc[q] = "align" => pc'[q] = "align"  BY <1>6
<1>10. NobodyRewinds'  BY <1>7, <1>9, QuietRewinds DEF SInv, roomVars
<1>11. InHand(wire, "write") = Len(b) /\ InHand(wire, "write")' = Len(b) - 1
  <2>1. InHand(wire, "write") = Len(b)  BY InHandFacts DEF IInv, b
  <2>2. InHand(wire, "write")' = Len(rest)
    <3>1. CASE rest # <<>>
      BY <1>2, <1>6, <3>1 DEF InHand
    <3>2. CASE rest = <<>>
      BY <1>5, <1>6, <3>2 DEF InHand
    <3>3. QED  BY <3>1, <3>2
  <2>3. QED  BY <1>1, <2>1, <2>2
<1>12. InHand(mu, "wire")' = InHand(mu, "wire")
  <2>1. mu # x  BY DEF IInv, LocksAgree
  <2>2. mu \in Procs => pc'[mu] = pc[mu] /\ batch'[mu] = batch[mu]  BY <1>2, <1>6, <2>1
  <2>3. QED  BY <2>2 DEF InHand
<1>13. \A y \in Procs : y # x => pc[y] # "write"  BY DEF IInv, LocksAgree
<1>14. /\ \A y \in Procs : pc'[y] \in Bringing =>
            \A i \in 1..Len(batch'[y]) : batch'[y][i] = batch'[y][1] + i - 1
       /\ \A q \in Peers : pc'[q] \in Bringing => Len(batch'[q]) = 1
  <2>1. ASSUME NEW y \in Procs, pc'[y] \in Bringing
        PROVE  /\ \A i \in 1..Len(batch'[y]) : batch'[y][i] = batch'[y][1] + i - 1
               /\ y \in Peers => Len(batch'[y]) = 1
    <3>1. CASE y # x
      <4>1. pc[y] \in Bringing /\ batch'[y] = batch[y]  BY <1>2, <1>6, <2>1, <3>1
      <4>2. /\ \A i \in 1..Len(batch[y]) : batch[y][i] = batch[y][1] + i - 1
            /\ y \in Peers => Len(batch[y]) = 1
        BY <4>1 DEF SInv, NothingSkipped
      <4>3. QED  BY <4>1, <4>2
    <3>2. CASE y = x
      <4>0. pc'[x] \in Bringing  BY <2>1, <3>2
      <4>1. rest # <<>> /\ Len(rest) > 0  BY <1>1, <1>5, <1>6, <4>0 DEF Bringing
      <4>2. \A i \in 1..Len(rest) : rest[i] = rest[1] + i - 1  
        <5>1. 1 \in 1..Len(rest) /\ rest[1] = b[1] + 1  BY <1>1, <1>4, <4>1
        <5>2. QED  BY <1>3, <1>4, <5>1
      <4>3. y \notin Peers
        BY <1>1, <3>2, <4>1 DEF SInv, NothingSkipped, Bringing, b
      <4>4. QED  BY <1>2, <3>2, <4>2, <4>3
    <3>3. QED  BY <3>1, <3>2
  <2>2. QED  BY <2>1
<1>15. ASSUME NEW p \in Peers, Survives(p)
       PROVE  /\ \A i \in 1..Len(out'[p]) : out'[p][i] = i
              /\ Len(out'[p]) + InHand(wire, "write")' + InHand(mu, "wire")' = Len(syn)
              /\ \A y \in Procs : pc'[y] = "write" => batch'[y][1] = Len(out'[p]) + 1
              /\ \A y \in Procs : pc'[y] = "wire" =>
                   batch'[y][1] = Len(out'[p]) + InHand(wire, "write")' + 1
              /\ pc'[Clock] \in Bringing => <<p, 0>> \in dests'
  <2>1. /\ \A i \in 1..Len(out[p]) : out[p][i] = i
        /\ Len(out[p]) + Len(b) + InHand(mu, "wire") = Len(syn)
        /\ b[1] = Len(out[p]) + 1
        /\ \A y \in Procs : pc[y] = "wire" => batch[y][1] = Len(out[p]) + Len(b) + 1
        /\ pc[Clock] \in Bringing => <<p, 0>> \in dests
    <3>1. /\ \A i \in 1..Len(out[p]) : out[p][i] = i
          /\ Len(out[p]) + InHand(wire, "write") + InHand(mu, "wire") = Len(syn)
          /\ \A y \in Procs : pc[y] = "write" => batch[y][1] = Len(out[p]) + 1
          /\ \A y \in Procs : pc[y] = "wire" =>
               batch[y][1] = Len(out[p]) + InHand(wire, "write") + 1
          /\ pc[Clock] \in Bringing => <<p, 0>> \in dests
      BY <1>15 DEF SInv, NothingSkipped
    <3>2. pc[x] = "write" /\ x \in Procs  OBVIOUS
    <3>3. b[1] = Len(out[p]) + 1  BY <3>1, <3>2 DEF b
    <3>4. InHand(wire, "write") = Len(b)  BY <1>11
    <3>5. QED  BY <3>1, <3>3, <3>4
  <2>2. out[p] \in Seq(Packets) /\ Len(out[p]) \in Nat  BY DEF IInv, TypeOK
  <2>3. /\ Len(out'[p]) = Len(out[p]) + 1
        /\ \A i \in 1..Len(out[p]) : out'[p][i] = out[p][i]
        /\ out'[p][Len(out[p]) + 1] = b[1]
    <3>1. out'[p] = Append(out[p], b[1])  BY <1>1, <1>15 DEF b
    <3>2. b[1] \in Packets  BY <1>1
    <3>3. QED  BY <2>2, <3>1, <3>2, AppendFacts
  <2>4. \A i \in 1..Len(out'[p]) : out'[p][i] = i
    <3>1. TAKE i \in 1..Len(out'[p])
    <3>2. i \in 1..Len(out[p]) \/ i = Len(out[p]) + 1  BY <2>2, <2>3
    <3>3. QED  BY <2>1, <2>3, <3>2
  <2>5. InHand(mu, "wire") \in Nat  BY DEF InHand, IInv, TypeOK
  <2>6. Len(out'[p]) + InHand(wire, "write")' + InHand(mu, "wire")' = Len(syn)
    <3>1. (Len(out[p]) + 1) + (Len(b) - 1) + InHand(mu, "wire") = Len(syn)
      BY <1>1, <2>1, <2>2, <2>5
    <3>2. QED  BY <1>11, <1>12, <2>3, <3>1
  <2>7. \A y \in Procs : pc'[y] = "write" => batch'[y][1] = Len(out'[p]) + 1
    <3>1. SUFFICES ASSUME pc'[x] = "write" PROVE rest[1] = Len(out'[p]) + 1
      BY <1>2, <1>6, <1>13
    <3>2. rest # <<>>  BY <1>6, <3>1
    <3>3. 1 \in 1..Len(rest)  BY <1>1, <1>5, <3>2
    <3>4. rest[1] = b[1] + 1  BY <1>4, <3>3
    <3>5. QED  BY <2>1, <2>2, <2>3, <3>4
  <2>8. \A y \in Procs : pc'[y] = "wire" =>
          batch'[y][1] = Len(out'[p]) + InHand(wire, "write")' + 1
    <3>1. TAKE y \in Procs
    <3>2. HAVE pc'[y] = "wire"
    <3>3. y # x /\ pc[y] = "wire" /\ batch'[y] = batch[y]  BY <1>2, <1>6, <3>2
    <3>4. QED  BY <1>1, <1>11, <2>1, <2>2, <2>3, <3>3
  <2>9. pc'[Clock] \in Bringing => <<p, 0>> \in dests'
    <3>1. CASE x = Clock
      BY <1>6, <2>1, <3>1 DEF Bringing, rest, b
    <3>2. CASE x # Clock
      BY <1>6, <2>1, <3>2
    <3>3. QED  BY <3>1, <3>2
  <2>10. QED  BY <2>4, <2>6, <2>7, <2>8, <2>9
<1>16. NothingSkipped'
  BY <1>7, <1>14, <1>15 DEF NothingSkipped, roomVars
<1>17. QED  BY <1>8, <1>10, <1>16 DEF SInv

LEMMA WriteFrameS ==
  ASSUME IInv, IInv', SInv, WriteFrame
  PROVE  SInv'
<1> USE Names
<1>1. pc[Clock] = "write" /\ batch' = [batch EXCEPT ![Clock] = Tail(batch[Clock])]
  BY DEF WriteFrame
<1>2. \A q \in Peers : Survives(q) => out'[q] = Append(out[q], Head(batch[Clock]))
  <2>1. \A q \in Peers : Survives(q) => <<q, conn[q]>> \in dests
    BY <1>1 DEF SInv, NothingSkipped, Survives, Bringing
  <2>2. QED  BY <1>1, <2>1, BatchFacts, DeliverFacts DEF WriteFrame
<1>3. \/ Tail(batch[Clock]) # <<>> /\ UNCHANGED <<pc, wire, dests>>
      \/ Tail(batch[Clock]) = <<>> /\ wire' = None /\ Goes(Clock, "idle")
  BY <1>1, BatchFacts DEF WriteFrame
<1>4. UNCHANGED <<roomVars, mu, status, conn, from, allFrozen, drops>>
  BY DEF WriteFrame, peerVars
<1>5. QED  BY <1>1, <1>2, <1>3, <1>4, WroteS

LEMMA RelayUnitActionS ==
  ASSUME IInv, IInv', SInv, NEW p \in Peers, RelayUnitAction(p)
  PROVE  SInv'
<1> USE Names
<1>1. pc[p] = "write" /\ batch' = [batch EXCEPT ![p] = <<>>]
  BY DEF RelayUnitAction
<1>2. Tail(batch[p]) = <<>>
  <2>1. Len(batch[p]) = 1  BY <1>1 DEF SInv, NothingSkipped, Bringing
  <2>2. Len(batch[p]) > 1 <=> Tail(batch[p]) # <<>>  BY <1>1, BatchFacts
  <2>3. QED  BY <2>1, <2>2
<1>3. \A q \in Peers : Survives(q) => out'[q] = Append(out[q], Head(batch[p]))
  <2>1. Len(syn) # 0
    <3>1. Head(batch[p]) \in Packets  BY <1>1, BatchFacts
    <3>2. QED  BY <3>1 DEF Packets
  <2>2. \A q \in Peers : Survives(q) => status[q] = "playing"
    <3>1. Loading = {}  BY <2>1 DEF SInv, SurvivorPlays
    <3>2. QED  BY <3>1 DEF Loading, SInv, SurvivorPlays, Survives
  <2>3. \A q \in Peers : Survives(q) => <<q, conn[q]>> \in LiveConns \cup {<<p, conn[p]>>}
    BY <2>2 DEF LiveConns, Live
  <2>4. Head(batch[p]) \in Packets  BY <1>1, BatchFacts
  <2>5. Deliver(Head(batch[p]), LiveConns \cup {<<p, conn[p]>>})  BY DEF RelayUnitAction
  <2>6. QED  BY <2>3, <2>4, <2>5, DeliverFacts
<1>4. /\ wire' = None /\ Goes(p, "idle") /\ dests' = dests
      /\ UNCHANGED <<roomVars, mu, status, conn, from, allFrozen, drops>>
  BY DEF RelayUnitAction, peerVars
<1>5. QED  BY <1>1, <1>2, <1>3, <1>4, WroteS

LEMMA NextS == ~Early /\ IInv /\ IInv' /\ SInv /\ [Next]_vars => SInv'
<1> SUFFICES ASSUME ~Early, IInv, IInv', SInv, [Next]_vars PROVE SInv'  OBVIOUS
<1>1. CASE NumberFrames  BY <1>1, NumberFramesS
<1>2. ASSUME NEW x \in Procs, Going(x)  PROVE SInv'
  <2>1. CASE TakeWire(x)  BY <2>1, TakeWireS
  <2>2. CASE x = Clock /\ WriteFrame  BY <2>2, WriteFrameS
  <2>3. CASE x \in Peers /\ RelayUnitAction(x)  BY <2>3, RelayUnitActionS
  <2>4. CASE x \in Peers /\ AskPeers(x)  BY <2>4, AskPeersS
  <2>5. CASE x \in Peers /\ AlignSyn(x)  BY <2>5, AlignSynS
  <2>6. CASE x \in Peers /\ TakeReplayWire(x)  BY <2>6, TakeReplayWireS
  <2>7. CASE x \in Peers /\ WriteReplay(x)  BY <2>7, WriteReplayS
  <2>8. CASE x \in Peers /\ Stable(x)  BY <2>8, StableS
  <2>9. QED  BY <1>2, <2>1, <2>2, <2>3, <2>4, <2>5, <2>6, <2>7, <2>8 DEF Going
<1>3. ASSUME NEW p \in Peers,
             \/ StartPlay(p) \/ StampUnitAction(p) \/ LeaveGS(p) \/ Drop(p)
             \/ ReLogin(p) \/ CopyReplay(p)
      PROVE  SInv'
  BY <1>3, StartPlayS, StampUnitActionS, LeaveGSS, DropS, ReLoginS, CopyReplayS
<1>4. CASE UNCHANGED vars
  BY <1>4 DEF SInv, SurvivorPlays, NobodyRewinds, NothingSkipped, Survives, InHand, Loading, vars
<1>5. QED  BY <1>1, <1>2, <1>3, <1>4 DEF Next

\* When clients act only after everybody has loaded, what a peer that plays on has
\* got is every packet from the first on without a gap, under consecutive numbers.
THEOREM SurvivorTheorem == ~Early => (Spec => []SurvivorGetsAll)
<1> SUFFICES ASSUME ~Early PROVE Spec => []SurvivorGetsAll  OBVIOUS
<1>1. IInv /\ SInv /\ [Next]_vars => (IInv /\ SInv)'  BY NextInv, NextS
<1>2. Init => IInv /\ SInv  BY InitInv, SInit
<1>3. IInv /\ SInv => SurvivorGetsAll
  <2> SUFFICES ASSUME IInv, SInv, NEW p \in Peers, Survives(p), NEW i \in 1..Len(out[p])
               PROVE  out[p][i] = i /\ syn[i] = i - 1
    BY DEF SurvivorGetsAll, Survives
  <2>1. out[p][i] = i  BY DEF SInv, NothingSkipped
  <2>2. i \in 1..Len(syn)
    <3>1. out[p] \in Seq(1..Len(syn))  BY DEF IInv, TypeOK, Packets
    <3>2. out[p][i] \in 1..Len(syn)  BY <3>1
    <3>3. QED  BY <2>1, <3>2
  <2>3. QED  BY <2>1, <2>2 DEF SInv, NobodyRewinds
<1>4. QED  BY <1>1, <1>2, <1>3, PTL DEF Spec
=============================================================================
