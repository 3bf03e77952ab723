--------------------------- MODULE SeatLifecycle ---------------------------
(***************************************************************************)
(* What the reconnect machinery of a running match promises for each seat, *)
(* whatever connections, timers and retries do underneath: a seat is only  *)
(* ever resumed out of a reservation, a reservation is only ever made for  *)
(* a player in the match, a reservation always ends, and a seat that was   *)
(* given up or vacated does not come back.  MatchHold implements it.       *)
(***************************************************************************)
CONSTANT Players

VARIABLE seat

Phases == {"loading", "playing", "reserved", "idle", "vacant"}

Move(p, from, to) == seat[p] \in from /\ seat' = [seat EXCEPT ![p] = to]

Init == seat = [p \in Players |-> "loading"]

Begin(p)   == Move(p, {"loading"}, "playing")
Reserve(p) == Move(p, {"playing"}, "reserved")
Resume(p)  == Move(p, {"reserved"}, "playing")
GiveUp(p)  == Move(p, {"loading", "playing", "reserved"}, "idle")
Leave(p)   == Move(p, Phases \ {"vacant"}, "vacant")

Next == \E p \in Players :
          Begin(p) \/ Reserve(p) \/ Resume(p) \/ GiveUp(p) \/ Leave(p)

\* A reservation does not last: its holder comes back or its timer runs out.
EndReservation(p) == seat[p] = "reserved" /\ (Resume(p) \/ GiveUp(p) \/ Leave(p))

Spec == Init /\ [][Next]_seat /\ \A p \in Players : WF_seat(EndReservation(p))
=============================================================================
