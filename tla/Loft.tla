-------------------------------- MODULE Loft --------------------------------
(***************************************************************************)
(* The tablets of one account: internal/accounts/tablets.go, and the       *)
(* Kitabe requests of internal/gs/trade/trade.go that work on them.        *)
(*                                                                         *)
(* A client addresses a tablet by its position in the owned vector.  A     *)
(* handler looks the position up in a copy of the vector and then runs     *)
(* account mutations, each one section under the store's mutex, with the   *)
(* stable UID of the copy it found.  Every game connection of the account  *)
(* has its own handler goroutine, so sections of two requests interleave.  *)
(* A restart runs the load-time normalisation; an older server binary may  *)
(* have rewritten the file in between and know only the legacy mirror.     *)
(*                                                                         *)
(* Every section saves and ignores the error; a lost save followed by a    *)
(* restart returns to an earlier state of this model, and the file itself  *)
(* is a subject of module Friends.  The inscriptions in a tablet's sockets *)
(* and everything a purchase costs are in module Purse; the selected page, *)
(* a number that no section here reads, is left out.                       *)
(***************************************************************************)
EXTENDS Account, Integers, Sequences, SequencesExt, FiniteSets, FiniteSetsExt

CONSTANTS
  Ids,         \* tablet prototypes
  Keys,        \* page slots, as <<page, slot>>
  Cost,        \* config.KitabeSleepEmblem
  MaxOwned,    \* bound on the copies of a legacy record
  MaxCopies,   \* bound on the copies that a purchase leads to
  MaxEmblem    \* bound on the wallet

ASSUME LoftAssumption ==
  /\ None \notin Ids
  /\ Keys \subseteq Nat \X Nat /\ IsFiniteSet(Keys)
  /\ Cost \in Nat \ {0}
  /\ {MaxOwned, MaxCopies, MaxUid, MaxEmblem} \subseteq Nat

VARIABLES
  inst,    \* Account.TabletInstances, the owned vector in wire order
  slots,   \* Account.Tablets: the UID in each page slot, 0 for none
  emblem,  \* Account.Emblem, for the two currencies of an unlock
  asked    \* asked[c]: the request that connection c serves

loft == <<inst, slots, next>>
loftVars == <<inst, slots, next, emblem, asked>>

Instance == [uid : 1 .. MaxUid, id : Ids, awake : BOOLEAN]

\* A request after its look-up, and the UID it addresses.
Request == [at : {"idle", "wear", "wake", "delete", "sleep"},
            uid : 0 .. MaxUid, key : Keys \cup {None}]

NoRequest == [at |-> "idle", uid |-> 0, key |-> None]

Uids(v) == {v[i].uid : i \in DOMAIN v}
Place(v, uid) == CHOOSE i \in DOMAIN v : v[i].uid = uid
Copy(v, uid) == v[Place(v, uid)]

LoftTypeOK ==
  /\ inst \in Seq(Instance)
  /\ slots \in [Keys -> 0 .. MaxUid]
  /\ next \in 1 .. MaxUid + 1
  /\ emblem \in 0 .. MaxEmblem
  /\ asked \in [Conns -> Request]

-----------------------------------------------------------------------------
(* Legacy records: owned ids, ids that are ascended, ids on the pages.     *)

\* The last of some page slots, in page and slot order.
LastKey(K) ==
  CHOOSE k \in K : \A l \in K : l[1] < k[1] \/ (l[1] = k[1] /\ l[2] <= k[2])

\* The UID of the first copy of an id that is not taken, 0 if there is none.
FirstCopy(v, id, taken) ==
  LET found == {i \in DOMAIN v : v[i].id = id /\ v[i].uid \notin taken}
  IN IF found = {} THEN 0 ELSE v[Min(found)].uid

\* Mutant: only the copies on a page are mirrored as ascended.
MirrorWorn(v, s) ==
  [owned |-> [i \in DOMAIN v |-> v[i].id],
   awake |-> {v[i].id : i \in {j \in DOMAIN v : v[j].awake /\ \E k \in Keys : s[k] = v[j].uid}},
   slots |-> [k \in Keys |-> IF s[k] \in Uids(v) THEN Copy(v, s[k]).id ELSE None]]

\* syncTabletMirrorLocked: what an older binary reads of the loft.  An id is
\* ascended when any copy is.
Mirror(v, s) ==
  [owned |-> [i \in DOMAIN v |-> v[i].id],
   awake |-> {v[i].id : i \in {j \in DOMAIN v : v[j].awake}},
   slots |-> [k \in Keys |-> IF s[k] \in Uids(v) THEN Copy(v, s[k]).id ELSE None]]

\* First half of ensureTabletInstancesLocked: one instance per owned id.
Unbound(r) ==
  [inst |-> [i \in DOMAIN r.owned |->
     [uid |-> i, id |-> r.owned[i], awake |-> r.owned[i] \in r.awake]],
   slots |-> [k \in Keys |-> 0],
   next |-> Len(r.owned) + 1,
   bound |-> [d \in Ids |-> 0]]

\* Second half: a slot takes the copy that its id has on another page, or else
\* a copy that is not on its page yet.  A second slot of the only copy is
\* dropped; an id without a copy gets one.
Bind(r, m, key) ==
  LET id == r.slots[key]
      taken == {m.slots[k] : k \in {k \in Keys : k[1] = key[1]}} \ {0}
      free == FirstCopy(m.inst, id, taken)
      uid == IF m.bound[id] \in taken \cup {0} THEN free ELSE m.bound[id]
      new == [uid |-> m.next, id |-> id, awake |-> id \in r.awake]
  IN IF id = None THEN m
     ELSE IF uid # 0 THEN
          [inst |-> m.inst, slots |-> [m.slots EXCEPT ![key] = uid],
           next |-> m.next, bound |-> [m.bound EXCEPT ![id] = uid]]
     ELSE IF FirstCopy(m.inst, id, {}) # 0 THEN m
     ELSE [inst |-> Append(m.inst, new), slots |-> [m.slots EXCEPT ![key] = m.next],
           next |-> m.next + 1, bound |-> [m.bound EXCEPT ![id] = m.next]]

\* ensureTabletInstancesLocked on a record without instances: the slots are
\* bound in order, the last one after all the others.
Migrate(r) ==
  MapThenFoldSet(LAMBDA key, m : Bind(r, m, key), Unbound(r), LAMBDA key : key, LastKey, Keys)

\* normalizeDuplicateTabletsLocked: what Load makes of the page slots.
Normalize(v, s) ==
  [k \in Keys |->
     IF \/ s[k] \notin Uids(v)
        \/ \E l \in Keys : l[1] = k[1] /\ l[2] < k[2] /\ s[l] = s[k]
     THEN 0 ELSE s[k]]

-----------------------------------------------------------------------------
(* The account mutations, each one section.  tabletIndexByUIDLocked comes  *)
(* first: a mutation of a copy that is gone does nothing.                  *)

Rewrite(uid, awake) ==
  inst' = [i \in DOMAIN inst |->
             IF inst[i].uid = uid THEN [inst[i] EXCEPT !.awake = awake] ELSE inst[i]]

\* Mutant: the copy is taken to be there still.
EquipUnchecked(key, uid) ==
  slots' = [k \in Keys |-> IF k = key THEN uid
                             ELSE IF k[1] = key[1] /\ slots[k] = uid THEN 0 ELSE slots[k]]

\* EquipTablet: out of the other slots of the page, into this one.
EquipTablet(key, uid) ==
  IF uid \in Uids(inst)
  THEN slots' = [k \in Keys |-> IF k = key THEN uid
                                  ELSE IF k[1] = key[1] /\ slots[k] = uid THEN 0 ELSE slots[k]]
  ELSE slots' = slots

SetTabletAwake(uid) == Rewrite(uid, TRUE)

\* DeleteTablet: off every page, and later positions shift down.
DeleteTablet(uid) ==
  IF uid \in Uids(inst)
  THEN /\ inst' = RemoveAt(inst, Place(inst, uid))
       /\ slots' = [k \in Keys |-> IF slots[k] = uid THEN 0 ELSE slots[k]]
  ELSE UNCHANGED <<inst, slots>>

\* Mutant: the flag is not looked at before the wallet is.
SleepAgain(uid) ==
  IF uid \in Uids(inst) /\ emblem >= Cost
  THEN emblem' = emblem - Cost /\ Rewrite(uid, FALSE)
  ELSE UNCHANGED <<emblem, inst>>

\* SleepTablet: charged and cleared together; repeated, it is free.
SleepTablet(uid) ==
  IF uid \in Uids(inst) /\ Copy(inst, uid).awake /\ emblem >= Cost
  THEN emblem' = emblem - Cost /\ Rewrite(uid, FALSE)
  ELSE UNCHANGED <<emblem, inst>>

-----------------------------------------------------------------------------
(* The requests.                                                           *)

\* tabletAt, TabletAt: a position of the owned vector as it is now.
At(i) == IF i \in DOMAIN inst THEN inst[i].uid ELSE 0

Begin(c, r) ==
  /\ asked[c] = NoRequest
  /\ r.uid # 0
  /\ asked' = [asked EXCEPT ![c] = r]
  /\ UNCHANGED <<inst, slots, next, emblem>>

\* 0x4b, 0x4d (and 0x4f with its ascend flag), 0x53, 0x4e up to the mutation.
AskWear(c, i, key) == Begin(c, [at |-> "wear", uid |-> At(i), key |-> key])
AskWake(c, i) == Begin(c, [at |-> "wake", uid |-> At(i), key |-> None])
AskDelete(c, i) == Begin(c, [at |-> "delete", uid |-> At(i), key |-> None])
AskSleep(c, i) == Begin(c, [at |-> "sleep", uid |-> At(i), key |-> None])

Done(c) == asked' = [asked EXCEPT ![c] = NoRequest]

Wear(c) ==
  /\ asked[c].at = "wear"
  /\ EquipTablet(asked[c].key, asked[c].uid)
  /\ Done(c)
  /\ UNCHANGED <<inst, next, emblem>>

\* Mutant: the UID is taken for a position.
WakeByPosition(c) ==
  /\ asked[c].at = "wake"
  /\ inst' = [i \in DOMAIN inst |->
       IF i = asked[c].uid THEN [inst[i] EXCEPT !.awake = TRUE] ELSE inst[i]]
  /\ Done(c)
  /\ UNCHANGED <<slots, next, emblem>>

Wake(c) ==
  /\ asked[c].at = "wake"
  /\ SetTabletAwake(asked[c].uid)
  /\ Done(c)
  /\ UNCHANGED <<slots, next, emblem>>

Delete(c) ==
  /\ asked[c].at = "delete"
  /\ DeleteTablet(asked[c].uid)
  /\ Done(c)
  /\ UNCHANGED <<next, emblem>>

Sleep(c) ==
  /\ asked[c].at = "sleep"
  /\ SleepTablet(asked[c].uid)
  /\ Done(c)
  /\ UNCHANGED <<slots, next>>

\* 0x4c: one mutation, and no position to look up.
Unequip(key) ==
  /\ slots' = [slots EXCEPT ![key] = 0]
  /\ UNCHANGED <<inst, next, emblem, asked>>

\* grantTabletLocked for a purchase, a reward or a pack.
Grant(id) ==
  /\ Len(inst) < MaxCopies
  /\ next <= MaxUid
  /\ inst' = Append(inst, [uid |-> next, id |-> id, awake |-> FALSE])
  /\ next' = next + 1
  /\ UNCHANGED <<slots, emblem, asked>>

\* The server stops in the middle of the requests and loads the file.
Load ==
  /\ asked' = [c \in Conns |-> NoRequest]
  /\ slots' = Normalize(inst, slots)
  /\ UNCHANGED <<inst, next, emblem>>

\* An older binary runs between two runs of the server: it writes back the
\* legacy fields only.
OldBinary ==
  LET m == Migrate(Mirror(inst, slots)) IN
  /\ \A c \in Conns : asked[c] = NoRequest
  /\ inst' = m.inst
  /\ slots' = m.slots
  /\ next' = m.next
  /\ UNCHANGED <<emblem, asked>>

\* cmd/clear-ascension on the store of a stopped server, and the load that
\* follows it.
ClearAscension ==
  /\ \A c \in Conns : asked[c] = NoRequest
  /\ inst' = [i \in DOMAIN inst |-> [inst[i] EXCEPT !.awake = FALSE]]
  /\ slots' = Normalize(inst, slots)
  /\ UNCHANGED <<next, emblem, asked>>

\* The copy that cmd/restore-tablet-pages takes for an id: one that serves it
\* on some page (a Go map says which), or else the first one, or none.
Serving(id) ==
  LET serving == {slots[k] : k \in {l \in Keys : slots[l] # 0 /\ Copy(inst, slots[l]).id = id}}
  IN IF serving = {} THEN {FirstCopy(inst, id, {})} ELSE serving

\* cmd/restore-tablet-pages: every slot of the backup that the store lacks, and
\* the load that follows.
RestorePages ==
  /\ \A c \in Conns : asked[c] = NoRequest
  /\ \E uid \in [Ids -> 0 .. MaxUid] :
       /\ \A id \in Ids : uid[id] \in Serving(id)
       /\ \E backup \in [Keys -> Ids \cup {None}] :
            slots' = Normalize(inst,
              [k \in Keys |-> IF slots[k] = 0 /\ backup[k] # None THEN uid[backup[k]]
                              ELSE slots[k]])
  /\ UNCHANGED <<inst, next, emblem, asked>>

-----------------------------------------------------------------------------
\* Legacy records: some owned copies, and any ids on the pages, one of them
\* perhaps twice on a page or not owned.
Legacy ==
  [owned : UNION {[1 .. n -> Ids] : n \in 0 .. MaxOwned}, awake : SUBSET Ids,
   slots : [Keys -> Ids \cup {None}]]

LoftInit ==
  /\ \E r \in Legacy :
       LET m == Migrate(r) IN
       /\ m.next <= MaxUid + 1
       /\ inst = m.inst
       /\ slots = m.slots
       /\ next = m.next
  /\ emblem = MaxEmblem
  /\ asked = [c \in Conns |-> NoRequest]

LoftNext ==
  \/ \E c \in Conns :
       \/ \E i \in 1 .. MaxUid :
            \/ \E key \in Keys : AskWear(c, i, key)
            \/ AskWake(c, i) \/ AskDelete(c, i) \/ AskSleep(c, i)
       \/ Wear(c) \/ Wake(c) \/ Delete(c) \/ Sleep(c)
  \/ \E key \in Keys : Unequip(key)
  \/ \E id \in Ids : Grant(id)
  \/ Load \/ OldBinary \/ ClearAscension \/ RestorePages

LoftSpec == LoftInit /\ [][LoftNext]_loftVars

-----------------------------------------------------------------------------
\* A page slot holds a copy that is owned, a page holds a copy once, and a UID
\* names one copy, whatever legacy record the loft came from and however
\* requests that looked their position up earlier cross a deletion.
SlotsHoldOwnedCopies ==
  /\ LoftTypeOK
  /\ \A k, l \in Keys : slots[k] # 0 =>
       /\ slots[k] \in Uids(inst)
       /\ k # l /\ k[1] = l[1] => slots[k] # slots[l]
  /\ \A i, j \in DOMAIN inst : inst[i].uid = inst[j].uid => i = j
  /\ \A i \in DOMAIN inst : inst[i].uid < next

\* A position that has shifted never hits another tablet: what a step of a
\* request changes or removes is the copy its client addressed, and the copies
\* it leaves keep their place.
OnlyTheAddressedCopy ==
  [][\A c \in Conns : asked[c].at # "idle" /\ asked'[c] # asked[c] /\ ~Load =>
       \A i \in DOMAIN inst : inst[i].uid # asked[c].uid =>
         \E j \in {i, i - 1} : j \in DOMAIN inst' /\ inst'[j] = inst[i]]_loftVars

\* SetTabletAwake: "only a paid unlock (SleepTablet) or deletion clears it",
\* once per unlock, however often and on how many connections it is asked for,
\* and never on credit; the tool that clears all flags is the exception.
AscensionIsPaidOff ==
  [][LET slept == {i \in DOMAIN inst : inst[i].awake /\ \E j \in DOMAIN inst' :
                     inst'[j].uid = inst[i].uid /\ ~inst'[j].awake}
     IN \/ emblem' >= 0 /\ emblem' = emblem - Cost * Cardinality(slept)
        \/ OldBinary \/ ClearAscension]_loftVars

\* Coming up again costs a player no tablet of a page.  The normalisation finds
\* nothing to drop in what this server wrote; a visit to the older binary, for
\* which the mirror is "still written so an older server binary can read the
\* file", keeps every copy, slot and ascension; and restoring pages from a
\* backup may move a copy within its page, but takes none off.
LoadingLosesNothing ==
  [][/\ loft' = loft \/ ~Load
     /\ \/ /\ [i \in DOMAIN inst |-> inst[i].id] = [i \in DOMAIN inst' |-> inst'[i].id]
           /\ \A k \in Keys :
                IF slots[k] = 0 THEN slots'[k] = 0
                ELSE slots'[k] # 0 /\ Copy(inst', slots'[k]).id = Copy(inst, slots[k]).id
           /\ \A i \in DOMAIN inst : inst[i].awake => inst'[i].awake
        \/ ~OldBinary
     /\ \/ \A k \in Keys : slots[k] # 0 =>
             \E l \in Keys : l[1] = k[1] /\ slots'[l] = slots[k]
        \/ ~RestorePages]_loftVars
=============================================================================
