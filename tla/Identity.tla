------------------------------ MODULE Identity ------------------------------
(***************************************************************************)
(* Who a client is: the roster of internal/accounts/accounts.go with its   *)
(* indexes by account id and by token, the file it is saved to, the logins *)
(* of internal/edge/edge.go and internal/lobby/lobby.go, and the store of  *)
(* per-account data that the HTTP side keeps (Gaia /data/me).              *)
(*                                                                         *)
(* Registering or claiming an account is one section under the store's     *)
(* mutex that ends with a save of the whole roster and is undone when the  *)
(* save fails.  The tokens are issued in a section of their own.  A file   *)
(* is rewritten in place, so a failed save leaves the old file, a torn one *)
(* or, when only the close failed, the new one.  The server does not start *)
(* from a torn roster file.                                                *)
(*                                                                         *)
(* An account id is its distance to the first one, 1000000; the seed       *)
(* account is the one that unidentified requests fall back to, and the     *)
(* file has it.  The value of a data item is the client that put it.       *)
(***************************************************************************)
EXTENDS Integers

CONSTANTS
  Seed,        \* enterpries1
  Players,     \* user names of players
  Devices,     \* user names made from device identities
  NoOne,       \* nobody
  Passwords,
  Blank,       \* the empty password
  MaxId        \* bound on account ids

Users == {Seed} \cup Players \cup Devices

ASSUME IdentityAssumption ==
  /\ Seed \notin Players \cup Devices
  /\ Players \cap Devices = {}
  /\ NoOne \notin Users
  /\ Blank \notin Passwords
  /\ MaxId \in Nat \ {0}

VARIABLES
  roster,   \* byUN: user -> Account, with id 0 where there is none
  index,    \* byID and byToken: what a client can show -> user
  disk,     \* the accounts in the file
  torn,     \* the file is not one that Load can read
  pending,  \* users whose login is accepted and not yet answered
  issued,   \* <<user, handle>>: what clients were given to identify a user
  logins,   \* <<user, password>>: the passwords that clients were let in with
  data,     \* gaiaStore: account id (0: the shared one) -> who put the data
  dataDisk  \* and in its file

vars == <<roster, index, disk, torn, pending, issued, logins, data, dataDisk>>

Account == [id : 0 .. MaxId, pwd : Passwords \cup {Blank}, temporary : BOOLEAN]
Nothing == [id |-> 0, pwd |-> Blank, temporary |-> FALSE]
Handle == {"id", "token"} \X (0 .. MaxId)

Registered(r) == {u \in Users : r[u].id # 0}

-----------------------------------------------------------------------------
(* Identity of an account.                                                 *)

\* accountIDValue and tokenStrings: tokens are made from the account id, but
\* for the seed account, whose tokens are constants (0).
Handles(u, r) == {<<"id", r[u].id>>, <<"token", IF u = Seed THEN 0 ELSE r[u].id>>}

\* indexIdentityLocked, and removeIdentityLocked.
Indexed(x, u, r) == [h \in Handle |-> IF h \in Handles(u, r) THEN u ELSE x[h]]

\* Mutant: only the token is taken back.
TokenForgotten(x, u, r) ==
  [h \in Handle |-> IF h \in Handles(u, r) /\ h[1] = "token" /\ x[h] = u THEN NoOne ELSE x[h]]

Forgotten(x, u, r) ==
  [h \in Handle |-> IF h \in Handles(u, r) /\ x[h] = u THEN NoOne ELSE x[h]]

\* Load builds the indexes anew.
IndexOf(r) ==
  [h \in Handle |-> IF \E u \in Registered(r) : h \in Handles(u, r)
                    THEN CHOOSE u \in Registered(r) : h \in Handles(u, r)
                    ELSE NoOne]

\* The indexes of a roster: every handle of an account leads to it, and no
\* handle leads to an account that was taken back.
Mirrors(x, r) ==
  /\ x \in [Handle -> Users \cup {NoOne}]
  /\ \A h \in Handle, u \in Users :
       x[h] = u <=> u \in Registered(r) /\ h \in Handles(u, r)

\* newTemporaryAccountLocked: one above the highest id of the roster.
IsNextId(id) ==
  /\ \A u \in Users : roster[u].id < id
  /\ id = 1 \/ \E u \in Users : roster[u].id = id - 1

\* accountFromRequest, and the fallback of the handlers.
Resolve(h) == IF index[h] = NoOne THEN Seed ELSE index[h]

-----------------------------------------------------------------------------
(* saveLocked: os.WriteFile, which is done or fails in one of three ways.  *)

Saves(r) == disk' = r /\ torn' = FALSE

SaveFails(r) ==
  \/ UNCHANGED <<disk, torn>>
  \/ torn' = TRUE /\ UNCHANGED disk
  \/ Saves(r)

-----------------------------------------------------------------------------
\* The common part of AuthenticateOrCreate, EnsureTemporary and EnsureDevice
\* for a user the roster does not have.  answer: who is answered afterwards.
Register(u, pwd, id, answer) ==
  LET new == [id |-> id, pwd |-> pwd, temporary |-> TRUE]
      r == [roster EXCEPT ![u] = new]
      x == Indexed(index, u, r)
  IN /\ roster[u].id = 0 /\ IsNextId(id)
     /\ \/ roster' = r /\ index' = x /\ pending' = pending \cup answer /\ Saves(r)
        \/ roster' = roster /\ index' = Forgotten(x, u, r) /\ SaveFails(r)
             /\ pending' = pending \cup (IF u \in Devices THEN {Seed} ELSE {})

\* The logins with a password are remembered.
LetIn(u, pwd) == IF pwd = Blank THEN logins ELSE logins \cup {<<u, pwd>>}

\* AuthenticateOrCreate, unknown user.
LoginNew(u, pwd) ==
  /\ \E id \in 1 .. MaxId : Register(u, pwd, id, {u})
  /\ logins' = IF u \in pending' THEN LetIn(u, pwd) ELSE logins
  /\ UNCHANGED <<issued, data, dataDisk>>

\* AuthenticateOrCreate, known user and the password is right.
LoginKnown(u, pwd) ==
  /\ roster[u].id # 0 /\ roster[u].pwd = pwd
  /\ pending' = pending \cup {u}
  /\ logins' = LetIn(u, pwd)
  /\ UNCHANGED <<roster, index, disk, torn, issued, data, dataDisk>>

\* Mutant: the claim is not undone, and not refused, when it is not saved.
ClaimUnsaved(u, pwd) ==
  LET r == [roster EXCEPT ![u] = [@ EXCEPT !.pwd = pwd]] IN
  /\ roster[u].id # 0 /\ roster[u].temporary /\ roster[u].pwd = Blank
  /\ roster' = r
  /\ pending' = pending \cup {u}
  /\ logins' = LetIn(u, pwd)
  /\ Saves(r) \/ SaveFails(r)
  /\ UNCHANGED <<index, issued, data, dataDisk>>

\* AuthenticateOrCreate: the first login with a password claims an account
\* that the lobby made without one.
Claim(u, pwd) ==
  LET old == roster[u]
      r == [roster EXCEPT ![u] = [id |-> old.id, pwd |-> pwd, temporary |-> TRUE]]
  IN /\ old.id # 0 /\ old.temporary /\ old.pwd = Blank
     /\ \/ /\ roster' = r /\ Saves(r)
           /\ pending' = pending \cup {u}
           /\ logins' = LetIn(u, pwd)
        \/ SaveFails(r) /\ UNCHANGED <<roster, pending, logins>>
     /\ UNCHANGED <<index, issued, data, dataDisk>>

\* 0x1203 of the lobby, for a user it does not find: EnsureTemporary.  The
\* session falls back to the seed account when that fails.
LobbyLogin(u) ==
  /\ \E id \in 1 .. MaxId : Register(u, Blank, id, {})
  /\ UNCHANGED <<logins, issued, data, dataDisk>>

\* handleAuth of a device, which is answered as the seed account when its own
\* cannot be made, and of a client that says nothing of itself.
Bootstrap(d) ==
  /\ \/ \E id \in 1 .. MaxId : Register(d, Blank, id, {d})
     \/ /\ roster[d].id # 0
        /\ pending' = pending \cup {d}
        /\ UNCHANGED <<roster, index, disk, torn>>
  /\ UNCHANGED <<logins, issued, data, dataDisk>>

BootstrapNobody ==
  /\ pending' = pending \cup {Seed}
  /\ UNCHANGED <<roster, index, disk, torn, logins, issued, data, dataDisk>>

\* AuthSuccessJSONScope and TokensFor: the tokens are issued, and indexed.
Answer(u) ==
  /\ u \in pending
  /\ pending' = pending \ {u}
  /\ index' = Indexed(index, u, roster)
  /\ issued' = issued \cup ({u} \X Handles(u, roster))
  /\ UNCHANGED <<roster, disk, torn, logins, data, dataDisk>>

\* handleEncryptToken and handleProfile: tokens for whoever the client is
\* taken for, which it uses as its own from then on.
Renew(u, h) ==
  /\ <<u, h>> \in issued
  /\ index' = Indexed(index, Resolve(h), roster)
  /\ issued' = issued \cup ({u} \X Handles(Resolve(h), roster))
  /\ UNCHANGED <<roster, disk, torn, pending, logins, data, dataDisk>>

\* Every other mutation of the store saves the whole roster, too, and most of
\* them ignore the error.
Mutate ==
  /\ Saves(roster) \/ SaveFails(roster)
  /\ UNCHANGED <<roster, index, pending, issued, logins, data, dataDisk>>

\* Mutant: the data of all accounts is under one key.
SharedKey(u) == 0

\* gaiaAccountKey.
DataKey(u) == IF u = Seed THEN 0 ELSE roster[u].id

\* handleGaiaData with a body, or a first look at the client data, which seeds
\* it.  gaiaSave rewrites the file and nobody hears of its errors.
PutData(u, h) ==
  /\ <<u, h>> \in issued
  /\ data' = [data EXCEPT ![DataKey(Resolve(h))] = u]
  /\ \/ dataDisk' = data'
     \/ UNCHANGED dataDisk
     \/ dataDisk' = [n \in 0 .. MaxId |-> NoOne]
  /\ UNCHANGED <<roster, index, disk, torn, pending, issued, logins>>

\* The server stops and starts again from its files.  A torn data file counts
\* as empty; a torn roster is fatal.
Restart ==
  /\ ~torn
  /\ roster' = disk
  /\ index' = IndexOf(disk)
  /\ pending' = {}
  /\ data' = dataDisk
  /\ UNCHANGED <<disk, torn, issued, logins, dataDisk>>

-----------------------------------------------------------------------------
\* A file with the seed account, as it is shipped.
Init ==
  /\ \E pwd \in Passwords :
       roster = [u \in Users |->
         IF u = Seed THEN [id |-> 1, pwd |-> pwd, temporary |-> FALSE] ELSE Nothing]
  /\ index = IndexOf(roster)
  /\ disk = roster
  /\ torn = FALSE
  /\ pending = {}
  /\ issued = {}
  /\ logins = {}
  /\ data = [n \in 0 .. MaxId |-> NoOne]
  /\ dataDisk = [n \in 0 .. MaxId |-> NoOne]

Next ==
  \/ \E u \in Players, pwd \in Passwords \cup {Blank} : LoginNew(u, pwd)
  \/ \E u \in Players \cup {Seed}, pwd \in Passwords \cup {Blank} : LoginKnown(u, pwd)
  \/ \E u \in Players, pwd \in Passwords : Claim(u, pwd)
  \/ \E u \in Players : LobbyLogin(u)
  \/ \E d \in Devices : Bootstrap(d)
  \/ BootstrapNobody
  \/ \E u \in Users : Answer(u)
  \/ \E u \in Users, h \in Handle : Renew(u, h) \/ PutData(u, h)
  \/ Mutate
  \/ Restart

Spec == Init /\ [][Next]_vars

-----------------------------------------------------------------------------
\* No two accounts have an id in common, in the server and in its file.
IdsDistinct(r) == \A u, v \in Registered(r) : r[u].id = r[v].id => u = v

\* Types, and the indexes are those of the roster.
TypeOK ==
  /\ roster \in [Users -> Account] /\ disk \in [Users -> Account]
  /\ torn \in BOOLEAN
  /\ pending \subseteq Registered(roster)
  /\ issued \subseteq Users \X Handle
  /\ logins \subseteq Users \X Passwords
  /\ data \in [0 .. MaxId -> Users \cup {NoOne}]
  /\ dataDisk \in [0 .. MaxId -> Users \cup {NoOne}]
  /\ Mirrors(index, roster)

\* A token or account id that was ever given to the client of a user leads to
\* that user's account and to data that no one else has put there, however
\* many registrations were undone and however often the server was restarted
\* from a file that a failed save left behind.
TokensLeadHome ==
  \A u \in Users, h \in Handle : <<u, h>> \in issued =>
    /\ index[h] = u
    /\ u # Seed => data[DataKey(u)] \in {u, NoOne}

\* A password that let a player in is the password of the account for good:
\* it is not forgotten by a restart, and nobody claims the account after it.
AcceptedLoginsStay ==
  \A u \in Users, pwd \in Passwords :
    <<u, pwd>> \in logins => roster[u].pwd = pwd /\ (~torn => disk[u].pwd = pwd)
=============================================================================
