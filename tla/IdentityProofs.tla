--------------------------- MODULE IdentityProofs ---------------------------
(***************************************************************************)
(* Proofs about Identity, for any players, devices and passwords: a handle *)
(* leads to the account it was given for, and a password that let a player *)
(* in stays.  Neither is inductive: a restart brings back the file, so the *)
(* invariant says that a file that can be read keeps what the roster has,  *)
(* that ids differ in both, and whose every data item is.                  *)
(***************************************************************************)
EXTENDS Identity, TLAPS

\* d has the accounts of r, and their passwords.
Keeps(d, r) ==
  \A u \in Users : r[u].id # 0 =>
    d[u].id = r[u].id /\ (r[u].pwd # Blank => d[u].pwd = r[u].pwd)

Fine(r) == r \in [Users -> Account] /\ IdsDistinct(r) /\ r[Seed].id # 0

\* Handles are given for accounts that exist; so are logins and data.
Given(r) ==
  \A u \in Users, h \in Handle : <<u, h>> \in issued => r[u].id # 0 /\ h \in Handles(u, r)

LoggedIn(r) ==
  \A u \in Users, pwd \in Passwords :
    <<u, pwd>> \in logins => r[u].id # 0 /\ r[u].pwd = pwd

Owned(d, r) == \A n \in 1 .. MaxId, u \in Users : d[n] = u => r[u].id = n

\* The inductive invariant.
IInv ==
  /\ TypeOK
  /\ Fine(roster) /\ Fine(disk)
  /\ ~torn => Keeps(disk, roster)
  /\ Given(roster)
  /\ LoggedIn(roster)
  /\ Owned(data, roster) /\ Owned(dataDisk, roster)

-----------------------------------------------------------------------------
LEMMA SeedIsUser == Seed \in Users /\ NoOne \notin Users
  BY IdentityAssumption DEF Users

LEMMA HandlesAreHandles ==
  ASSUME NEW r \in [Users -> Account], NEW u \in Users
  PROVE  Handles(u, r) \subseteq Handle
<1>1. r[u].id \in 0 .. MaxId /\ 0 \in 0 .. MaxId
  BY IdentityAssumption DEF Account
<1> QED
  BY <1>1 DEF Handles, Handle

\* Two accounts with different ids have no handle in common.
LEMMA HandlesApart ==
  ASSUME NEW r, NEW u \in Users, NEW v \in Users, r[u].id # 0, r[v].id # 0,
         r[u].id # r[v].id
  PROVE  Handles(u, r) \cap Handles(v, r) = {}
<1>1. u = Seed => v # Seed
  OBVIOUS
<1> QED
  BY <1>1 DEF Handles

\* Handles depend on the id only.
LEMMA SameHandles ==
  ASSUME NEW r, NEW s, NEW u, r[u].id = s[u].id
  PROVE  Handles(u, r) = Handles(u, s)
  BY DEF Handles

-----------------------------------------------------------------------------
\* A roster that has all the accounts keeps what was given, accepted and put.
LEMMA KeptFacts ==
  ASSUME IInv, NEW r, Keeps(r, roster)
  PROVE  Given(r) /\ LoggedIn(r) /\ Owned(data, r) /\ Owned(dataDisk, r)
<1>1. Given(r)
  <2> SUFFICES ASSUME NEW u \in Users, NEW h \in Handle, <<u, h>> \in issued
               PROVE  r[u].id # 0 /\ h \in Handles(u, r)
    BY DEF Given
  <2>1. roster[u].id # 0 /\ h \in Handles(u, roster)
    BY DEF IInv, Given
  <2>2. r[u].id = roster[u].id
    BY <2>1 DEF Keeps
  <2> QED
    BY <2>1, <2>2, SameHandles
<1>2. LoggedIn(r)
  <2> SUFFICES ASSUME NEW u \in Users, NEW pwd \in Passwords, <<u, pwd>> \in logins
               PROVE  r[u].id # 0 /\ r[u].pwd = pwd
    BY DEF LoggedIn
  <2>1. roster[u].id # 0 /\ roster[u].pwd = pwd
    BY DEF IInv, LoggedIn
  <2>2. pwd # Blank
    BY IdentityAssumption
  <2> QED
    BY <2>1, <2>2 DEF Keeps
<1>3. ASSUME NEW d, Owned(d, roster) PROVE Owned(d, r)
  <2> SUFFICES ASSUME NEW n \in 1 .. MaxId, NEW u \in Users, d[n] = u PROVE r[u].id = n
    BY DEF Owned
  <2>1. roster[u].id = n /\ n # 0
    BY <1>3 DEF Owned
  <2> QED
    BY <2>1 DEF Keeps
<1> QED
  BY <1>1, <1>2, <1>3 DEF IInv

\* A save, done or failed, leaves a fine file that keeps the roster.
LEMMA SaveStep ==
  ASSUME IInv, NEW r, Fine(r), Keeps(r, roster), Saves(r) \/ SaveFails(r)
  PROVE  Fine(disk') /\ torn' \in BOOLEAN /\ (~torn' => Keeps(disk', roster))
  BY DEF IInv, Saves, SaveFails, TypeOK

LEMMA KeepsItself == Keeps(roster, roster)
  BY DEF Keeps

-----------------------------------------------------------------------------
\* A new account: the roster stays fine, its handles were nobody's.
LEMMA NewAccount ==
  ASSUME IInv, NEW u \in Users \ {Seed}, NEW pwd \in Passwords \cup {Blank},
         NEW id \in 1 .. MaxId, roster[u].id = 0, IsNextId(id),
         NEW r, r = [roster EXCEPT ![u] = [id |-> id, pwd |-> pwd, temporary |-> TRUE]]
  PROVE  /\ Fine(r) /\ Keeps(r, roster)
         /\ Mirrors(Indexed(index, u, r), r)
         /\ Forgotten(Indexed(index, u, r), u, r) = index
<1> USE SeedIsUser
<1> DEFINE new == [id |-> id, pwd |-> pwd, temporary |-> TRUE]
<1>1. /\ roster \in [Users -> Account]
      /\ \A v \in Users : roster[v].id \in 0 .. MaxId
      /\ \A v \in Users : roster[v].id < id
  BY DEF IInv, Fine, IsNextId, Account
<1>2. new \in Account
  BY IdentityAssumption DEF Account
<1>3. r \in [Users -> Account]
  BY <1>1, <1>2
<1>4. r[u].id = id /\ r[u].pwd = pwd
  BY <1>1
<1>5. \A v \in Users : v # u => r[v] = roster[v]
  BY <1>1
<1> HIDE DEF new
<1>6. id # 0
  OBVIOUS
<1>7. IdsDistinct(r)
  <2> SUFFICES ASSUME NEW v \in Users, NEW w \in Users, r[v].id # 0, r[w].id # 0,
                      r[v].id = r[w].id
               PROVE  v = w
    BY DEF IdsDistinct, Registered
  <2>1. CASE v # u /\ w # u
    BY <2>1, <1>5 DEF IInv, Fine, IdsDistinct, Registered
  <2>2. CASE v = u /\ w # u
    BY <2>2, <1>1, <1>4, <1>5
  <2>3. CASE v # u /\ w = u
    BY <2>3, <1>1, <1>4, <1>5
  <2> QED
    BY <2>1, <2>2, <2>3
<1>8. r[Seed].id # 0
  BY <1>5 DEF IInv, Fine
<1>9. Fine(r) /\ Keeps(r, roster)
  BY <1>3, <1>5, <1>7, <1>8 DEF Fine, Keeps
<1>10. \A v \in Users : v # u => Handles(v, r) = Handles(v, roster)
  BY <1>5, SameHandles
<1>11. Mirrors(index, roster) /\ index \in [Handle -> Users \cup {NoOne}]
  BY DEF IInv, TypeOK, Mirrors
<1>12. \A h \in Handles(u, r) : h \in Handle /\ index[h] = NoOne
  <2> SUFFICES ASSUME NEW h \in Handles(u, r) PROVE h \in Handle /\ index[h] = NoOne
    OBVIOUS
  <2>1. h \in Handle
    BY <1>3, HandlesAreHandles
  <2>2. index[h] \in Users \cup {NoOne}
    BY <1>11, <2>1
  <2>3. ASSUME index[h] \in Users PROVE FALSE
    <3> DEFINE v == index[h]
    <3>1. roster[v].id # 0 /\ h \in Handles(v, roster)
      BY <1>11, <2>1, <2>3 DEF Mirrors, Registered
    <3>2. v # u
      BY <3>1
    <3>3. h \in Handles(v, r)
      BY <1>10, <2>3, <3>1, <3>2
    <3> HIDE DEF v
    <3>4. v \in Users
      BY <2>3 DEF v
    <3>5. r[v] = roster[v] /\ roster[v].id < id
      BY <1>1, <1>5, <3>2, <3>4
    <3>6. r[v].id # 0 /\ r[v].id # r[u].id
      BY <1>1, <1>4, <3>1, <3>4, <3>5
    <3> QED
      BY <1>4, <1>6, <3>3, <3>4, <3>6, HandlesApart
  <2> QED
    BY <2>1, <2>2, <2>3
<1> DEFINE x == Indexed(index, u, r)
<1>13. /\ x \in [Handle -> Users \cup {NoOne}]
       /\ \A h \in Handle : x[h] = IF h \in Handles(u, r) THEN u ELSE index[h]
  BY <1>11 DEF Indexed
<1>14. Mirrors(x, r)
  <2> HIDE DEF x
  <2> SUFFICES ASSUME NEW h \in Handle, NEW v \in Users
               PROVE  x[h] = v <=> r[v].id # 0 /\ h \in Handles(v, r)
    BY <1>13, ZenonT(60) DEF Mirrors, Registered
  <2>1. index[h] = v <=> roster[v].id # 0 /\ h \in Handles(v, roster)
    BY <1>11 DEF Mirrors, Registered
  <2>2. CASE v = u
    BY <2>1, <2>2, <1>4, <1>6, <1>12, <1>13
  <2>3. CASE v # u /\ h \in Handles(u, r)
    <3>1. ~(r[v].id # 0 /\ h \in Handles(v, r))
      <4> SUFFICES ASSUME r[v].id # 0, h \in Handles(v, r) PROVE FALSE
        OBVIOUS
      <4>1. r[v].id # r[u].id /\ r[u].id # 0
        BY <1>1, <1>4, <1>5, <1>6, <2>3
      <4> QED
        BY <4>1, <2>3, HandlesApart
    <3> QED
      BY <3>1, <2>3, <1>13
  <2>4. CASE v # u /\ h \notin Handles(u, r)
    BY <2>1, <2>4, <1>5, <1>10, <1>13
  <2> QED
    BY <2>2, <2>3, <2>4
<1>15. Forgotten(x, u, r) = index
  <2>1. \A h \in Handle : Forgotten(x, u, r)[h] = index[h]
    <3> SUFFICES ASSUME NEW h \in Handle PROVE Forgotten(x, u, r)[h] = index[h]
      OBVIOUS
    <3>1. Forgotten(x, u, r)[h] = IF h \in Handles(u, r) /\ x[h] = u THEN NoOne ELSE x[h]
      BY DEF Forgotten
    <3>2. x[h] = IF h \in Handles(u, r) THEN u ELSE index[h]
      BY <1>13
    <3> HIDE DEF x
    <3> QED
      BY <3>1, <3>2, <1>12
  <2>2. Forgotten(x, u, r) = [h \in Handle |-> Forgotten(x, u, r)[h]]
    BY DEF Forgotten
  <2>3. index = [h \in Handle |-> index[h]]
    BY <1>11
  <2> QED
    BY <2>1, <2>2, <2>3
<1> QED
  BY <1>9, <1>14, <1>15

\* The indexes that Load builds.
LEMMA LoadedIndex ==
  ASSUME NEW r, Fine(r)
  PROVE  Mirrors(IndexOf(r), r)
<1> USE SeedIsUser
<1> DEFINE x == IndexOf(r)
<1>1. \A h \in Handle :
        x[h] = IF \E v \in Registered(r) : h \in Handles(v, r)
               THEN CHOOSE v \in Registered(r) : h \in Handles(v, r) ELSE NoOne
  BY DEF IndexOf
<1>2. x = [h \in Handle |-> x[h]]
  BY DEF IndexOf
<1> HIDE DEF x
<1>3. ASSUME NEW h \in Handle
      PROVE  /\ x[h] \in Users \cup {NoOne}
             /\ \A u \in Users : x[h] = u <=> u \in Registered(r) /\ h \in Handles(u, r)
  <2>1. CASE \E v \in Registered(r) : h \in Handles(v, r)
    <3>1. x[h] \in Registered(r) /\ h \in Handles(x[h], r)
      BY <1>1, <2>1
    <3>2. ASSUME NEW u \in Users, u \in Registered(r), h \in Handles(u, r)
          PROVE  u = x[h]
      <4>1. x[h] \in Users /\ r[x[h]].id # 0 /\ r[u].id # 0
        BY <3>1, <3>2 DEF Registered
      <4>2. r[u].id = r[x[h]].id
        BY <3>1, <3>2, <4>1, HandlesApart
      <4> QED
        BY <3>1, <3>2, <4>2 DEF Fine, IdsDistinct
    <3> QED
      BY <3>1, <3>2 DEF Registered
  <2>2. CASE ~ \E v \in Registered(r) : h \in Handles(v, r)
    BY <1>1, <2>2
  <2> QED
    BY <2>1, <2>2
<1>4. Mirrors(x, r)
  BY <1>2, <1>3 DEF Mirrors
<1> QED
  BY <1>4 DEF x

\* Indexing an account again changes nothing.
LEMMA IndexedAgain ==
  ASSUME NEW x, NEW r, Mirrors(x, r), NEW u \in Users, r[u].id # 0
  PROVE  Indexed(x, u, r) = x
<1>1. x = [h \in Handle |-> x[h]]
  BY DEF Mirrors
<1>2. \A h \in Handle : h \in Handles(u, r) => x[h] = u
  BY DEF Mirrors, Registered
<1> QED
  BY <1>1, <1>2 DEF Indexed

\* A handle that was given leads to the account it was given for.
LEMMA GivenLeads ==
  ASSUME IInv, NEW u \in Users, NEW h \in Handle, <<u, h>> \in issued
  PROVE  index[h] = u /\ roster[u].id # 0 /\ Resolve(h) = u
<1>1. roster[u].id # 0 /\ h \in Handles(u, roster)
  BY DEF IInv, Given
<1>2. index[h] = u
  BY <1>1 DEF IInv, TypeOK, Mirrors, Registered
<1> QED
  BY <1>1, <1>2, SeedIsUser DEF Resolve

-----------------------------------------------------------------------------
LEMMA InitInv == Init => IInv
<1> SUFFICES ASSUME Init PROVE IInv
  OBVIOUS
<1> USE SeedIsUser
<1>1. PICK pwd \in Passwords :
        roster = [u \in Users |->
          IF u = Seed THEN [id |-> 1, pwd |-> pwd, temporary |-> FALSE] ELSE Nothing]
  BY DEF Init
<1>2. 0 \in 0 .. MaxId /\ 1 \in 0 .. MaxId
  BY IdentityAssumption
<1>3. roster \in [Users -> Account]
  BY <1>1, <1>2 DEF Account, Nothing
<1>4. \A u \in Users : roster[u].id = IF u = Seed THEN 1 ELSE 0
  BY <1>1 DEF Nothing
<1>5. Fine(roster)
  <2>1. \A u \in Users : roster[u].id # 0 => u = Seed
    BY <1>4
  <2>2. roster[Seed].id # 0
    BY <1>4
  <2> QED
    BY <1>3, <2>1, <2>2 DEF Fine, IdsDistinct, Registered
<1>6. Mirrors(index, roster)
  BY <1>5, LoadedIndex DEF Init
<1>7. /\ disk = roster /\ torn = FALSE /\ pending = {} /\ issued = {} /\ logins = {}
      /\ data = [n \in 0 .. MaxId |-> NoOne] /\ dataDisk = [n \in 0 .. MaxId |-> NoOne]
  BY DEF Init
<1>8. TypeOK
  BY <1>3, <1>6, <1>7 DEF TypeOK
<1>9. Given(roster) /\ LoggedIn(roster)
  BY <1>7 DEF Given, LoggedIn
<1>10. Owned(data, roster) /\ Owned(dataDisk, roster)
  BY <1>7 DEF Owned
<1> QED
  BY <1>5, <1>7, <1>8, <1>9, <1>10, KeepsItself DEF IInv

\* Registering, whether it is saved or undone.
LEMMA RegisterStep ==
  ASSUME IInv, NEW u \in Users \ {Seed}, NEW pwd \in Passwords \cup {Blank},
         NEW id \in 1 .. MaxId, NEW answer \in SUBSET {u}, Register(u, pwd, id, answer)
  PROVE  /\ Fine(roster') /\ Fine(disk') /\ torn' \in BOOLEAN
         /\ ~torn' => Keeps(disk', roster')
         /\ Mirrors(index', roster')
         /\ pending' \subseteq Registered(roster')
         /\ Keeps(roster', roster)
         /\ u \in pending' \ pending => roster'[u].pwd = pwd /\ roster'[u].id # 0
<1> USE SeedIsUser
<1> DEFINE r == [roster EXCEPT ![u] = [id |-> id, pwd |-> pwd, temporary |-> TRUE]]
           x == Indexed(index, u, r)
<1>1. roster[u].id = 0 /\ IsNextId(id)
  BY DEF Register
<1>2. /\ Fine(r) /\ Keeps(r, roster)
      /\ Mirrors(x, r)
      /\ Forgotten(x, u, r) = index
  BY <1>1, NewAccount
<1>3. /\ pending \subseteq Users
      /\ \A v \in pending : roster[v].id # 0
      /\ roster[Seed].id # 0
      /\ Mirrors(index, roster) /\ Fine(roster)
  BY DEF IInv, TypeOK, Registered, Fine
<1>4. r[u].id = id /\ r[u].pwd = pwd /\ id # 0
  BY DEF IInv, Fine
<1>5. \/ roster' = r /\ index' = x /\ pending' = pending \cup answer /\ Saves(r)
      \/ roster' = roster /\ index' = Forgotten(x, u, r) /\ SaveFails(r)
           /\ pending' = pending \cup (IF u \in Devices THEN {Seed} ELSE {})
  BY DEF Register
<1> HIDE DEF r, x
<1>6. CASE roster' = r /\ index' = x /\ pending' = pending \cup answer /\ Saves(r)
  <2>1. disk' = roster' /\ torn' = FALSE
    BY <1>6 DEF Saves
  <2>2. Keeps(disk', roster')
    BY <2>1 DEF Keeps
  <2>3. \A v \in pending' : v \in Users /\ roster'[v].id # 0
    BY <1>2, <1>3, <1>4, <1>6 DEF Keeps
  <2>4. pending' \subseteq Registered(roster')
    BY <2>3 DEF Registered
  <2> QED
    BY <1>2, <1>4, <1>6, <2>1, <2>2, <2>4
<1>7. CASE /\ roster' = roster /\ index' = Forgotten(x, u, r) /\ SaveFails(r)
           /\ pending' = pending \cup (IF u \in Devices THEN {Seed} ELSE {})
  <2>1. Fine(disk') /\ torn' \in BOOLEAN /\ (~torn' => Keeps(disk', roster))
    BY <1>2, <1>7, SaveStep
  <2>2. index' = index
    BY <1>2, <1>7
  <2>3. pending' \subseteq Registered(roster')
    BY <1>3, <1>7 DEF Registered
  <2>4. u \notin pending' \ pending
    BY <1>7
  <2>5. Keeps(roster', roster)
    BY <1>7, KeepsItself
  <2> QED
    BY <1>3, <1>7, <2>1, <2>2, <2>3, <2>4, <2>5
<1> QED
  BY <1>5, <1>6, <1>7

\* What is left of the invariant when only accounts are added.
LEMMA Rest ==
  ASSUME IInv, Keeps(roster', roster),
         Fine(roster'), Fine(disk'), torn' \in BOOLEAN, ~torn' => Keeps(disk', roster'),
         Mirrors(index', roster'), pending' \subseteq Registered(roster'),
         UNCHANGED <<issued, data, dataDisk>>,
         logins' \subseteq Users \X Passwords,
         \A u \in Users, pwd \in Passwords : <<u, pwd>> \in logins' =>
           <<u, pwd>> \in logins \/ (roster'[u].id # 0 /\ roster'[u].pwd = pwd)
  PROVE  IInv'
<1>1. /\ Given(roster') /\ LoggedIn(roster')
      /\ Owned(data, roster') /\ Owned(dataDisk, roster')
  BY KeptFacts
<1>2. Given(roster)' /\ Owned(data, roster)' /\ Owned(dataDisk, roster)'
  BY <1>1 DEF Given, Owned
<1>3. LoggedIn(roster)'
  BY <1>1 DEF LoggedIn
<1>4. TypeOK'
  BY DEF IInv, TypeOK, Fine
<1> QED
  BY <1>2, <1>3, <1>4 DEF IInv

LEMMA LoginNewStep ==
  ASSUME IInv, NEW u \in Players, NEW pwd \in Passwords \cup {Blank}, LoginNew(u, pwd)
  PROVE  IInv'
<1>1. u \in Users \ {Seed}
  BY IdentityAssumption DEF Users
<1>2. PICK id \in 1 .. MaxId : Register(u, pwd, id, {u})
  BY DEF LoginNew
<1>3. /\ Fine(roster') /\ Fine(disk') /\ torn' \in BOOLEAN
      /\ ~torn' => Keeps(disk', roster')
      /\ Mirrors(index', roster')
      /\ pending' \subseteq Registered(roster')
      /\ Keeps(roster', roster)
      /\ u \in pending' \ pending => roster'[u].pwd = pwd /\ roster'[u].id # 0
  BY <1>1, <1>2, RegisterStep
<1>4. u \notin pending
  BY <1>1, <1>2 DEF Register, IInv, TypeOK, Registered
<1>5. /\ UNCHANGED <<issued, data, dataDisk>>
      /\ logins' = IF u \in pending' THEN LetIn(u, pwd) ELSE logins
  BY DEF LoginNew
<1>6. logins \subseteq Users \X Passwords
  BY DEF IInv, TypeOK
<1>7. logins' \subseteq Users \X Passwords
  BY <1>1, <1>5, <1>6 DEF LetIn
<1>8. \A v \in Users, p \in Passwords : <<v, p>> \in logins' =>
        <<v, p>> \in logins \/ (roster'[v].id # 0 /\ roster'[v].pwd = p)
  BY <1>3, <1>4, <1>5 DEF LetIn
<1> QED
  BY <1>3, <1>5, <1>7, <1>8, Rest

LEMMA LoginKnownStep ==
  ASSUME IInv, NEW u \in Users, NEW pwd \in Passwords \cup {Blank}, LoginKnown(u, pwd)
  PROVE  IInv'
<1>1. /\ roster[u].id # 0 /\ roster[u].pwd = pwd
      /\ pending' = pending \cup {u} /\ logins' = LetIn(u, pwd)
      /\ UNCHANGED <<roster, index, disk, torn, issued, data, dataDisk>>
  BY DEF LoginKnown
<1>2. /\ TypeOK /\ Fine(roster) /\ Fine(disk) /\ (~torn => Keeps(disk, roster))
      /\ pending \subseteq Registered(roster) /\ logins \subseteq Users \X Passwords
      /\ torn \in BOOLEAN /\ Mirrors(index, roster)
  BY DEF IInv, TypeOK
<1>3. pending' \subseteq Registered(roster')
  BY <1>1, <1>2 DEF Registered
<1>4. /\ logins' \subseteq Users \X Passwords
      /\ \A v \in Users, p \in Passwords : <<v, p>> \in logins' =>
           <<v, p>> \in logins \/ (roster'[v].id # 0 /\ roster'[v].pwd = p)
  BY <1>1, <1>2 DEF LetIn
<1>5. Keeps(roster', roster)
  BY <1>1, KeepsItself
<1> QED
  BY <1>1, <1>2, <1>3, <1>4, <1>5, Rest

\* A claimed account keeps its id; before, it had no password to lose.
LEMMA ClaimStep ==
  ASSUME IInv, NEW u \in Players, NEW pwd \in Passwords, Claim(u, pwd)
  PROVE  IInv'
<1> DEFINE r == [roster EXCEPT ![u] =
                   [id |-> roster[u].id, pwd |-> pwd, temporary |-> TRUE]]
<1>1. u \in Users
  BY DEF Users
<1>2. /\ roster[u].id # 0 /\ roster[u].pwd = Blank
      /\ UNCHANGED <<index, issued, data, dataDisk>>
      /\ \/ /\ roster' = r /\ Saves(r)
            /\ pending' = pending \cup {u} /\ logins' = LetIn(u, pwd)
         \/ SaveFails(r) /\ UNCHANGED <<roster, pending, logins>>
  BY DEF Claim
<1>3. /\ Fine(roster) /\ Mirrors(index, roster) /\ roster \in [Users -> Account]
      /\ pending \subseteq Registered(roster) /\ logins \subseteq Users \X Passwords
  BY DEF IInv, TypeOK, Fine
<1>4. roster[u] \in Account
  BY <1>1, <1>3
<1>5. r \in [Users -> Account]
  BY <1>1, <1>3, <1>4 DEF Account
<1>6. /\ r[u].id = roster[u].id /\ r[u].pwd = pwd
      /\ \A v \in Users : v # u => r[v] = roster[v]
  BY <1>1, <1>3
<1> HIDE DEF r
<1>7. \A v \in Users : r[v].id = roster[v].id
  BY <1>6
<1>8. Registered(r) = Registered(roster)
  BY <1>7 DEF Registered
<1>9. Fine(r)
  BY <1>3, <1>5, <1>7, <1>8, SeedIsUser DEF Fine, IdsDistinct, Registered
<1>10. Keeps(r, roster)
  BY <1>2, <1>6 DEF Keeps
<1>11. Mirrors(index, r)
  <2>1. \A v \in Users : Handles(v, r) = Handles(v, roster)
    BY <1>7, SameHandles
  <2> QED
    BY <1>3, <1>8, <2>1 DEF Mirrors
<1>12. CASE /\ roster' = r /\ Saves(r)
            /\ pending' = pending \cup {u} /\ logins' = LetIn(u, pwd)
  <2>1. disk' = r /\ torn' = FALSE
    BY <1>12 DEF Saves
  <2>2. Keeps(disk', roster')
    BY <2>1, <1>12 DEF Keeps
  <2>3. pending' \subseteq Registered(roster')
    BY <1>1, <1>2, <1>3, <1>8, <1>12 DEF Registered
  <2>4. /\ logins' \subseteq Users \X Passwords
        /\ \A v \in Users, p \in Passwords : <<v, p>> \in logins' =>
             <<v, p>> \in logins \/ (roster'[v].id # 0 /\ roster'[v].pwd = p)
    BY <1>1, <1>2, <1>3, <1>6, <1>12 DEF LetIn
  <2>5. Mirrors(index', roster')
    BY <1>2, <1>11, <1>12
  <2> QED
    BY <1>2, <1>9, <1>10, <1>12, <2>1, <2>2, <2>3, <2>4, <2>5, Rest
<1>13. CASE SaveFails(r) /\ UNCHANGED <<roster, pending, logins>>
  <2>1. Fine(disk') /\ torn' \in BOOLEAN /\ (~torn' => Keeps(disk', roster))
    BY <1>9, <1>10, <1>13, SaveStep
  <2> QED
    BY <1>2, <1>3, <1>13, <2>1, KeepsItself, Rest
<1> QED
  BY <1>2, <1>12, <1>13

\* Registrations by the lobby, and by a device.
LEMMA OtherRegistersStep ==
  ASSUME IInv, NEW u \in Players \cup Devices, NEW id \in 1 .. MaxId,
         NEW answer \in SUBSET {u}, Register(u, Blank, id, answer),
         UNCHANGED <<logins, issued, data, dataDisk>>
  PROVE  IInv'
<1>1. u \in Users \ {Seed}
  BY IdentityAssumption DEF Users
<1>2. /\ Fine(roster') /\ Fine(disk') /\ torn' \in BOOLEAN
      /\ ~torn' => Keeps(disk', roster')
      /\ Mirrors(index', roster')
      /\ pending' \subseteq Registered(roster')
      /\ Keeps(roster', roster)
  BY <1>1, RegisterStep
<1>3. logins' \subseteq Users \X Passwords
  BY DEF IInv, TypeOK
<1> QED
  BY <1>2, <1>3, Rest

\* Steps that only save, or only note whom to answer.
LEMMA SaveOrNoteStep ==
  ASSUME IInv, UNCHANGED <<roster, index, issued, logins, data, dataDisk>>,
         Saves(roster) \/ SaveFails(roster) \/ UNCHANGED <<disk, torn>>,
         pending' \subseteq Registered(roster)
  PROVE  IInv'
<1>1. /\ Fine(roster) /\ Fine(disk) /\ (~torn => Keeps(disk, roster)) /\ torn \in BOOLEAN
      /\ Mirrors(index, roster) /\ logins \subseteq Users \X Passwords
  BY DEF IInv, TypeOK
<1>2. Fine(disk') /\ torn' \in BOOLEAN /\ (~torn' => Keeps(disk', roster))
  <2>1. CASE Saves(roster) \/ SaveFails(roster)
    BY <1>1, <2>1, KeepsItself, SaveStep
  <2>2. CASE UNCHANGED <<disk, torn>>
    BY <1>1, <2>2
  <2> QED
    BY <2>1, <2>2
<1> QED
  BY <1>1, <1>2, KeepsItself, Rest

\* Answers and renewals: the handles a user is given are its own, and indexed.
LEMMA AnswerStep ==
  ASSUME IInv, NEW u \in Users, roster[u].id # 0,
         index' = Indexed(index, u, roster),
         issued' = issued \cup ({u} \X Handles(u, roster)),
         pending' \subseteq pending,
         UNCHANGED <<roster, disk, torn, logins, data, dataDisk>>
  PROVE  IInv'
<1>1. /\ Mirrors(index, roster) /\ Fine(roster) /\ pending \subseteq Registered(roster)
      /\ issued \subseteq Users \X Handle
  BY DEF IInv, TypeOK
<1>2. index' = index
  BY <1>1, IndexedAgain
<1>3. Handles(u, roster) \subseteq Handle
  BY <1>1, HandlesAreHandles DEF Fine
<1>4. issued' \subseteq Users \X Handle
  BY <1>1, <1>3
<1>5. TypeOK'
  BY <1>1, <1>2, <1>4 DEF IInv, TypeOK, Mirrors, Registered, Handles
<1>6. Given(roster)'
  <2> SUFFICES ASSUME NEW v \in Users, NEW h \in Handle, <<v, h>> \in issued'
               PROVE  roster[v].id # 0 /\ h \in Handles(v, roster)
    BY DEF Given, Handles
  <2>1. CASE <<v, h>> \in issued
    BY <2>1 DEF IInv, Given
  <2>2. CASE v = u /\ h \in Handles(u, roster)
    BY <2>2
  <2> QED
    BY <2>1, <2>2
<1>7. LoggedIn(roster)' /\ Owned(data, roster)' /\ Owned(dataDisk, roster)'
  BY DEF IInv, LoggedIn, Owned
<1>8. Fine(roster)' /\ Fine(disk)' /\ (~torn => Keeps(disk, roster))'
  BY DEF IInv, Fine, Keeps, IdsDistinct, Registered
<1> QED
  BY <1>5, <1>6, <1>7, <1>8 DEF IInv

\* What a client puts goes to its own key.
LEMMA PutStep ==
  ASSUME IInv, NEW u \in Users, NEW h \in Handle, PutData(u, h)
  PROVE  IInv'
<1> USE SeedIsUser
<1>1. roster[u].id # 0 /\ Resolve(h) = u
  BY GivenLeads DEF PutData
<1>2. /\ data' = [data EXCEPT ![DataKey(u)] = u]
      /\ \/ dataDisk' = data'
         \/ UNCHANGED dataDisk
         \/ dataDisk' = [n \in 0 .. MaxId |-> NoOne]
      /\ UNCHANGED <<roster, index, disk, torn, pending, issued, logins>>
  BY <1>1 DEF PutData
<1>3. /\ data \in [0 .. MaxId -> Users \cup {NoOne}]
      /\ dataDisk \in [0 .. MaxId -> Users \cup {NoOne}]
      /\ Owned(data, roster) /\ Owned(dataDisk, roster)
  BY DEF IInv, TypeOK
<1>4. DataKey(u) = 0 \/ DataKey(u) = roster[u].id
  BY DEF DataKey
<1>5. data' \in [0 .. MaxId -> Users \cup {NoOne}]
  BY <1>2, <1>3
<1>6. Owned(data', roster)
  <2> SUFFICES ASSUME NEW n \in 1 .. MaxId, NEW v \in Users, data'[n] = v
               PROVE  roster[v].id = n
    BY DEF Owned
  <2>1. n \in 0 .. MaxId /\ n # 0
    OBVIOUS
  <2>2. CASE n = DataKey(u)
    BY <2>1, <2>2, <1>2, <1>3, <1>4
  <2>3. CASE n # DataKey(u)
    BY <2>1, <2>3, <1>2, <1>3 DEF Owned
  <2> QED
    BY <2>2, <2>3
<1>7. /\ dataDisk' \in [0 .. MaxId -> Users \cup {NoOne}]
      /\ Owned(dataDisk', roster)
  <2>1. CASE dataDisk' = data'
    BY <2>1, <1>5, <1>6
  <2>2. CASE UNCHANGED dataDisk
    BY <2>2, <1>3
  <2>3. CASE dataDisk' = [n \in 0 .. MaxId |-> NoOne]
    BY <2>3 DEF Owned
  <2> QED
    BY <1>2, <2>1, <2>2, <2>3
<1>8. TypeOK'
  BY <1>2, <1>5, <1>7 DEF IInv, TypeOK, Mirrors, Registered, Handles
<1>9. Given(roster)' /\ LoggedIn(roster)'
  BY <1>2 DEF IInv, Given, LoggedIn, Handles
<1>10. Owned(data, roster)' /\ Owned(dataDisk, roster)'
  BY <1>2, <1>6, <1>7 DEF Owned
<1>11. Fine(roster)' /\ Fine(disk)' /\ (~torn => Keeps(disk, roster))'
  BY <1>2 DEF IInv, Fine, Keeps, IdsDistinct, Registered
<1> QED
  BY <1>8, <1>9, <1>10, <1>11 DEF IInv

\* A file that can be read keeps what the roster has.
LEMMA RestartStep ==
  ASSUME IInv, Restart
  PROVE  IInv'
<1>1. /\ ~torn /\ roster' = disk /\ index' = IndexOf(disk) /\ pending' = {}
      /\ data' = dataDisk /\ UNCHANGED <<disk, torn, issued, logins, dataDisk>>
  BY DEF Restart
<1>2. Fine(disk) /\ Keeps(disk, roster) /\ torn \in BOOLEAN
  BY <1>1 DEF IInv, TypeOK
<1>3. Mirrors(index', roster')
  BY <1>1, <1>2, LoadedIndex
<1>4. Keeps(disk', roster')
  BY <1>1 DEF Keeps
<1>5. Given(disk) /\ LoggedIn(disk) /\ Owned(dataDisk, disk)
  BY <1>2, KeptFacts
<1>6. Given(roster)' /\ LoggedIn(roster)'
  BY <1>1, <1>5 DEF Given, LoggedIn
<1>7. Owned(data, roster)' /\ Owned(dataDisk, roster)'
  BY <1>1, <1>5 DEF Owned
<1>8. TypeOK'
  BY <1>1, <1>2, <1>3 DEF IInv, TypeOK, Fine
<1>9. Fine(roster)' /\ Fine(disk)'
  BY <1>1, <1>2 DEF Fine, IdsDistinct, Registered
<1> QED
  BY <1>4, <1>6, <1>7, <1>8, <1>9 DEF IInv

-----------------------------------------------------------------------------
LEMMA NextInv == IInv /\ [Next]_vars => IInv'
<1> SUFFICES ASSUME IInv, [Next]_vars PROVE IInv'
  OBVIOUS
<1> USE SeedIsUser
<1>0. pending \subseteq Registered(roster) /\ Seed \in Registered(roster)
  BY DEF IInv, TypeOK, Fine, Registered
<1>1. CASE \E u \in Players, pwd \in Passwords \cup {Blank} : LoginNew(u, pwd)
  BY <1>1, LoginNewStep
<1>2. CASE \E u \in Players \cup {Seed}, pwd \in Passwords \cup {Blank} : LoginKnown(u, pwd)
  BY <1>2, LoginKnownStep DEF Users
<1>3. CASE \E u \in Players, pwd \in Passwords : Claim(u, pwd)
  BY <1>3, ClaimStep
<1>4. CASE \E u \in Players : LobbyLogin(u)
  <2>1. PICK u \in Players : LobbyLogin(u)
    BY <1>4
  <2>2. PICK id \in 1 .. MaxId : Register(u, Blank, id, {})
    BY <2>1 DEF LobbyLogin
  <2> QED
    BY <2>1, <2>2, OtherRegistersStep DEF LobbyLogin
<1>5. CASE \E d \in Devices : Bootstrap(d)
  <2>1. PICK d \in Devices : Bootstrap(d)
    BY <1>5
  <2>2. CASE \E id \in 1 .. MaxId : Register(d, Blank, id, {d})
    BY <2>1, <2>2, OtherRegistersStep DEF Bootstrap
  <2>3. CASE /\ roster[d].id # 0 /\ pending' = pending \cup {d}
             /\ UNCHANGED <<roster, index, disk, torn>>
    <3>1. pending' \subseteq Registered(roster)
      BY <1>0, <2>3 DEF Registered, Users
    <3> QED
      BY <2>1, <2>3, <3>1, SaveOrNoteStep DEF Bootstrap
  <2> QED
    BY <2>1, <2>2, <2>3 DEF Bootstrap
<1>6. CASE BootstrapNobody
  BY <1>0, <1>6, SaveOrNoteStep DEF BootstrapNobody
<1>7. CASE \E u \in Users : Answer(u)
  BY <1>0, <1>7, AnswerStep DEF Answer, Registered
<1>8. CASE \E u \in Users, h \in Handle : Renew(u, h)
  <2>1. PICK u \in Users, h \in Handle : Renew(u, h)
    BY <1>8
  <2>2. roster[u].id # 0 /\ Resolve(h) = u
    BY <2>1, GivenLeads DEF Renew
  <2> QED
    BY <2>1, <2>2, AnswerStep DEF Renew
<1>9. CASE \E u \in Users, h \in Handle : PutData(u, h)
  BY <1>9, PutStep
<1>10. CASE Mutate
  BY <1>0, <1>10, SaveOrNoteStep DEF Mutate
<1>11. CASE Restart
  BY <1>11, RestartStep
<1>12. CASE UNCHANGED vars
  BY <1>0, <1>12, SaveOrNoteStep DEF vars
<1> QED
  BY <1>1, <1>2, <1>3, <1>4, <1>5, <1>6, <1>7, <1>8, <1>9, <1>10, <1>11, <1>12 DEF Next

-----------------------------------------------------------------------------
\* IInv is an invariant: memory and file hold fine rosters, and a file that can
\* be read keeps every account and password of memory (saveLocked).
THEOREM Invariance == Spec => []IInv
  BY InitInv, NextInv, PTL DEF Spec

\* Every reachable state has its type, and byID and byToken are the indexes of
\* the roster, also after a registration was undone (removeIdentityLocked).
THEOREM TypeCorrect == Spec => []TypeOK
<1>1. IInv => TypeOK
  BY DEF IInv
<1> QED
  BY <1>1, Invariance, PTL

\* A token or account id leads to the account it was given for and to data of
\* its own (AuthenticateOrCreate, EnsureDevice, TokensFor, handleGaiaData).
THEOREM HandlesLeadHome == Spec => []TokensLeadHome
<1>1. ASSUME IInv PROVE TokensLeadHome
  <2> SUFFICES ASSUME NEW u \in Users, NEW h \in Handle, <<u, h>> \in issued
               PROVE  index[h] = u /\ (u # Seed => data[DataKey(u)] \in {u, NoOne})
    BY DEF TokensLeadHome
  <2>1. index[h] = u /\ roster[u].id # 0
    BY <1>1, GivenLeads
  <2>2. ASSUME u # Seed PROVE data[DataKey(u)] \in {u, NoOne}
    <3> DEFINE n == roster[u].id
    <3>1. DataKey(u) = n
      BY <2>2 DEF DataKey
    <3>2. /\ n \in 0 .. MaxId
          /\ data[n] \in Users \cup {NoOne}
      BY <1>1 DEF IInv, TypeOK, Account
    <3> HIDE DEF n
    <3>3. n # 0
      BY <2>1 DEF n
    <3>4. n \in 1 .. MaxId
      BY <3>2, <3>3
    <3>5. ASSUME data[n] \in Users PROVE data[n] = u
      <4>1. roster[data[n]].id = n
        BY <1>1, <3>4, <3>5 DEF IInv, Owned
      <4> QED
        BY <1>1, <2>1, <3>3, <3>5, <4>1 DEF IInv, Fine, IdsDistinct, Registered, n
    <3> QED
      BY <3>1, <3>2, <3>5
  <2> QED
    BY <2>1, <2>2
<1> QED
  BY <1>1, Invariance, PTL

\* A password that let a player in stays the password of the account
\* (AuthenticateOrCreate, across claims that could not be saved).
THEOREM LoginsAreKept == Spec => []AcceptedLoginsStay
<1>1. ASSUME IInv PROVE AcceptedLoginsStay
  <2> SUFFICES ASSUME NEW u \in Users, NEW pwd \in Passwords, <<u, pwd>> \in logins
               PROVE  roster[u].pwd = pwd /\ (~torn => disk[u].pwd = pwd)
    BY DEF AcceptedLoginsStay
  <2>1. roster[u].id # 0 /\ roster[u].pwd = pwd /\ pwd # Blank
    BY <1>1, IdentityAssumption DEF IInv, LoggedIn
  <2> QED
    BY <1>1, <2>1 DEF IInv, Keeps
<1> QED
  BY <1>1, Invariance, PTL
=============================================================================
