---------------------------- MODULE AccountsProofs ----------------------------
(***************************************************************************)
(* Accounts, magic links and refresh tokens: the memory stores answer as   *)
(* the Postgres stores do, and password changes overwrite nothing but each *)
(* other, for any names, addresses, codes, tokens, limits and times.       *)
(***************************************************************************)
EXTENDS Users, AuthStores, OrderingProofs, FiniteSetTheorems, TLAPS

(* Accounts.                                                               *)

Account == [id : AccountIds, username : Usernames, email : Addresses,
            hash : Passwords, created : Nat]

Change == [op : {"update"}, id : AccountIds, presented : Passwords,
           new : Passwords, pg : BOOLEAN, mem : BOOLEAN, raced : BOOLEAN]

(* The shape of the variables (type User, user.go).                        *)
UsersTypeOK ==
    /\ userRows \subseteq Account /\ IsFiniteSet(userRows)
    /\ memUsers \in Seq(Account)
    /\ change \in [ChangeRequests -> {NoChange} \cup Change]

(* The memory store holds the rows of the table.                           *)
SameAccounts == ToSet(memUsers) = userRows

UniqueIds == \A u, v \in userRows : u.id = v.id => u = v

(* The unique indexes of the table.                                        *)
UniqueNames ==
    \A u, v \in userRows :
        u.username = v.username \/ u.email = v.email => u = v

(* The slice holds the accounts in the order of their registration.        *)
InCreationOrder ==
    /\ Cardinality(userRows) = Len(memUsers)
    /\ \A k \in DOMAIN memUsers : memUsers[k].created = k

(* A change about to be stored was let through by both stores, and its     *)
(* account still has the password it was compared with unless another      *)
(* change got in between.                                                  *)
Compared(c) ==
    /\ c.pg /\ c.mem
    /\ \E u \in userRows : u.id = c.id /\ (c.raced \/ u.hash = c.presented)

UsersInv ==
    /\ UsersTypeOK
    /\ SameAccounts
    /\ UniqueIds /\ UniqueNames
    /\ InCreationOrder
    /\ \A r \in ChangeRequests :
           change[r].op = "update" => Compared(change[r])
    /\ registered.pg = registered.mem
    /\ OverwritesOnlyIfRacing

-----------------------------------------------------------------------------
(* The members of a slice that has grown.                                  *)
LEMMA ToSetAppend ==
    ASSUME NEW S, NEW s \in Seq(S), NEW e \in S
    PROVE  ToSet(Append(s, e)) = ToSet(s) \cup {e}
<1> DEFINE t == Append(s, e)
<1>1. /\ DOMAIN t = DOMAIN s \cup {Len(s) + 1}
      /\ t[Len(s) + 1] = e
      /\ \A k \in DOMAIN s : t[k] = s[k]
  OBVIOUS
<1> HIDE DEF t
<1>2. ToSet(t) = ToSet(s) \cup {e}
  BY <1>1, Zenon DEF ToSet
<1> QED
  BY <1>2 DEF t

-----------------------------------------------------------------------------
LEMMA UsersInitInv == UsersInit => UsersInv
<1> SUFFICES ASSUME UsersInit PROVE UsersInv
  OBVIOUS
<1>1. IsFiniteSet(userRows) /\ Cardinality(userRows) = 0
  BY FS_EmptySet DEF UsersInit
<1> QED
  BY <1>1 DEF UsersInit, UsersInv, UsersTypeOK, SameAccounts, UniqueIds,
              UniqueNames, InCreationOrder, NoChange, OverwritesOnlyIfRacing,
              ToSet

LEMMA RegisterInv == UsersInv /\ Register => UsersInv'
<1> SUFFICES ASSUME UsersInv, Register PROVE UsersInv'
  OBVIOUS
<1> USE DEF UsersInv, UsersTypeOK, SameAccounts, UniqueIds
<1>1. PICK n \in Usernames, e \in Addresses, p \in Passwords,
           i \in AccountIds \ {u.id : u \in userRows} :
          LET u == [id |-> i, username |-> n, email |-> e, hash |-> p,
                    created |-> Cardinality(userRows) + 1]
          IN  /\ registered' = [pg |-> PgTaken(n, e), mem |-> MemTaken(n, e)]
              /\ userRows' = IF PgTaken(n, e) THEN userRows
                             ELSE userRows \cup {u}
              /\ memUsers' = IF MemTaken(n, e) THEN memUsers
                             ELSE Append(memUsers, u)
  BY DEF Register
<1> DEFINE new == [id |-> i, username |-> n, email |-> e, hash |-> p,
                   created |-> Cardinality(userRows) + 1]
<1>2. PgTaken(n, e) = MemTaken(n, e)
  BY DEF PgTaken, MemTaken, ToSet
<1>3. new \in Account
  BY FS_CardinalityType DEF Account
<1>4. UNCHANGED <<change, written>>
  BY DEF Register
<1>5. CASE PgTaken(n, e)
  BY <1>1, <1>2, <1>4, <1>5 DEF OverwritesOnlyIfRacing, Compared,
                                UniqueNames, InCreationOrder
<1>6. CASE ~PgTaken(n, e)
  <2>1. userRows' = userRows \cup {new} /\ memUsers' = Append(memUsers, new)
    BY <1>1, <1>2, <1>6
  <2>2. \A u \in userRows : u.username # new.username /\ u.email # new.email
    BY <1>6 DEF PgTaken
  <2>3. new.created = Len(memUsers) + 1
    BY DEF InCreationOrder
  <2> HIDE DEF new
  <2>4. IsFiniteSet(userRows')
    BY <2>1, FS_AddElement
  <2>5. ToSet(memUsers') = userRows'
    BY <2>1, <1>3, ToSetAppend
  <2>6. \A u \in userRows : u.id # new.id
    BY DEF new
  <2>7. UsersTypeOK' /\ SameAccounts' /\ UniqueIds'
    BY <2>1, <2>4, <2>5, <2>6, <1>3, <1>4
  <2>8. \A r \in ChangeRequests :
            change'[r].op = "update" => Compared(change[r])'
    BY <2>1, <1>4 DEF Compared
  <2>9. registered'.pg = registered'.mem /\ OverwritesOnlyIfRacing'
    BY <1>1, <1>2, <1>4 DEF OverwritesOnlyIfRacing
  <2>10. UniqueNames'
    BY <2>1, <2>2 DEF UniqueNames
  <2>11. Cardinality(userRows') = Cardinality(userRows) + 1
    BY <2>1, <2>6, FS_AddElement
  <2>12. InCreationOrder'
    BY <2>1, <2>3, <2>11, <1>3 DEF InCreationOrder
  <2> QED  BY <2>7, <2>8, <2>9, <2>10, <2>12, <1>4
<1> QED  BY <1>5, <1>6

LEMMA CompareInv ==
    ASSUME NEW r \in ChangeRequests, UsersInv, FindAndCompare(r)
    PROVE  UsersInv'
<1> USE DEF UsersInv, UsersTypeOK, SameAccounts, UniqueIds
<1>1. PICK i \in AccountIds, p \in Passwords, n \in Passwords :
          /\ Verifies(userRows, i, p) \/ Verifies(ToSet(memUsers), i, p)
          /\ change' = [change EXCEPT ![r] =
                 [op |-> "update", id |-> i, presented |-> p, new |-> n,
                  pg |-> Verifies(userRows, i, p),
                  mem |-> Verifies(ToSet(memUsers), i, p), raced |-> FALSE]]
  BY DEF FindAndCompare
<1>2. UNCHANGED <<userRows, memUsers, registered, written>>
  BY DEF FindAndCompare
<1> DEFINE c == [op |-> "update", id |-> i, presented |-> p, new |-> n,
                 pg |-> TRUE, mem |-> TRUE, raced |-> FALSE]
<1>3. Verifies(userRows, i, p)
  BY <1>1
<1>4. change' = [change EXCEPT ![r] = c]
  <2>1. Verifies(userRows, i, p) = TRUE
    BY <1>3 DEF Verifies
  <2>2. Verifies(ToSet(memUsers), i, p) = TRUE
    BY <2>1
  <2> QED  BY <1>1, <2>1, <2>2
<1>5. c \in Change /\ Compared(c)
  BY <1>3 DEF Change, Compared, Verifies
<1>6. \A s \in ChangeRequests :
          change'[s].op = "update" => Compared(change[s])'
  BY <1>2, <1>4, <1>5 DEF Compared
<1>7. UsersTypeOK'
  BY <1>2, <1>4, <1>5
<1> QED
  BY <1>2, <1>6, <1>7 DEF OverwritesOnlyIfRacing, UniqueNames,
                          InCreationOrder

LEMMA UpdateInv ==
    ASSUME NEW r \in ChangeRequests, UsersInv, UpdatePasswordHash(r)
    PROVE  UsersInv'
<1> USE DEF UsersInv, UsersTypeOK, SameAccounts, UniqueIds
<1> DEFINE c == change[r]
           set(u) == IF u.id = c.id THEN [u EXCEPT !.hash = c.new] ELSE u
           f == [u \in Account |-> set(u)]
           mark(s) == IF s = r THEN NoChange
                      ELSE IF change[s].op = "update" /\ change[s].id = c.id
                      THEN [change[s] EXCEPT !.raced = TRUE]
                      ELSE change[s]
<1>1. /\ c \in Change /\ c.op = "update" /\ Compared(c)
      /\ c.pg = TRUE /\ c.mem = TRUE
  BY DEF UpdatePasswordHash, NoChange, Change, Compared
<1>2. /\ userRows' = {set(u) : u \in userRows}
      /\ memUsers' = [k \in DOMAIN memUsers |-> set(memUsers[k])]
      /\ written' = [presented |-> c.presented,
                     replaced |-> {u.hash : u \in
                                      {v \in userRows : v.id = c.id}},
                     raced |-> c.raced]
      /\ change' = [s \in ChangeRequests |-> mark(s)]
      /\ UNCHANGED registered
  BY <1>1 DEF UpdatePasswordHash
<1>3. \A u \in Account :
          /\ set(u) \in Account /\ set(u).id = u.id
          /\ set(u).username = u.username /\ set(u).email = u.email
          /\ set(u).created = u.created
          /\ u.id # c.id => set(u) = u
  BY <1>1 DEF Account, Change
<1>4. \A s \in ChangeRequests : mark(s) \in {NoChange} \cup Change
  <2> SUFFICES ASSUME NEW s \in ChangeRequests
               PROVE  mark(s) \in {NoChange} \cup Change
    OBVIOUS
  <2>1. ASSUME change[s].op = "update"
        PROVE  [change[s] EXCEPT !.raced = TRUE] \in Change
    <3>1. change[s] \in Change
      BY <2>1 DEF NoChange
    <3> QED  BY <3>1 DEF Change
  <2> QED  BY <2>1
<1> HIDE DEF c, set, mark
<1>5. userRows' = {f[u] : u \in userRows}
  BY <1>2
<1>6. memUsers' = [k \in DOMAIN memUsers |-> f[memUsers[k]]]
  BY <1>2
<1> HIDE DEF f
<1>7. UsersTypeOK'
  <2>1. IsFiniteSet(userRows')
    <3> DEFINE g == [u \in userRows |-> f[u]]
    <3>1. g \in Surjection(userRows, userRows')
      BY <1>5 DEF Surjection
    <3> QED  BY <3>1, FS_Surjection
  <2>2. userRows' \subseteq Account
    BY <1>2, <1>3
  <2>3. memUsers' \in Seq(Account)
    BY <1>2, <1>3
  <2>4. change' \in [ChangeRequests -> {NoChange} \cup Change]
    BY <1>2, <1>4
  <2> QED  BY <2>1, <2>2, <2>3, <2>4
<1>8. SameAccounts'
  <2>1. ToSet(memUsers') = {f[memUsers[k]] : k \in DOMAIN memUsers}
    BY <1>6, Zenon DEF ToSet
  <2>2. userRows' = {f[memUsers[k]] : k \in DOMAIN memUsers}
    BY <1>5 DEF ToSet
  <2> QED  BY <2>1, <2>2
<1>9. UniqueIds'
  BY <1>2, <1>3
<1>10. ASSUME NEW s \in ChangeRequests, change'[s].op = "update"
       PROVE  Compared(change[s])'
  <2>1. s # r /\ change[s].op = "update" /\ change[s] \in Change
        /\ change'[s] = mark(s)
    BY <1>2, <1>10 DEF mark, NoChange, Change
  <2>2. PICK u \in userRows : /\ u.id = change[s].id
                              /\ \/ change[s].raced
                                 \/ u.hash = change[s].presented
    BY <2>1 DEF Compared
  <2>3. set(u) \in userRows' /\ set(u).id = change[s].id
    BY <1>2, <1>3, <2>2
  <2>4. CASE change[s].id = c.id
    <3>1. change'[s] = [change[s] EXCEPT !.raced = TRUE]
      BY <2>1, <2>4 DEF mark
    <3> QED  BY <2>1, <2>3, <3>1 DEF Compared, Change
  <2>5. CASE change[s].id # c.id
    <3>1. change'[s] = change[s] /\ set(u) = u
      BY <1>3, <2>1, <2>2, <2>5 DEF mark
    <3> QED  BY <2>1, <2>2, <2>3, <3>1 DEF Compared
  <2> QED  BY <2>4, <2>5
<1>11. OverwritesOnlyIfRacing'
  <2>1. PICK u \in userRows : u.id = c.id /\ (c.raced \/ u.hash = c.presented)
    BY <1>1 DEF Compared
  <2>2. {v \in userRows : v.id = c.id} = {u}
    BY <2>1
  <2>3. written'.replaced = {u.hash}
    BY <1>2, <2>2
  <2> QED  BY <1>2, <2>1, <2>3 DEF OverwritesOnlyIfRacing
<1>12. UniqueNames'
  BY <1>2, <1>3 DEF UniqueNames
<1>13. InCreationOrder'
  <2>1. /\ DOMAIN memUsers' = DOMAIN memUsers /\ Len(memUsers') = Len(memUsers)
        /\ \A k \in DOMAIN memUsers : memUsers'[k].created = memUsers[k].created
    BY <1>2, <1>3
  <2>2. Cardinality(userRows') = Len(memUsers')
    <3> DEFINE g == [u \in userRows |-> f[u]]
    <3>1. \A u \in userRows : f[u].id = u.id
      BY <1>3 DEF f
    <3>2. g \in Bijection(userRows, userRows')
      <4>1. g \in Surjection(userRows, userRows')
        BY <1>5 DEF Surjection
      <4>2. ASSUME NEW u \in userRows, NEW v \in userRows, g[u] = g[v]
            PROVE  u = v
        <5>1. f[u] = f[v]
          BY <4>2
        <5> QED  BY <3>1, <5>1
      <4>3. g \in [userRows -> userRows']
        BY <1>5
      <4> HIDE DEF g
      <4>4. g \in Injection(userRows, userRows')
        BY <4>2, <4>3 DEF Injection, IsInjective
      <4> QED  BY <4>1, <4>4 DEF Bijection
    <3> HIDE DEF g
    <3>3. IsFiniteSet(userRows)
      OBVIOUS
    <3>4. Cardinality(userRows') = Cardinality(userRows)
      BY <3>2, <3>3, FS_Bijection DEF ExistsBijection
    <3> QED  BY <2>1, <3>4 DEF InCreationOrder
  <2> QED  BY <2>1, <2>2 DEF InCreationOrder
<1> QED
  BY <1>2, <1>7, <1>8, <1>9, <1>10, <1>11, <1>12, <1>13

(* UsersInv is inductive: one step per action.                             *)
LEMMA UsersStepInv == UsersInv /\ [UsersNext]_usersVars => UsersInv'
<1> SUFFICES ASSUME UsersInv, [UsersNext]_usersVars PROVE UsersInv'
  OBVIOUS
<1>1. CASE Register
  BY <1>1, RegisterInv
<1>2. ASSUME NEW r \in ChangeRequests, FindAndCompare(r) PROVE UsersInv'
  BY <1>2, CompareInv
<1>3. ASSUME NEW r \in ChangeRequests, UpdatePasswordHash(r) PROVE UsersInv'
  BY <1>3, UpdateInv
<1>4. ASSUME NEW r \in ChangeRequests, AbortChange(r) PROVE UsersInv'
  BY <1>4 DEF AbortChange, UsersInv, UsersTypeOK, SameAccounts, UniqueIds,
              UniqueNames, InCreationOrder, Compared, OverwritesOnlyIfRacing,
              NoChange
<1>5. CASE UNCHANGED usersVars
  BY <1>5 DEF usersVars, UsersInv, UsersTypeOK, SameAccounts, UniqueIds,
              UniqueNames, InCreationOrder, Compared, OverwritesOnlyIfRacing
<1> QED
  BY <1>1, <1>2, <1>3, <1>4, <1>5 DEF UsersNext

LEMMA UsersInvariant == UsersSpec => []UsersInv
  BY UsersInitInv, UsersStepInv, PTL DEF UsersSpec

-----------------------------------------------------------------------------
(* However many password changes run at once, one that replaces anything   *)
(* but the password presented for it lost a race to another change of the  *)
(* account (UpdatePassword, service.go:127).                               *)
THEOREM OnlyRacesOverwrite == UsersSpec => []OverwritesOnlyIfRacing
  BY UsersInvariant, PTL DEF UsersInv

(* Both stores hold the same accounts, none under the id of another, and   *)
(* answer every registration alike (Create, store_postgres.go:26,          *)
(* store_memory.go:30).                                                    *)
THEOREM StoresHoldTheSame ==
    UsersSpec => [](/\ ToSet(memUsers) = userRows
                    /\ UniqueIds
                    /\ registered.pg = registered.mem)
  BY UsersInvariant, PTL DEF UsersInv, SameAccounts

(* The rows come in the order in which they were inserted.                 *)
LEMMA ListsAgree ==
    ASSUME UsersInv
    PROVE  PgListUsers = [k \in DOMAIN MemListUsers |->
                             WithoutHash(MemListUsers[k])]
<1> DEFINE R == OrderOf(userRows, LAMBDA u, v : u.created < v.created)
<1>1. /\ userRows \subseteq Account /\ memUsers \in Seq(Account)
      /\ \A k \in DOMAIN memUsers : memUsers[k] \in userRows
      /\ \A u \in userRows : \E k \in DOMAIN memUsers : memUsers[k] = u
      /\ \A k \in DOMAIN memUsers : memUsers[k].created = k
  BY DEF UsersInv, UsersTypeOK, SameAccounts, InCreationOrder, ToSet
<1>2. \A u, v \in userRows : <<u, v>> \in R <=> u.created < v.created
  BY DEF OrderOf
<1>3. PgListUsers = [k \in DOMAIN InOrderOf(userRows, R) |->
                        WithoutHash(InOrderOf(userRows, R)[k])]
  BY DEF PgListUsers, SortedBy
<1> HIDE DEF R
<1>4. \A u, v \in userRows : u.created = v.created => u = v
  BY <1>1
<1>5. \A u \in userRows : u.created \in Nat
  BY <1>1 DEF Account
<1>6. StrictOrder(userRows, R)
  BY <1>2, <1>4, <1>5 DEF StrictOrder
<1>7. \A i, j \in DOMAIN memUsers :
          i < j => <<memUsers[i], memUsers[j]>> \in R
  BY <1>1, <1>2
<1>8. memUsers \in Seq(userRows)
  BY <1>1
<1>9. InOrderOf(userRows, R) = memUsers
  BY <1>1, <1>6, <1>7, <1>8, InOrderUnique
<1> QED
  BY <1>3, <1>9 DEF MemListUsers

(* A loop over the slice stops at the first of the places it accepts.      *)
LEMMA LoopStops ==
    ASSUME UsersInv, NEW P, P \subseteq DOMAIN memUsers, P # {}
    PROVE  \E k \in P : FirstOf(P) = {memUsers[k]}
<1>1. DOMAIN memUsers \subseteq Nat
  BY DEF UsersInv, UsersTypeOK
<1>2. PICK k \in P : \A j \in P : k <= j
  BY <1>1, LeastMember
<1>3. {i \in P : \A j \in P : i <= j} = {k}
  BY <1>1, <1>2
<1> QED
  BY <1>3 DEF FirstOf

(* FindByID returns the whole account, its hash included.                  *)
LEMMA LookupsByIdAgree ==
    ASSUME UsersInv, NEW i
    PROVE  MemById(i) = PgById(i)
<1> DEFINE P == {k \in DOMAIN memUsers : memUsers[k].id = i}
<1>1. /\ \A k \in DOMAIN memUsers : memUsers[k] \in userRows
      /\ \A u \in userRows : \E k \in DOMAIN memUsers : memUsers[k] = u
      /\ UniqueIds
  BY DEF UsersInv, SameAccounts, ToSet
<1>2. MemById(i) = FirstOf(P)
  BY DEF MemById
<1>3. CASE P = {}
  <2>1. FirstOf(P) = {}
    BY <1>3 DEF FirstOf
  <2>2. PgById(i) = {}
    BY <1>1, <1>3 DEF PgById
  <2> QED  BY <1>2, <2>1, <2>2
<1>4. CASE P # {}
  <2>1. PICK k \in P : FirstOf(P) = {memUsers[k]}
    BY <1>4, LoopStops
  <2>2. PgById(i) = {memUsers[k]}
    BY <1>1, <2>1 DEF PgById, UniqueIds
  <2> QED  BY <1>2, <2>1, <2>2
<1> QED
  BY <1>3, <1>4

LEMMA LookupsAgree ==
    ASSUME UsersInv, NEW text
    PROVE  /\ MemByEmail(text) = PgByEmail(text)
           /\ MemIdentified(text) = PgIdentified(text)
                \/ /\ MemIdentified(text) # {}
                   /\ \E u, v \in userRows :
                          /\ u # v /\ u.username = text /\ v.email = text
                          /\ MemIdentified(text) \subseteq {u, v}
                          /\ PgIdentified(text) = {u, v}
<1>1. /\ \A k \in DOMAIN memUsers : memUsers[k] \in userRows
      /\ \A u \in userRows : \E k \in DOMAIN memUsers : memUsers[k] = u
      /\ UniqueNames
  BY DEF UsersInv, SameAccounts, ToSet
<1>2. MemByEmail(text) = PgByEmail(text)
  <2> DEFINE P == {k \in DOMAIN memUsers : memUsers[k].email = text}
  <2>1. MemByEmail(text) = FirstOf(P)
    BY DEF MemByEmail
  <2>2. CASE P = {}
    <3>1. FirstOf(P) = {}
      BY <2>2 DEF FirstOf
    <3>2. PgByEmail(text) = {}
      BY <1>1, <2>2 DEF PgByEmail
    <3> QED  BY <2>1, <3>1, <3>2
  <2>3. CASE P # {}
    <3>1. PICK k \in P : FirstOf(P) = {memUsers[k]}
      BY <2>3, LoopStops
    <3>2. PgByEmail(text) = {memUsers[k]}
      BY <1>1, <3>1 DEF PgByEmail, UniqueNames
    <3> QED  BY <2>1, <3>1, <3>2
  <2> QED  BY <2>2, <2>3
<1>3. MemIdentified(text) = PgIdentified(text)
        \/ /\ MemIdentified(text) # {}
           /\ \E u, v \in userRows :
                  /\ u # v /\ u.username = text /\ v.email = text
                  /\ MemIdentified(text) \subseteq {u, v}
                  /\ PgIdentified(text) = {u, v}
  <2> DEFINE P == {k \in DOMAIN memUsers : Identifies(memUsers[k], text)}
  <2>1. MemIdentified(text) = FirstOf(P)
    BY DEF MemIdentified
  <2>2. CASE P = {}
    <3>1. FirstOf(P) = {}
      BY <2>2 DEF FirstOf
    <3>2. PgIdentified(text) = {}
      BY <1>1, <2>2 DEF PgIdentified
    <3> QED  BY <2>1, <3>1, <3>2
  <2>3. CASE P # {}
    <3>1. PICK k \in P : FirstOf(P) = {memUsers[k]}
      BY <2>3, LoopStops
    <3>2. memUsers[k] \in PgIdentified(text)
      BY <1>1 DEF PgIdentified
    <3>3. CASE PgIdentified(text) = {memUsers[k]}
      BY <2>1, <3>1, <3>3
    <3>4. CASE PgIdentified(text) # {memUsers[k]}
      <4>1. PICK u \in PgIdentified(text) : u # memUsers[k]
        BY <3>2, <3>4
      <4>2. \A w \in PgIdentified(text) : w = u \/ w = memUsers[k]
        BY <1>1, <3>2, <4>1 DEF PgIdentified, Identifies, UniqueNames
      <4>3. PgIdentified(text) = {u, memUsers[k]}
        BY <3>2, <4>1, <4>2
      <4>4. \/ u.username = text /\ memUsers[k].email = text
            \/ u.email = text /\ memUsers[k].username = text
        BY <1>1, <3>2, <4>1 DEF PgIdentified, Identifies, UniqueNames
      <4>5. u \in userRows /\ memUsers[k] \in userRows
        BY <3>2, <4>1 DEF PgIdentified
      <4>6. MemIdentified(text) = {memUsers[k]}
        BY <2>1, <3>1
      <4> QED  BY <4>1, <4>3, <4>4, <4>5, <4>6
    <3> QED  BY <3>3, <3>4
  <2> QED  BY <2>2, <2>3
<1> QED
  BY <1>2, <1>3

(* After any history of registrations and password changes both stores     *)
(* answered the last registration alike, list the same accounts in the     *)
(* same order, up to the hash that only the list of the memory store       *)
(* carries, and find the same account with the same hash for any id and    *)
(* any text, but for a name that is another account's address              *)
(* (store_memory.go, store_postgres.go).                                   *)
THEOREM UserStoresMirror == UsersSpec => []UserStoresAgree
<1>1. UsersInv => UserStoresAgree
  BY ListsAgree, LookupsByIdAgree, LookupsAgree DEF UserStoresAgree, UsersInv
<1> QED
  BY <1>1, UsersInvariant, PTL

-----------------------------------------------------------------------------
(* Links and tokens.                                                       *)

Link == [token : TokenHashes, code : CodeHashes, email : Emails,
         user : Emails, expires : Nat, used : Nat, created : Nat,
         attempts : Nat]

Token == [jti : Jtis, user : UserIds, expires : Nat, revoked : Nat]

(* A row and a record of the same link.  Once it is locked its count does  *)
(* not matter.                                                             *)
Twins(l, k) ==
    /\ l.token = k.token /\ l.code = k.code
    /\ l.email = k.email /\ l.user = k.user
    /\ l.expires = k.expires /\ l.used = k.used /\ l.created = k.created
    /\ \/ l.attempts = k.attempts
       \/ l.attempts >= CodeMaxAttempts /\ k.attempts >= CodeMaxAttempts

Matched(A, B) ==
    /\ \A l \in A : \E k \in B : Twins(l, k)
    /\ \A k \in B : \E l \in A : Twins(l, k)

UniqueTokens(links) == \A l, k \in links : l.token = k.token => l = k

Unused(l) == l.used = NotYet

(* An address has one link that may still be used.                         *)
OneUnused(links) ==
    \A l, k \in links :
        l.email = k.email /\ Unused(l) /\ Unused(k) => l = k

UniqueJtis == \A s, t \in tokenTable : s.jti = t.jti => s = t

(* A table and the records of a memory store hold the same links.          *)
Alike(A, B) ==
    /\ IsFiniteSet(A)
    /\ A \subseteq Link /\ B \subseteq Link
    /\ Matched(A, B)
    /\ UniqueTokens(A) /\ UniqueTokens(B)
    /\ OneUnused(A) /\ OneUnused(B)

TokensInv ==
    /\ tokenTable \subseteq Token
    /\ tokenRecords = tokenTable
    /\ UniqueJtis

AuthInv ==
    /\ clock \in Nat \ {0}
    /\ Alike(linkTable, linkRecords)
    /\ TokensInv
    /\ replies.pg = replies.mem

-----------------------------------------------------------------------------
LEMMA AuthInitInv == AuthInit => AuthInv
<1> SUFFICES ASSUME AuthInit PROVE AuthInv
  OBVIOUS
<1>1. IsFiniteSet(linkTable)
  BY FS_EmptySet DEF AuthInit
<1> QED
  BY <1>1 DEF AuthInit, AuthInv, Alike, TokensInv, Matched, UniqueTokens,
              OneUnused, UniqueJtis

(* A change of single links, made alike in both stores, keeps the stores   *)
(* alike, if it neither renames a link nor opens it again.                 *)
LEMMA LinksChangeAlike ==
    ASSUME NEW A, NEW B, Alike(A, B),
           NEW F, F = [l \in A |-> F[l]], NEW G, G = [k \in B |-> G[k]],
           \A l \in A : /\ F[l] \in Link /\ F[l].token = l.token
                        /\ F[l].email = l.email
                        /\ Unused(F[l]) => Unused(l),
           \A k \in B : /\ G[k] \in Link /\ G[k].token = k.token
                        /\ G[k].email = k.email
                        /\ Unused(G[k]) => Unused(k),
           \A l \in A, k \in B : Twins(l, k) => Twins(F[l], G[k])
    PROVE  Alike({F[l] : l \in A}, {G[k] : k \in B})
<1> DEFINE C == {F[l] : l \in A}
           D == {G[k] : k \in B}
<1>1. IsFiniteSet(C)
  BY FiniteImage DEF Alike
<1>2. Matched(C, D)
  BY DEF Alike, Matched
<1>3. UniqueTokens(C) /\ UniqueTokens(D)
  BY DEF Alike, UniqueTokens
<1>4. OneUnused(C) /\ OneUnused(D)
  BY DEF Alike, OneUnused
<1>5. C \subseteq Link /\ D \subseteq Link
  OBVIOUS
<1> QED
  BY <1>1, <1>2, <1>3, <1>4, <1>5 DEF Alike

LEMMA SaveLinkInv == AuthInv /\ SaveLink => AuthInv'
<1> SUFFICES ASSUME AuthInv, SaveLink PROVE AuthInv'
  OBVIOUS
<1>1. PICK t \in TokenHashes, c \in CodeHashes, e \in Emails :
        /\ \A l \in linkTable \cup linkRecords : l.token # t
        /\ linkTable' = PgSaveLink(t, c, e)
        /\ linkRecords' = MemSaveLink(t, c, e)
  BY DEF SaveLink
<1>2. UNCHANGED <<clock, tokenTable, tokenRecords, replies>>
  BY DEF SaveLink
<1>3. /\ linkTable \subseteq Link /\ linkRecords \subseteq Link
      /\ clock \in Nat /\ clock # 0
      /\ LinkTTL \in Nat /\ LinkTTL # 0 /\ StaleAge \in Nat
  BY AuthStoresAssumption DEF AuthInv, Alike
<1> DEFINE F == [l \in linkTable |-> Superseded(l, e)]
           G == [l \in linkRecords |-> Superseded(l, e)]
           A == {F[l] : l \in linkTable}
           B == {G[l] : l \in linkRecords}
           new == NewLink(t, c, e)
<1>4. new \in Link /\ new.token = t /\ new.email = e /\ ~Stale(new, clock)
  BY <1>3 DEF NewLink, Link, Stale, NotYet
<1>5. ASSUME NEW l \in Link
      PROVE  /\ Superseded(l, e) \in Link
             /\ Superseded(l, e).token = l.token
             /\ Superseded(l, e).email = l.email
             /\ Unused(Superseded(l, e)) => Unused(l)
             /\ l.email = e => ~Unused(Superseded(l, e))
  BY <1>3 DEF Superseded, Link, NotYet, Unused
<1>6. \A l, k \in Link : Twins(l, k) => Twins(Superseded(l, e), Superseded(k, e))
  BY <1>3 DEF Superseded, Twins, Link
<1>7. /\ \A l \in linkTable :
            /\ F[l] \in Link /\ F[l].token = l.token /\ F[l].email = l.email
            /\ Unused(F[l]) => Unused(l)
            /\ l.email = e => ~Unused(F[l])
      /\ \A l \in linkRecords :
            /\ G[l] \in Link /\ G[l].token = l.token /\ G[l].email = l.email
            /\ Unused(G[l]) => Unused(l)
            /\ l.email = e => ~Unused(G[l])
  BY <1>3, <1>5
<1>8. \A l \in linkTable, k \in linkRecords : Twins(l, k) => Twins(F[l], G[k])
  BY <1>3, <1>6
<1>9. F = [l \in linkTable |-> F[l]] /\ G = [k \in linkRecords |-> G[k]]
  OBVIOUS
<1>10. A = {Superseded(k, e) : k \in linkTable}
       /\ B = {Superseded(k, e) : k \in linkRecords}
  OBVIOUS
<1> HIDE DEF F, G
<1>11. Alike(A, B)
  BY <1>7, <1>8, <1>9, LinksChangeAlike DEF AuthInv
<1>12. \A l \in A \cup B : /\ l \in Link /\ l.token # t
                           /\ l.email = e => ~Unused(l)
  BY <1>1, <1>7
<1>13. linkTable' = {l \in A : ~Stale(l, clock)} \cup {new}
  <2>1. \A l \in Link :
            ~(\/ l.used # NotYet /\ l.used < clock - StaleAge
              \/ l.expires < clock - StaleAge) <=> ~Stale(l, clock)
    BY <1>3 DEF Stale, Link
  <2> HIDE DEF A, new
  <2>2. linkTable' = {l \in A \cup {new} : ~Stale(l, clock)}
    BY <1>1, <1>4, <1>12, <1>10, <2>1 DEF PgSaveLink, new
  <2> QED  BY <1>4, <2>2
<1>14. linkRecords' = {l \in B : ~Stale(l, clock)} \cup {new}
  BY <1>1, <1>10 DEF MemSaveLink
<1> HIDE DEF A, B, new
<1>15. \A l \in A, k \in B : Twins(l, k) => (Stale(l, clock) <=> Stale(k, clock))
  BY DEF Twins, Stale
<1>16. Alike(linkTable', linkRecords')
  <2>1. IsFiniteSet(linkTable')
    BY <1>11, <1>13, FS_Subset, FS_AddElement DEF Alike
  <2>2. linkTable' \subseteq Link /\ linkRecords' \subseteq Link
    BY <1>4, <1>12, <1>13, <1>14
  <2>3. Matched(linkTable', linkRecords')
    <3>1. Twins(new, new)
      BY DEF Twins
    <3> QED  BY <1>11, <1>13, <1>14, <1>15, <3>1 DEF Alike, Matched
  <2>4. UniqueTokens(linkTable') /\ UniqueTokens(linkRecords')
    BY <1>4, <1>12, <1>11, <1>13, <1>14 DEF Alike, UniqueTokens
  <2>5. OneUnused(linkTable') /\ OneUnused(linkRecords')
    BY <1>4, <1>12, <1>11, <1>13, <1>14 DEF Alike, OneUnused
  <2> QED  BY <2>1, <2>2, <2>3, <2>4, <2>5 DEF Alike
<1> QED
  BY <1>2, <1>16 DEF AuthInv, TokensInv, UniqueJtis

LEMMA ConsumeLinkInv == AuthInv /\ ConsumeLink => AuthInv'
<1> SUFFICES ASSUME AuthInv, ConsumeLink PROVE AuthInv'
  OBVIOUS
<1> DEFINE live(t) == {l \in linkTable : /\ l.token = t /\ l.used = NotYet
                                         /\ l.expires > clock}
           rec(t) == {l \in linkRecords : l.token = t}
           wins(t) == \E l \in rec(t) : l.used = NotYet /\ l.expires > clock
<1>1. PICK t \in TokenHashes :
        /\ linkTable' = {IF l \in live(t) THEN [l EXCEPT !.used = clock]
                         ELSE l : l \in linkTable}
        /\ linkRecords' = {IF l \in rec(t) /\ wins(t)
                           THEN [l EXCEPT !.used = clock]
                           ELSE l : l \in linkRecords}
        /\ replies' = [pg |-> {l.user : l \in live(t)},
                       mem |-> IF wins(t) THEN {l.user : l \in rec(t)} ELSE {}]
  BY DEF ConsumeLink
<1>2. UNCHANGED <<clock, tokenTable, tokenRecords>>
  BY DEF ConsumeLink
<1>3. /\ linkTable \subseteq Link /\ linkRecords \subseteq Link
      /\ Matched(linkTable, linkRecords) /\ clock \in Nat \ {0}
      /\ UniqueTokens(linkTable) /\ UniqueTokens(linkRecords)
  BY DEF AuthInv, Alike
<1> DEFINE F == [l \in linkTable |-> IF l \in live(t)
                                     THEN [l EXCEPT !.used = clock] ELSE l]
           G == [l \in linkRecords |-> IF l \in rec(t) /\ wins(t)
                                       THEN [l EXCEPT !.used = clock] ELSE l]
<1>4. ASSUME NEW l \in linkTable, NEW k \in linkRecords, Twins(l, k)
      PROVE  l \in live(t) <=> k \in rec(t) /\ wins(t)
  BY <1>3, <1>4 DEF Twins, UniqueTokens
<1>5. \A l \in linkTable : /\ F[l] \in Link /\ F[l].token = l.token
                           /\ F[l].email = l.email
                           /\ Unused(F[l]) => Unused(l)
  BY <1>3 DEF Link, NotYet, Unused
<1>6. \A k \in linkRecords : /\ G[k] \in Link /\ G[k].token = k.token
                             /\ G[k].email = k.email
                             /\ Unused(G[k]) => Unused(k)
  BY <1>3 DEF Link, NotYet, Unused
<1>7. ASSUME NEW l \in linkTable, NEW k \in linkRecords, Twins(l, k)
      PROVE  Twins(F[l], G[k])
  BY <1>3, <1>4, <1>7 DEF Twins, Link
<1>8. /\ linkTable' = {F[l] : l \in linkTable}
      /\ linkRecords' = {G[k] : k \in linkRecords}
  BY <1>1
<1>9. replies'.pg = replies'.mem
  <2>1. {l.user : l \in live(t)}
          = IF wins(t) THEN {l.user : l \in rec(t)} ELSE {}
    BY <1>3, <1>4 DEF Matched, Twins
  <2> QED  BY <1>1, <2>1
<1>10. /\ F = [l \in linkTable |-> F[l]] /\ G = [k \in linkRecords |-> G[k]]
  OBVIOUS
<1> HIDE DEF F, G
<1>11. Alike(linkTable', linkRecords')
  BY <1>5, <1>6, <1>7, <1>8, <1>10, LinksChangeAlike DEF AuthInv
<1> QED
  BY <1>2, <1>3, <1>9, <1>11 DEF AuthInv, TokensInv, UniqueJtis

LEMMA ConsumeCodeInv == AuthInv /\ ConsumeCode => AuthInv'
<1> SUFFICES ASSUME AuthInv, ConsumeCode PROVE AuthInv'
  OBVIOUS
<1> DEFINE hit(e, c) == {l \in linkTable : /\ Active(l, e) /\ l.code = c
                                           /\ l.attempts < CodeMaxAttempts}
           active(e) == {l \in linkRecords : Active(l, e)}
           newest(e) == {l \in active(e) :
                            \A k \in active(e) : k.created <= l.created}
           open(e) == {l \in newest(e) : l.attempts < CodeMaxAttempts}
           won(e, c) == {l \in open(e) : l.code = c}
<1>1. PICK e \in Emails, c \in CodeHashes :
        /\ linkTable' = {IF l \in hit(e, c) THEN [l EXCEPT !.used = clock]
                         ELSE IF hit(e, c) = {} THEN CountMiss(l, e) ELSE l
                         : l \in linkTable}
        /\ linkRecords' = {IF l \in won(e, c) THEN [l EXCEPT !.used = clock]
                           ELSE IF l \in open(e)
                           THEN [l EXCEPT !.attempts = @ + 1]
                           ELSE l : l \in linkRecords}
        /\ replies' = [pg |-> {l.user : l \in hit(e, c)},
                       mem |-> {l.user : l \in won(e, c)}]
  BY DEF ConsumeCode
<1>2. UNCHANGED <<clock, tokenTable, tokenRecords>>
  BY DEF ConsumeCode
<1>3. /\ linkTable \subseteq Link /\ linkRecords \subseteq Link
      /\ Matched(linkTable, linkRecords) /\ clock \in Nat \ {0}
      /\ OneUnused(linkTable) /\ OneUnused(linkRecords)
  BY DEF AuthInv, Alike
<1>4. /\ CodeMaxAttempts \in Nat /\ SmallIntMax \in Nat
      /\ CodeMaxAttempts <= SmallIntMax
  BY AuthStoresAssumption
<1> DEFINE F == [l \in linkTable |->
                    IF l \in hit(e, c) THEN [l EXCEPT !.used = clock]
                    ELSE IF hit(e, c) = {} THEN CountMiss(l, e) ELSE l]
           G == [l \in linkRecords |->
                    IF l \in won(e, c) THEN [l EXCEPT !.used = clock]
                    ELSE IF l \in open(e) THEN [l EXCEPT !.attempts = @ + 1]
                    ELSE l]
<1>5. newest(e) = active(e)
  BY <1>3 DEF OneUnused, Active, Unused, Link
<1>6. ASSUME NEW l \in linkTable, NEW k \in linkRecords, Twins(l, k)
      PROVE  /\ Active(l, e) <=> k \in active(e)
             /\ l \in hit(e, c) <=> k \in won(e, c)
             /\ Active(l, e) /\ l.attempts < CodeMaxAttempts <=> k \in open(e)
  <2>1. Active(l, e) <=> k \in active(e)
    BY <1>6 DEF Active, Twins
  <2>2. l.attempts < CodeMaxAttempts <=> k.attempts < CodeMaxAttempts
    BY <1>3, <1>4, <1>6 DEF Twins, Link
  <2>3. l.code = k.code
    BY <1>6 DEF Twins
  <2> QED  BY <1>5, <2>1, <2>2, <2>3
<1>7. ASSUME NEW l \in linkTable, Active(l, e), l \notin hit(e, c)
      PROVE  hit(e, c) = {}
  BY <1>3, <1>7 DEF OneUnused, Active, Unused
<1>8. \A l \in linkTable : /\ F[l] \in Link /\ F[l].token = l.token
                           /\ F[l].email = l.email
                           /\ Unused(F[l]) => Unused(l)
  BY <1>3 DEF Link, NotYet, Unused, CountMiss
<1>9. \A k \in linkRecords : /\ G[k] \in Link /\ G[k].token = k.token
                             /\ G[k].email = k.email
                             /\ Unused(G[k]) => Unused(k)
  BY <1>3 DEF Link, NotYet, Unused
<1>10. \A l \in linkTable : ~Active(l, e) => CountMiss(l, e) = l
  BY DEF CountMiss
<1>11. ASSUME NEW l \in linkTable, NEW k \in linkRecords, Twins(l, k)
       PROVE  Twins(F[l], G[k])
  <2>1. CASE l \in hit(e, c)
    <3>1. /\ F[l] = [l EXCEPT !.used = clock]
          /\ G[k] = [k EXCEPT !.used = clock]
      BY <1>6, <1>11, <2>1
    <3> QED  BY <1>3, <1>11, <3>1 DEF Twins, Link
  <2>2. CASE ~Active(l, e)
    <3>1. F[l] = l /\ G[k] = k
      BY <1>5, <1>6, <1>10, <1>11, <2>2
    <3> QED  BY <1>11, <3>1
  <2>3. CASE Active(l, e) /\ l \notin hit(e, c)
    <3>1. F[l] = CountMiss(l, e)
      BY <1>7, <2>3
    <3>2. CASE l.attempts < CodeMaxAttempts
      <4>1. G[k] = [k EXCEPT !.attempts = @ + 1]
        BY <1>6, <1>11, <2>3, <3>2
      <4>2. CountMiss(l, e) = [l EXCEPT !.attempts = @ + 1]
        BY <1>3, <1>4, <2>3, <3>2 DEF CountMiss, Link
      <4> QED  BY <1>3, <1>4, <1>11, <3>1, <3>2, <4>1, <4>2 DEF Twins, Link
    <3>3. CASE ~(l.attempts < CodeMaxAttempts)
      <4>1. G[k] = k
        BY <1>6, <1>11, <2>3, <3>3
      <4>2. k.attempts >= CodeMaxAttempts
        BY <1>3, <1>4, <1>11, <3>3 DEF Twins, Link
      <4> QED
        BY <1>3, <1>4, <1>11, <3>1, <3>3, <4>1, <4>2 DEF Twins, Link, CountMiss
    <3> QED  BY <3>2, <3>3
  <2> QED  BY <2>1, <2>2, <2>3
<1>12. /\ linkTable' = {F[l] : l \in linkTable}
       /\ linkRecords' = {G[k] : k \in linkRecords}
  BY <1>1
<1>13. replies'.pg = replies'.mem
  <2>1. {l.user : l \in hit(e, c)} = {l.user : l \in won(e, c)}
    BY <1>3, <1>6 DEF Matched, Twins
  <2> QED  BY <1>1, <2>1
<1>14. /\ F = [l \in linkTable |-> F[l]] /\ G = [k \in linkRecords |-> G[k]]
  OBVIOUS
<1> HIDE DEF F, G
<1>15. Alike(linkTable', linkRecords')
  BY <1>8, <1>9, <1>11, <1>12, <1>14, LinksChangeAlike DEF AuthInv
<1> QED
  BY <1>2, <1>3, <1>13, <1>15 DEF AuthInv, TokensInv, UniqueJtis

-----------------------------------------------------------------------------
LEMMA SaveTokenInv == AuthInv /\ SaveToken => AuthInv'
  BY DEF AuthInv, TokensInv, UniqueJtis, SaveToken, Token, NotYet, Alike,
         Matched, UniqueTokens, OneUnused

(* What a revocation makes of tokens no two of which are the same.         *)
LEMMA RevokeAlike ==
    ASSUME AuthInv, NEW S, tokenTable' = RevokeIn(tokenTable, S),
           tokenRecords' = RevokeIn(tokenRecords, S)
    PROVE  TokensInv'
<1>1. /\ tokenTable \subseteq Token /\ clock \in Nat /\ UniqueJtis
      /\ tokenRecords = tokenTable
  BY DEF AuthInv, TokensInv
<1>2. \A t \in Token : /\ [t EXCEPT !.revoked = clock] \in Token
                       /\ [t EXCEPT !.revoked = clock].jti = t.jti
  BY <1>1 DEF Token
<1>3. tokenTable' \subseteq Token
  BY <1>1, <1>2 DEF RevokeIn
<1>4. ASSUME NEW s \in tokenTable', NEW t \in tokenTable', s.jti = t.jti
      PROVE  s = t
  <2> DEFINE F(x) == IF x \in S /\ x.revoked = NotYet
                     THEN [x EXCEPT !.revoked = clock] ELSE x
  <2>1. PICK x \in tokenTable : s = F(x)
    BY DEF RevokeIn
  <2>2. PICK y \in tokenTable : t = F(y)
    BY DEF RevokeIn
  <2>3. x.jti = y.jti
    BY <1>1, <1>2, <1>4, <2>1, <2>2
  <2> QED  BY <1>1, <2>1, <2>2, <2>3 DEF UniqueJtis
<1> QED
  BY <1>1, <1>3, <1>4 DEF TokensInv, UniqueJtis

LEMMA ConsumeTokenInv == AuthInv /\ ConsumeToken => AuthInv'
<1> SUFFICES ASSUME AuthInv, ConsumeToken PROVE AuthInv'
  OBVIOUS
<1>1. PICK j \in Jtis :
        LET pg == PgConsumeAnswer(j)
            mem == MemConsumeAnswer(j)
        IN  /\ replies' = [pg |-> {pg}, mem |-> {mem}]
            /\ tokenTable' = RevokeIn(tokenTable,
                   {t \in tokenTable : pg = "ok" /\ t.jti = j})
            /\ tokenRecords' = RevokeIn(tokenRecords,
                   {t \in tokenRecords : mem = "ok" /\ t.jti = j})
  BY DEF ConsumeToken
<1>2. UNCHANGED <<clock, linkTable, linkRecords>>
  BY DEF ConsumeToken
<1>3. /\ tokenTable \subseteq Token /\ clock \in Nat /\ UniqueJtis
      /\ tokenRecords = tokenTable
  BY DEF AuthInv, TokensInv
<1>4. PgConsumeAnswer(j) = MemConsumeAnswer(j)
  BY <1>3 DEF PgConsumeAnswer, MemConsumeAnswer, UniqueJtis, Token
<1> DEFINE S == {t \in tokenTable : PgConsumeAnswer(j) = "ok" /\ t.jti = j}
<1>5. /\ tokenTable' = RevokeIn(tokenTable, S)
      /\ tokenRecords' = RevokeIn(tokenRecords, S)
      /\ replies'.pg = replies'.mem
  BY <1>1, <1>3, <1>4
<1> HIDE DEF S
<1>6. TokensInv'
  BY <1>5, RevokeAlike
<1> QED
  BY <1>2, <1>5, <1>6 DEF AuthInv, Alike, Matched, UniqueTokens, OneUnused

LEMMA RevokeTokenInv == AuthInv /\ RevokeToken => AuthInv'
<1> SUFFICES ASSUME AuthInv, RevokeToken PROVE AuthInv'
  OBVIOUS
<1>1. PICK j \in Jtis :
        /\ tokenTable' = RevokeIn(tokenTable, {t \in tokenTable : t.jti = j})
        /\ tokenRecords' =
               RevokeIn(tokenRecords, {t \in tokenRecords : t.jti = j})
  BY DEF RevokeToken
<1>2. tokenRecords = tokenTable
  BY DEF AuthInv, TokensInv
<1>3. TokensInv'
  BY <1>1, <1>2, RevokeAlike
<1> QED
  BY <1>3 DEF RevokeToken, AuthInv, Alike, Matched, UniqueTokens, OneUnused

LEMMA RevokeAllInv == AuthInv /\ RevokeAllForUser => AuthInv'
<1> SUFFICES ASSUME AuthInv, RevokeAllForUser PROVE AuthInv'
  OBVIOUS
<1>1. PICK u \in UserIds :
        /\ tokenTable' = RevokeIn(tokenTable, {t \in tokenTable : t.user = u})
        /\ tokenRecords' =
               RevokeIn(tokenRecords, {t \in tokenRecords : t.user = u})
  BY DEF RevokeAllForUser
<1>2. tokenRecords = tokenTable
  BY DEF AuthInv, TokensInv
<1>3. TokensInv'
  BY <1>1, <1>2, RevokeAlike
<1> QED
  BY <1>3 DEF RevokeAllForUser, AuthInv, Alike, Matched, UniqueTokens,
              OneUnused

(* AuthInv is inductive: one step per action.                              *)
LEMMA AuthStepInv ==
    AuthInv /\ [LinkStoresNext \/ TokenStoresNext]_authVars => AuthInv'
<1> SUFFICES ASSUME AuthInv, [LinkStoresNext \/ TokenStoresNext]_authVars
             PROVE  AuthInv'
  OBVIOUS
<1>1. CASE AuthTick
  BY <1>1 DEF AuthTick, AuthInv, TokensInv, UniqueJtis, Alike, Matched,
              UniqueTokens, OneUnused
<1>2. CASE UNCHANGED authVars
  BY <1>2 DEF authVars, AuthInv, TokensInv, UniqueJtis, Alike, Matched,
              UniqueTokens, OneUnused
<1> QED
  BY <1>1, <1>2, SaveLinkInv, ConsumeLinkInv, ConsumeCodeInv, SaveTokenInv,
     ConsumeTokenInv, RevokeTokenInv, RevokeAllInv
     DEF LinkStoresNext, TokenStoresNext

LEMMA AuthInvariant == AuthSpec => []AuthInv
  BY AuthInitInv, AuthStepInv, PTL DEF AuthSpec

-----------------------------------------------------------------------------
(* Twins are seen alike.                                                   *)
LEMMA SeenAlike ==
    ASSUME NEW A, NEW B, Alike(A, B)
    PROVE  {Seen(l) : l \in A} = {Seen(k) : k \in B}
<1>1. ASSUME NEW l \in Link, NEW k \in Link, Twins(l, k)
      PROVE  Seen(l) = Seen(k)
  BY <1>1, AuthStoresAssumption DEF Twins, Seen, Link
<1>2. \A l \in A : \E k \in B : Seen(l) = Seen(k)
  BY <1>1 DEF Alike, Matched
<1>3. \A k \in B : \E l \in A : Seen(l) = Seen(k)
  BY <1>1 DEF Alike, Matched
<1> QED
  BY <1>2, <1>3

(* Links are counted alike, for a row and its record have one token.       *)
LEMMA CountsAlike ==
    ASSUME NEW A, NEW B, Alike(A, B), NEW e
    PROVE  CountRecent(A, e) = CountRecent(B, e)
<1> DEFINE recent(X) ==
               {l \in X : l.email = e /\ l.created > clock - CountWindow}
           S == recent(A)
           T == recent(B)
           twin == [l \in S |-> CHOOSE k \in T : k.token = l.token]
<1>1. \A l \in S : \E k \in T : k.token = l.token
  BY DEF Alike, Matched, Twins
<1>2. \A k \in T : \E l \in S : k.token = l.token
  BY DEF Alike, Matched, Twins
<1>3. \A l \in S : twin[l] \in T /\ twin[l].token = l.token
  BY <1>1
<1>4. UniqueTokens(S) /\ UniqueTokens(T) /\ IsFiniteSet(S)
  BY FS_Subset DEF Alike, UniqueTokens
<1>5. CountRecent(A, e) = Cardinality(S) /\ CountRecent(B, e) = Cardinality(T)
  BY DEF CountRecent
<1>6. twin \in [S -> T]
  BY <1>3
<1> HIDE DEF twin, S, T
<1>7. \A k \in T : \E l \in S : twin[l] = k
  BY <1>2, <1>3, <1>4 DEF UniqueTokens
<1>8. \A l, m \in S : twin[l] = twin[m] => l = m
  BY <1>3, <1>4 DEF UniqueTokens
<1>9. twin \in Bijection(S, T)
  BY <1>6, <1>7, <1>8 DEF Bijection, Injection, Surjection, IsInjective
<1>10. Cardinality(T) = Cardinality(S)
  BY <1>4, <1>9, FS_Bijection DEF ExistsBijection
<1> QED
  BY <1>5, <1>10

(* However many links, codes and tokens are saved, presented, missed and   *)
(* revoked, the memory stores answer as the tables do and hold the same    *)
(* usable links and tokens, and the limit of mails counts the same         *)
(* ("the same observable contract", store_memory.go:10,                    *)
(* store_magic_memory.go:12).                                              *)
THEOREM AuthStoresMirror == AuthSpec => []AuthStoresAgree
<1>1. AuthInv => AuthStoresAgree
  BY SeenAlike, CountsAlike DEF AuthInv, TokensInv, AuthStoresAgree
<1> QED
  BY <1>1, AuthInvariant, PTL
=============================================================================
