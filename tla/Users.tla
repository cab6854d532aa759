-------------------------------- MODULE Users --------------------------------
(***************************************************************************)
(* Accounts (internal/user: service.go, store_postgres.go,                 *)
(* store_memory.go): registration, the lookups behind a login, the list,   *)
(* and the two calls of a password change, on the Postgres table and on    *)
(* the slice of the memory store, given the same calls.                    *)
(*                                                                         *)
(* A name may be any text of three characters, another account's address   *)
(* included.  Texts are taken trimmed, addresses in lower case, and a      *)
(* password stands for its bcrypt hash.                                    *)
(***************************************************************************)
EXTENDS Naturals, Sequences, FiniteSets, SequencesExt, Ordering

CONSTANTS
    Usernames, Addresses,    \* texts; they may have some in common
    Passwords,
    AccountIds,
    ChangeRequests           \* slots for password changes in progress

VARIABLES
    userRows,     \* table users: [id, username, email, hash, created]
    memUsers,     \* MemoryStore.users
    change,       \* the changes in progress
    registered,   \* what the last registration answered: [pg, mem]
    (* history *)
    written       \* of the last UPDATE: the password presented for it, the
                  \* one it replaced, and whether another change of the
                  \* account was stored in between

usersVars == <<userRows, memUsers, change, registered, written>>

NoChange == [op |-> "idle"]

-----------------------------------------------------------------------------
(* FindByUsernameOrEmail: the row Postgres returns is any that matches,    *)
(* as nothing orders them; memory returns the first.                       *)
Identifies(u, text) == u.username = text \/ u.email = text

PgIdentified(text) == {u \in userRows : Identifies(u, text)}

FirstOf(places) ==
    {memUsers[k] : k \in {i \in places : \A j \in places : i <= j}}

MemIdentified(text) ==
    FirstOf({k \in DOMAIN memUsers : Identifies(memUsers[k], text)})

PgByEmail(text) == {u \in userRows : u.email = text}

MemByEmail(text) ==
    FirstOf({k \in DOMAIN memUsers : memUsers[k].email = text})

PgById(i) == {u \in userRows : u.id = i}

MemById(i) == FirstOf({k \in DOMAIN memUsers : memUsers[k].id = i})

(* List.  Postgres orders by created_at and "never selects password_hash"; *)
(* memory copies the slice as it is, hashes included.                      *)
WithoutHash(u) == [id |-> u.id, username |-> u.username, email |-> u.email,
                   created |-> u.created]

PgListUsers ==
    LET rows == SortedBy(userRows, LAMBDA u, v : u.created < v.created)
    IN  [k \in DOMAIN rows |-> WithoutHash(rows[k])]

MemListUsers == memUsers

-----------------------------------------------------------------------------
(* Create: the unique indexes, and the loop that mirrors them.             *)
PgTaken(name, email) == \E u \in userRows : u.username = name \/ u.email = email

(* The seeded fault: only the name has to be free.                         *)
MemTakenByName(name, email) ==
    \E k \in DOMAIN memUsers : memUsers[k].username = name

MemTaken(name, email) ==
    \E k \in DOMAIN memUsers : \/ memUsers[k].username = name
                               \/ memUsers[k].email = email

(* Register.  Every insert is later than those before it.                  *)
Register ==
    /\ \E n \in Usernames, e \in Addresses, p \in Passwords,
          i \in AccountIds \ {u.id : u \in userRows} :
        LET u == [id |-> i, username |-> n, email |-> e, hash |-> p,
                  created |-> Cardinality(userRows) + 1]
        IN  /\ registered' = [pg |-> PgTaken(n, e), mem |-> MemTaken(n, e)]
            /\ userRows' = IF PgTaken(n, e) THEN userRows
                           ELSE userRows \cup {u}
            /\ memUsers' = IF MemTaken(n, e) THEN memUsers
                           ELSE Append(memUsers, u)
    /\ UNCHANGED <<change, written>>

-----------------------------------------------------------------------------
(* The seeded fault: the current password is not compared.                 *)
AnyPassword(users, i, p) == \E u \in users : u.id = i

(* FindByID, and the comparison with the hash it returns.                  *)
Verifies(users, i, p) == \E u \in users : u.id = i /\ u.hash = p

(* UpdatePassword up to its UPDATE.  One that is refused changes nothing.  *)
FindAndCompare(r) ==
    /\ change[r] = NoChange
    /\ \E i \in AccountIds, p, n \in Passwords :
        /\ Verifies(userRows, i, p) \/ Verifies(ToSet(memUsers), i, p)
        /\ change' = [change EXCEPT ![r] =
               [op |-> "update", id |-> i, presented |-> p, new |-> n,
                pg |-> Verifies(userRows, i, p),
                mem |-> Verifies(ToSet(memUsers), i, p), raced |-> FALSE]]
    /\ UNCHANGED <<userRows, memUsers, registered, written>>

(* UpdatePasswordHash looks at the id alone.                               *)
UpdatePasswordHash(r) ==
    /\ change[r].op = "update"
    /\ LET c == change[r]
           set(u, ok) == IF ok /\ u.id = c.id THEN [u EXCEPT !.hash = c.new]
                         ELSE u
       IN  /\ userRows' = {set(u, c.pg) : u \in userRows}
           /\ memUsers' = [k \in DOMAIN memUsers |-> set(memUsers[k], c.mem)]
           /\ written' = [presented |-> c.presented,
                          replaced |-> {u.hash : u \in
                                           {v \in userRows : v.id = c.id}},
                          raced |-> c.raced]
           /\ change' = [s \in ChangeRequests |->
                  IF s = r THEN NoChange
                  ELSE IF change[s].op = "update" /\ change[s].id = c.id
                  THEN [change[s] EXCEPT !.raced = TRUE]
                  ELSE change[s]]
    /\ UNCHANGED registered

(* The request ends between the two calls.                                 *)
AbortChange(r) ==
    /\ change[r].op = "update"
    /\ change' = [change EXCEPT ![r] = NoChange]
    /\ UNCHANGED <<userRows, memUsers, registered, written>>

UsersInit ==
    /\ userRows = {} /\ memUsers = <<>>
    /\ change = [r \in ChangeRequests |-> NoChange]
    /\ registered = [pg |-> FALSE, mem |-> FALSE]
    /\ LET any == CHOOSE p \in Passwords : TRUE
       IN  written = [presented |-> any, replaced |-> {any}, raced |-> FALSE]

UsersNext ==
    \/ Register
    \/ \E r \in ChangeRequests :
           FindAndCompare(r) \/ UpdatePasswordHash(r) \/ AbortChange(r)

UsersSpec == UsersInit /\ [][UsersNext]_usersVars

-----------------------------------------------------------------------------
(* The memory store mirrors the table: every registration is answered      *)
(* alike, both list the same accounts in the same order, up to the hash    *)
(* that only memory's list carries, and both find the same account, with   *)
(* the same hash, by id, by address and by identifier.  Only where a name  *)
(* is the address of another account there are two to find, and Postgres   *)
(* may return either (Create, store_memory.go:30; List,                    *)
(* store_postgres.go:99; FindByUsernameOrEmail, store_postgres.go:52).     *)
UserStoresAgree ==
    /\ registered.pg = registered.mem
    /\ PgListUsers = [k \in DOMAIN MemListUsers |-> WithoutHash(MemListUsers[k])]
    /\ \A i \in AccountIds : MemById(i) = PgById(i)
    /\ \A text \in Usernames \cup Addresses :
        /\ MemByEmail(text) = PgByEmail(text)
        /\ MemIdentified(text) = PgIdentified(text)
             \/ /\ MemIdentified(text) # {}
                /\ \E u, v \in userRows :
                       /\ u # v /\ u.username = text /\ v.email = text
                       /\ MemIdentified(text) \subseteq {u, v}
                       /\ PgIdentified(text) = {u, v}

(* A change replaces the password that was presented for it, except where  *)
(* another change of the account was stored between its comparison and its *)
(* UPDATE: then the later one wins (UpdatePassword, service.go:127).       *)
OverwritesOnlyIfRacing ==
    written.replaced # {written.presented} => written.raced
=============================================================================
