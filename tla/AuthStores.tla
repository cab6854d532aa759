----------------------------- MODULE AuthStores -----------------------------
(***************************************************************************)
(* The stores behind sessions and magic links (internal/auth:              *)
(* store_postgres.go, store_magic_postgres.go; store_memory.go,            *)
(* store_magic_memory.go), given the same calls one after the other.  "It  *)
(* keeps the same observable contract as the Postgres store": MagicLinks   *)
(* and Sessions model the Postgres statements under concurrency, and this  *)
(* module shows what the memory stores of tests and cmd/memserver stand    *)
(* for.  Both stores read one clock.                                       *)
(***************************************************************************)
EXTENDS Naturals, FiniteSets

CONSTANTS
    Emails, CodeHashes, TokenHashes, Jtis, UserIds,
    LinkTTL, StaleAge,      \* magicLinkTTL, magicLinkStaleAge
    CountWindow,            \* how far back CountRecent looks
    CodeMaxAttempts,        \* magicCodeMaxAttempts
    SmallIntMax,            \* largest value of the column code_attempts
    MaxClock                \* bound: the clock

ASSUME AuthStoresAssumption ==
    /\ {LinkTTL, StaleAge, CountWindow, CodeMaxAttempts, SmallIntMax,
        MaxClock} \subseteq Nat \ {0}
    /\ CodeMaxAttempts <= SmallIntMax

VARIABLES
    clock,
    linkTable,     \* table magic_links, a row per token hash
    linkRecords,   \* MemoryMagicStore.records
    tokenTable,    \* table refresh_tokens, a row per jti
    tokenRecords,  \* MemoryRefreshStore.records
    replies        \* what the last call answered: [pg, mem]

authVars == <<clock, linkTable, linkRecords, tokenTable, tokenRecords,
              replies>>

NotYet == 0   \* NULL, and the nil pointer: the clock starts at 1

(* Save supersedes the unused links of the address, inserts, and deletes   *)
(* what was used or expired long ago.                                      *)
NewLink(t, c, e) == [token |-> t, code |-> c, email |-> e, user |-> e,
                     expires |-> clock + LinkTTL, used |-> NotYet,
                     created |-> clock, attempts |-> 0]

Superseded(l, e) == IF l.email = e /\ l.used = NotYet
                    THEN [l EXCEPT !.used = clock] ELSE l

Stale(l, now) == \/ l.used # NotYet /\ l.used + StaleAge < now
                 \/ l.expires + StaleAge < now

(* Postgres: UPDATE, INSERT, DELETE.                                       *)
PgSaveLink(t, c, e) ==
    {l \in {Superseded(k, e) : k \in linkTable} \cup {NewLink(t, c, e)} :
        ~(\/ l.used # NotYet /\ l.used < clock - StaleAge
          \/ l.expires < clock - StaleAge)}

(* Memory: the new record comes last and is never deleted.                 *)
MemSaveLink(t, c, e) ==
    {l \in {Superseded(k, e) : k \in linkRecords} : ~Stale(l, clock)}
      \cup {NewLink(t, c, e)}

SaveLink ==
    /\ \E t \in TokenHashes, c \in CodeHashes, e \in Emails :
        /\ \A l \in linkTable \cup linkRecords : l.token # t
        /\ linkTable' = PgSaveLink(t, c, e)
        /\ linkRecords' = MemSaveLink(t, c, e)
    /\ UNCHANGED <<clock, tokenTable, tokenRecords, replies>>

(* Consume: the compare and swap, and the three checks under the mutex.    *)
ConsumeLink ==
    /\ \E t \in TokenHashes :
        LET live == {l \in linkTable : /\ l.token = t /\ l.used = NotYet
                                       /\ l.expires > clock}
            rec == {l \in linkRecords : l.token = t}
            wins == \E l \in rec : l.used = NotYet /\ l.expires > clock
        IN  /\ linkTable' = {IF l \in live THEN [l EXCEPT !.used = clock]
                             ELSE l : l \in linkTable}
            /\ linkRecords' = {IF l \in rec /\ wins
                               THEN [l EXCEPT !.used = clock]
                               ELSE l : l \in linkRecords}
            /\ replies' = [pg |-> {l.user : l \in live},
                           mem |-> IF wins THEN {l.user : l \in rec} ELSE {}]
    /\ UNCHANGED <<clock, tokenTable, tokenRecords>>

Active(l, e) == l.email = e /\ l.used = NotYet /\ l.expires > clock

(* The seeded fault: the counter wraps around.                             *)
CountMissWraps(l, e) ==
    IF Active(l, e)
    THEN [l EXCEPT !.attempts = (@ + 1) % (SmallIntMax + 1)] ELSE l

(* The UPDATE that counts a miss.  A counter at its limit fails, and the   *)
(* error is dropped.                                                       *)
CountMiss(l, e) ==
    IF Active(l, e) /\ l.attempts < SmallIntMax
    THEN [l EXCEPT !.attempts = @ + 1] ELSE l

(* ConsumeCode: Postgres spends every row that matches and counts a miss   *)
(* on every active one, locked or not; memory looks at the newest active   *)
(* record and leaves it alone once it is locked.                           *)
ConsumeCode ==
    /\ \E e \in Emails, c \in CodeHashes :
        LET hit == {l \in linkTable : /\ Active(l, e) /\ l.code = c
                                      /\ l.attempts < CodeMaxAttempts}
            active == {l \in linkRecords : Active(l, e)}
            newest == {l \in active :
                          \A k \in active : k.created <= l.created}
            open == {l \in newest : l.attempts < CodeMaxAttempts}
            won == {l \in open : l.code = c}
        IN  /\ linkTable' =
                   {IF l \in hit THEN [l EXCEPT !.used = clock]
                    ELSE IF hit = {} THEN CountMiss(l, e) ELSE l
                    : l \in linkTable}
            /\ linkRecords' =
                   {IF l \in won THEN [l EXCEPT !.used = clock]
                    ELSE IF l \in open THEN [l EXCEPT !.attempts = @ + 1]
                    ELSE l : l \in linkRecords}
            /\ replies' = [pg |-> {l.user : l \in hit},
                           mem |-> {l.user : l \in won}]
    /\ UNCHANGED <<clock, tokenTable, tokenRecords>>

(* CountRecent                                                             *)
CountRecent(links, e) ==
    Cardinality({l \in links : l.email = e /\ l.created > clock - CountWindow})

-----------------------------------------------------------------------------
(* RefreshStore: Save, Consume, Revoke, RevokeAllForUser.                  *)
SaveToken ==
    /\ \E j \in Jtis, u \in UserIds :
        LET rec == [jti |-> j, user |-> u, expires |-> clock + 2,
                    revoked |-> NotYet]
        IN  /\ \A t \in tokenTable \cup tokenRecords : t.jti # j
            /\ tokenTable' = tokenTable \cup {rec}
            /\ tokenRecords' = tokenRecords \cup {rec}
    /\ UNCHANGED <<clock, linkTable, linkRecords, replies>>

RevokeIn(tokens, S) == {IF t \in S /\ t.revoked = NotYet
                        THEN [t EXCEPT !.revoked = clock] ELSE t
                        : t \in tokens}

(* The UPDATE, and the SELECT that classifies a row it did not match.      *)
PgConsumeAnswer(j) ==
    LET rows == {t \in tokenTable : t.jti = j}
    IN  IF \E t \in rows : t.revoked = NotYet /\ t.expires > clock THEN "ok"
        ELSE IF \E t \in rows : t.revoked # NotYet THEN "reused"
        ELSE "invalid"

(* The checks under the mutex, in their order.                             *)
MemConsumeAnswer(j) ==
    LET rec == {t \in tokenRecords : t.jti = j}
    IN  IF rec = {} THEN "invalid"
        ELSE IF \E t \in rec : t.revoked # NotYet THEN "reused"
        ELSE IF \E t \in rec : t.expires <= clock THEN "invalid"
        ELSE "ok"

ConsumeToken ==
    /\ \E j \in Jtis :
        LET pg == PgConsumeAnswer(j)
            mem == MemConsumeAnswer(j)
        IN  /\ replies' = [pg |-> {pg}, mem |-> {mem}]
            /\ tokenTable' = RevokeIn(tokenTable,
                   {t \in tokenTable : pg = "ok" /\ t.jti = j})
            /\ tokenRecords' = RevokeIn(tokenRecords,
                   {t \in tokenRecords : mem = "ok" /\ t.jti = j})
    /\ UNCHANGED <<clock, linkTable, linkRecords>>

RevokeToken ==
    /\ \E j \in Jtis :
        /\ tokenTable' = RevokeIn(tokenTable, {t \in tokenTable : t.jti = j})
        /\ tokenRecords' =
               RevokeIn(tokenRecords, {t \in tokenRecords : t.jti = j})
    /\ UNCHANGED <<clock, linkTable, linkRecords, replies>>

RevokeAllForUser ==
    /\ \E u \in UserIds :
        /\ tokenTable' = RevokeIn(tokenTable, {t \in tokenTable : t.user = u})
        /\ tokenRecords' =
               RevokeIn(tokenRecords, {t \in tokenRecords : t.user = u})
    /\ UNCHANGED <<clock, linkTable, linkRecords, replies>>

AuthTick ==
    /\ clock < MaxClock
    /\ clock' = clock + 1
    /\ UNCHANGED <<linkTable, linkRecords, tokenTable, tokenRecords, replies>>

AuthInit ==
    /\ clock = 1
    /\ linkTable = {} /\ linkRecords = {}
    /\ tokenTable = {} /\ tokenRecords = {}
    /\ replies = [pg |-> {}, mem |-> {}]

(* The two stores share nothing but the clock: each is run on its own.     *)
LinkStoresNext == SaveLink \/ ConsumeLink \/ ConsumeCode \/ AuthTick

TokenStoresNext == \/ SaveToken \/ ConsumeToken \/ RevokeToken
                   \/ RevokeAllForUser \/ AuthTick

AuthSpec == AuthInit /\ [][LinkStoresNext \/ TokenStoresNext]_authVars

-----------------------------------------------------------------------------
(* A link as its store lets it be seen.                                    *)
Seen(l) == [l EXCEPT !.attempts =
                IF @ < CodeMaxAttempts THEN @ ELSE CodeMaxAttempts]

(* "It keeps the same observable contract as the Postgres store"           *)
(* (store_memory.go:10, store_magic_memory.go:12): every call of a serial  *)
(* history is answered alike, the same links and tokens are usable, locked *)
(* and counted, though Postgres goes on counting misses on a locked row,   *)
(* even to the end of the column (store_magic_postgres.go:105).            *)
AuthStoresAgree ==
    /\ replies.pg = replies.mem
    /\ {Seen(l) : l \in linkTable} = {Seen(l) : l \in linkRecords}
    /\ tokenTable = tokenRecords
    /\ \A e \in Emails :
           CountRecent(linkTable, e) = CountRecent(linkRecords, e)
=============================================================================
