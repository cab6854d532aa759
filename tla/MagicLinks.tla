----------------------------- MODULE MagicLinks -----------------------------
(***************************************************************************)
(* Passwordless login: a request mails a single-use link and code, and     *)
(* either is exchanged for a session (internal/auth/magic.go,              *)
(* store_magic_postgres.go).                                               *)
(*                                                                         *)
(* As in Sessions, a request r makes one call per action: PostgresMagic-   *)
(* Store runs several statements outside a transaction, so Save and a      *)
(* failed ConsumeCode are two or three actions each.  Accounts are never   *)
(* renamed or deleted, so FindByEmail belongs to the call before it; an    *)
(* email without an account leaves no trace and is left out.               *)
(***************************************************************************)
EXTENDS Naturals, FiniteSets

CONSTANTS Emails,       \* registered addresses
          Links,        \* identities of links (their token hashes)
          Codes,        \* 8-digit codes, drawn at random: two may be equal
          Requests,     \* slots for HTTP requests in progress
          None,
          LinkTTL,      \* lifetime of a link, in ticks
          RateWindow,   \* magicLinkRateWindow
          RateLimit,    \* magicLinkRateLimit
          StaleAge,     \* magicLinkStaleAge
          MaxAttempts,  \* magicCodeMaxAttempts
          MaxTime,      \* bound on the clock
          MaxMisses,    \* bound on wrong codes
          MayAbort      \* TRUE: a request may stop between two calls

ASSUME ConstantsAssumption ==
    /\ None \notin Emails \cup Links \cup Codes
    /\ {LinkTTL, RateWindow, RateLimit, StaleAge} \subseteq Nat
    /\ {MaxAttempts, MaxTime, MaxMisses} \subseteq Nat
    /\ RateWindow <= StaleAge
    /\ MayAbort \in BOOLEAN

ASSUME RequestsAssumption == IsFiniteSet(Requests) /\ Requests # {}

VARIABLES
    (* the magic_links table *)
    rows,        \* links with a row
    email,       \* email[l]
    code,        \* code[l]
    created,     \* created[l]
    expires,     \* expires[l]
    used,        \* links with used_at set
    usedAt,      \* usedAt[l], once it is used
    attempts,    \* attempts[l]: code_attempts
    mailed,      \* links whose mail was sent
    granted,     \* granted[l]: sessions saved on the strength of l
    (* requests in progress *)
    pc,          \* pc[r]: the call r makes next
    who,         \* who[r]: the email r acts for
    link,        \* link[r]: the link r creates or has redeemed
    at,          \* at[r]: the time r read at its start
    now,
    (* history *)
    pruned,      \* links whose row was deleted
    superseded,  \* links a later request put out of use
    saw,         \* saw[l]: rows that existed when l's request superseded
    tries,       \* tries[l]: wrong codes judged while l was open to codes
    misses,      \* wrong codes so far
    uncounted    \* wrong codes whose attempt was never recorded

table == <<rows, email, code, created, expires, used, usedAt, attempts>>
handler == <<pc, who, link, at>>
history == <<pruned, superseded, saw, tries, misses, uncounted>>
vars == <<rows, email, code, created, expires, used, usedAt, attempts,
          mailed, granted, pc, who, link, at, now,
          pruned, superseded, saw, tries, misses, uncounted>>

Steps == {"idle", "supersede", "insert", "prune", "mail", "miss", "session"}

Inserted == rows \cup pruned
Drawn == Inserted \cup {link[r] : r \in Requests}

Init ==
    /\ rows = {} /\ used = {} /\ mailed = {}
    /\ email = [l \in Links |-> None]
    /\ code = [l \in Links |-> None]
    /\ created = [l \in Links |-> 0]
    /\ expires = [l \in Links |-> 0]
    /\ usedAt = [l \in Links |-> 0]
    /\ attempts = [l \in Links |-> 0]
    /\ granted = [l \in Links |-> 0]
    /\ pc = [r \in Requests |-> "idle"]
    /\ who = [r \in Requests |-> None]
    /\ link = [r \in Requests |-> None]
    /\ at = [r \in Requests |-> 0]
    /\ now = 0
    /\ pruned = {} /\ superseded = {}
    /\ saw = [l \in Links |-> {}]
    /\ tries = [l \in Links |-> 0]
    /\ misses = 0 /\ uncounted = 0

Goto(r, step, e, l, t) ==
    /\ pc' = [pc EXCEPT ![r] = step]
    /\ who' = [who EXCEPT ![r] = e]
    /\ link' = [link EXCEPT ![r] = l]
    /\ at' = [at EXCEPT ![r] = t]

Continue(r, step) == Goto(r, step, who[r], link[r], at[r])
Finish(r) == Goto(r, "idle", None, None, 0)

-----------------------------------------------------------------------------
(* Rows of e with used_at NULL, those still open at t, and the seeded      *)
(* fault of leaving out the rows of the current moment.                    *)
EarlierUnused(e) == {l \in rows \ used : email[l] = e /\ created[l] < now}
Unused(e) == {l \in rows \ used : email[l] = e}
Usable(e, t) == {l \in Unused(e) : expires[l] > t}

(* Rows that count against the hourly limit of e, and the seeded fault of  *)
(* forgetting those that were used.                                        *)
RecentUnused(e) == {l \in Unused(e) : created[l] + RateWindow > now}
Recent(e) == {l \in rows : email[l] = e /\ created[l] + RateWindow > now}

(* Magic.Request: CountRecent allows one more link, and it is drawn.  A    *)
(* request over the limit changes nothing.                                 *)
CountRecent(r, e) ==
    /\ pc[r] = "idle"
    /\ Cardinality(Recent(e)) < RateLimit
    /\ \E l \in Links \ Drawn : Goto(r, "supersede", e, l, now)
    /\ UNCHANGED <<table, mailed, granted, now, history>>

(* MagicStore.Save, the UPDATE: the unused links of the address are used.  *)
Supersede(r) ==
    /\ pc[r] = "supersede"
    /\ LET old == Unused(who[r]) IN
        /\ used' = used \cup old
        /\ usedAt' = [l \in Links |-> IF l \in old THEN now ELSE usedAt[l]]
        /\ superseded' = superseded \cup old
    /\ saw' = [saw EXCEPT ![link[r]] = rows]
    /\ Continue(r, "insert")
    /\ UNCHANGED <<rows, email, code, created, expires, attempts, mailed,
                   granted, now, pruned, tries, misses, uncounted>>

(* Seeded fault: the error of the INSERT is ignored.                       *)
InsertErrorIgnored(r) ==
    /\ pc[r] = "insert"
    /\ Continue(r, "prune")
    /\ UNCHANGED <<table, mailed, granted, now, history>>

(* The INSERT: created_at is the database's clock, expires_at was computed *)
(* when the request started.                                               *)
Insert(r) ==
    /\ pc[r] = "insert"
    /\ rows' = rows \cup {link[r]}
    /\ email' = [email EXCEPT ![link[r]] = who[r]]
    /\ \E c \in Codes : code' = [code EXCEPT ![link[r]] = c]
    /\ created' = [created EXCEPT ![link[r]] = now]
    /\ expires' = [expires EXCEPT ![link[r]] = at[r] + LinkTTL]
    /\ Continue(r, "prune")
    /\ UNCHANGED <<used, usedAt, attempts, mailed, granted, now, history>>

(* Rows used or expired more than StaleAge ago, and the seeded fault of    *)
(* taking every used row for stale.                                        *)
StaleOrUsed == used \cup {l \in rows : expires[l] + StaleAge < now}
Stale == {l \in rows : \/ l \in used /\ usedAt[l] + StaleAge < now
                       \/ expires[l] + StaleAge < now}

(* The DELETE that ends Save, whose errors are ignored.                    *)
Prune(r) ==
    /\ pc[r] = "prune"
    /\ rows' = rows \ Stale
    /\ used' = used \ Stale
    /\ pruned' = pruned \cup Stale
    /\ Continue(r, "mail")
    /\ UNCHANGED <<email, code, created, expires, usedAt, attempts, mailed,
                   granted, now, superseded, saw, tries, misses, uncounted>>

(* Mailer.Send: the client may use the link and the code from now on.      *)
Mail(r) ==
    /\ pc[r] = "mail"
    /\ mailed' = mailed \cup {link[r]}
    /\ Finish(r)
    /\ UNCHANGED <<table, granted, now, history>>

-----------------------------------------------------------------------------
(* Rows open to tokens, and the seeded fault of forgetting used_at.        *)
RedeemableAgain(l) == l \in rows /\ expires[l] > now
Redeemable(l) == l \in Usable(email[l], now)

(* MagicStore.Consume, for Verify: one UPDATE spends an open link.  With   *)
(* any other token nothing changes.                                        *)
Consume(r, l) ==
    /\ pc[r] = "idle"
    /\ l \in mailed /\ Redeemable(l)
    /\ used' = used \cup {l}
    /\ usedAt' = [usedAt EXCEPT ![l] = now]
    /\ Goto(r, "session", email[l], l, now)
    /\ UNCHANGED <<rows, email, code, created, expires, attempts, mailed,
                   granted, now, history>>

(* Rows open to codes, and the seeded fault of forgetting the cap.         *)
OpenUncapped(e) == Usable(e, now)
Open(e) == {l \in Usable(e, now) : attempts[l] < MaxAttempts}

(* MagicStore.ConsumeCode, for VerifyCode: every open row of the address   *)
(* with this code is spent, and the first one returned is redeemed ...     *)
ConsumeCode(r, e, c) ==
    /\ pc[r] = "idle"
    /\ LET hit == {l \in Open(e) : code[l] = c} IN
        /\ hit # {}
        /\ used' = used \cup hit
        /\ usedAt' = [l \in Links |-> IF l \in hit THEN now ELSE usedAt[l]]
        /\ \E l \in hit : Goto(r, "session", e, l, now)
    /\ UNCHANGED <<rows, email, code, created, expires, attempts, mailed,
                   granted, now, history>>

(* ... or there is none, whether the code is wrong or the row is locked.   *)
ConsumeCodeMiss(r, e, c) ==
    /\ pc[r] = "idle"
    /\ misses < MaxMisses
    /\ {l \in Open(e) : code[l] = c} = {}
    /\ tries' = [l \in Links |-> IF l \in Open(e) THEN tries[l] + 1
                                                   ELSE tries[l]]
    /\ misses' = misses + 1
    /\ Goto(r, "miss", e, None, now)
    /\ UNCHANGED <<table, mailed, granted, now,
                   pruned, superseded, saw, uncounted>>

(* A second UPDATE records the attempt on the rows that are open by now.   *)
CountAttempt(r) ==
    /\ pc[r] = "miss"
    /\ attempts' = [l \in Links |->
          IF l \in Usable(who[r], at[r]) THEN attempts[l] + 1
                                         ELSE attempts[l]]
    /\ Finish(r)
    /\ UNCHANGED <<rows, email, code, created, expires, used, usedAt, mailed,
                   granted, now, history>>

(* issuePair: the redeemed link becomes a session (Sessions!Authenticate   *)
(* and Save).                                                              *)
IssuePair(r) ==
    /\ pc[r] = "session"
    /\ granted' = [granted EXCEPT ![link[r]] = @ + 1]
    /\ Finish(r)
    /\ UNCHANGED <<table, mailed, now, history>>

(* A call fails, the client goes away or the process dies: what was done   *)
(* stays done.  A lost count of an attempt is ignored by the code, and so  *)
(* is a failed DELETE.                                                     *)
Abort(r) ==
    /\ MayAbort
    /\ pc[r] # "idle"
    /\ uncounted' = IF pc[r] = "miss" THEN uncounted + 1 ELSE uncounted
    /\ IF pc[r] = "prune" THEN Continue(r, "mail") \/ Finish(r) ELSE Finish(r)
    /\ UNCHANGED <<table, mailed, granted, now,
                   pruned, superseded, saw, tries, misses>>

Tick ==
    /\ now < MaxTime
    /\ now' = now + 1
    /\ UNCHANGED <<table, mailed, granted, handler, history>>

Next ==
    \/ \E r \in Requests :
        \/ \E e \in Emails : CountRecent(r, e)
        \/ Supersede(r) \/ Insert(r) \/ Prune(r) \/ Mail(r)
        \/ \E l \in Links : Consume(r, l)
        \/ \E e \in Emails, c \in Codes :
              ConsumeCode(r, e, c) \/ ConsumeCodeMiss(r, e, c)
        \/ CountAttempt(r) \/ IssuePair(r)
        \/ Abort(r)
    \/ Tick

Spec == Init /\ [][Next]_vars

-----------------------------------------------------------------------------
(* Types, and the bookkeeping of rows: only drawn links have rows, only    *)
(* rows are used, only links with a row (once) are mailed or redeemed.     *)
TypeOK ==
    /\ rows \subseteq Links /\ pruned \subseteq Links
    /\ rows \cap pruned = {}
    /\ used \subseteq rows
    /\ mailed \subseteq Inserted
    /\ superseded \subseteq Inserted
    /\ email \in [Links -> Emails \cup {None}]
    /\ code \in [Links -> Codes \cup {None}]
    /\ created \in [Links -> 0..MaxTime]
    /\ expires \in [Links -> 0..MaxTime + LinkTTL]
    /\ usedAt \in [Links -> 0..MaxTime]
    /\ attempts \in [Links -> Nat]
    /\ granted \in [Links -> Nat]
    /\ pc \in [Requests -> Steps]
    /\ who \in [Requests -> Emails \cup {None}]
    /\ link \in [Requests -> Links \cup {None}]
    /\ at \in [Requests -> 0..MaxTime]
    /\ now \in 0..MaxTime
    /\ saw \in [Links -> SUBSET Links]
    /\ tries \in [Links -> Nat]
    /\ misses \in 0..MaxMisses
    /\ uncounted \in Nat

Redeeming(l) == {r \in Requests : pc[r] = "session" /\ link[r] = l}

(* A link is exchanged for at most one session, be it by its token, by its *)
(* code or by both at once (the conditional UPDATEs of Consume and         *)
(* ConsumeCode).                                                           *)
RedeemedOnce ==
    \A l \in Links :
        /\ granted[l] <= 1
        /\ granted[l] = 1 => Redeeming(l) = {}
        /\ \A q, r \in Redeeming(l) : q = r

(* A link that a later request put out of use opens no session, even when  *)
(* it was redeemed or mailed while that request ran.                       *)
SupersededIsDead ==
    \A l \in superseded : granted[l] = 0 /\ Redeeming(l) = {}

(* Two links of an address are unused together only if each was written    *)
(* after the other's request had superseded: their requests raced.         *)
TwoUnusedOnlyIfRacing ==
    \A k, l \in rows \ used :
        k # l /\ email[k] = email[l] => k \notin saw[l]

(* Pruning never frees a place under the hourly limit: a row that still    *)
(* counts is there, however early it was used.  (Not so for a row written  *)
(* by a request that stalled until its link had expired.)                  *)
PruneSparesRecent ==
    \A l \in pruned : created[l] <= expires[l] => created[l] + RateWindow <= now

(* The limit that does hold: RateLimit - 1 rows in a window, and one for   *)
(* every request that may have passed the check before it saved.           *)
RateBounded ==
    \A e \in Emails :
        Cardinality({l \in rows : email[l] = e /\ created[l] + RateWindow > now})
          <= RateLimit + Cardinality(Requests) - 1

(* The lockout that does hold: once MaxAttempts codes failed, a link is    *)
(* only open to the codes of requests that were already running, and to    *)
(* one more for each attempt that failed to be recorded.                   *)
LockedButForRaces ==
    \A l \in Links :
        tries[l] <= MaxAttempts + Cardinality(Requests) - 1 + uncounted

(* The comment on Save: "It first supersedes any still-active link for the *)
(* same email so only the newest request stays usable"                     *)
(* (store_magic_postgres.go).                                              *)
OnlyNewestUsable ==
    \A e \in Emails : Cardinality(Usable(e, now)) <= 1

(* The comment on VerifyCode: "The store enforces expiry, single use, and  *)
(* the attempt cap atomically" (magic.go).                                 *)
AttemptCapIsAtomic ==
    \A l \in Links : tries[l] <= MaxAttempts
=============================================================================
