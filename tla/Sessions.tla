------------------------------ MODULE Sessions ------------------------------
(***************************************************************************)
(* Refresh sessions: login, rotation with reuse detection, logout and the  *)
(* password change that sweeps them (internal/auth/service.go, tokens.go,  *)
(* store_postgres.go, internal/user/service.go, http.go, internal/app).    *)
(*                                                                         *)
(* A handler is a request r that runs one database call per action, so the *)
(* calls of concurrent requests interleave as they do on a shared          *)
(* Postgres.  Local work (bcrypt, signing) belongs to the call before it.  *)
(* A refresh token is its jti.  A LINE is a login's first token and every  *)
(* token rotated from it, named by that first token.                       *)
(***************************************************************************)
EXTENDS Naturals, FiniteSets

CONSTANTS Users,
          Jti,         \* identities of refresh tokens
          Requests,    \* slots for HTTP requests in progress
          None,        \* no user, no token
          AccessTTL,   \* JWT_ACCESS_TTL, in ticks
          RefreshTTL,  \* JWT_REFRESH_TTL, in ticks
          MaxTime,     \* bound on the clock
          MaxChanges,  \* bound on password changes of a user
          MayAbort     \* TRUE: a request may stop between two calls

ASSUME ConstantsAssumption ==
    /\ None \notin Users \cup Jti
    /\ AccessTTL \in Nat /\ RefreshTTL \in Nat
    /\ MaxTime \in Nat /\ MaxChanges \in Nat
    /\ MayAbort \in BOOLEAN

VARIABLES
    (* the users table *)
    hash,       \* hash[u]: number of the stored password hash
    (* issued tokens: the claims of the JWT *)
    issued,     \* jtis signed so far
    subject,    \* subject[j]: the user the token names
    issuedAt,   \* issuedAt[j]
    (* the refresh_tokens table, and what clients were answered *)
    saved,      \* rows that exist
    revoked,    \* rows with revoked_at set
    delivered,  \* tokens answered to a client
    (* requests in progress *)
    pc,         \* pc[r]: the call r makes next
    who,        \* who[r]: the user r acts for
    tok,        \* tok[r]: the token r presents, or is issuing
    now,
    (* history *)
    parent,     \* parent[j]: the token j was rotated from
    line,       \* line[j]: the first token of j's line
    born,       \* born[j]: password hash in force when j's line began
    swept,      \* lines that existed at some complete RevokeAllForUser
    escaped,    \* lines on the move at their user's last RevokeAllForUser
    lost        \* users with a password change whose sweep did not happen

tables == <<hash, saved, revoked>>
claims == <<issued, subject, issuedAt, parent, line, born>>
sweeps == <<swept, escaped, lost>>
handler == <<pc, who, tok>>
vars == <<hash, issued, subject, issuedAt, saved, revoked, delivered,
          pc, who, tok, now, parent, line, born, swept, escaped, lost>>

Steps == {"idle", "consume", "classify", "reused", "save", "answer",
          "revoke", "verified", "changed"}

Live(j) == j \in saved /\ j \notin revoked
Unexpired(j) == now < issuedAt[j] + RefreshTTL
InFlight(j) == \E r \in Requests : pc[r] = "save" /\ tok[r] = j
LinesOf(u) == {line[j] : j \in {i \in issued : subject[i] = u}}

Init ==
    /\ hash = [u \in Users |-> 0]
    /\ issued = {}
    /\ subject = [j \in Jti |-> None]
    /\ issuedAt = [j \in Jti |-> 0]
    /\ saved = {} /\ revoked = {} /\ delivered = {}
    /\ pc = [r \in Requests |-> "idle"]
    /\ who = [r \in Requests |-> None]
    /\ tok = [r \in Requests |-> None]
    /\ now = 0
    /\ parent = [j \in Jti |-> None]
    /\ line = [j \in Jti |-> None]
    /\ born = [j \in Jti |-> 0]
    /\ swept = {} /\ escaped = {} /\ lost = {}

(* Request r goes on to `step` for user u and token t.                     *)
Goto(r, step, u, t) ==
    /\ pc' = [pc EXCEPT ![r] = step]
    /\ who' = [who EXCEPT ![r] = u]
    /\ tok' = [tok EXCEPT ![r] = t]

Finish(r) == Goto(r, "idle", None, None)

-----------------------------------------------------------------------------
(* Tokens.Issue signs a fresh jti for u; r goes on to save it.             *)
Issue(r, u, j) ==
    /\ issued' = issued \cup {j}
    /\ subject' = [subject EXCEPT ![j] = u]
    /\ issuedAt' = [issuedAt EXCEPT ![j] = now]
    /\ Goto(r, "save", u, j)

(* Authentication succeeded: a password login read a hash that matched, or *)
(* a magic link was consumed.  A failed one changes nothing.               *)
Authenticate(r, u) ==
    /\ pc[r] = "idle"
    /\ \E j \in Jti \ issued :
        /\ Issue(r, u, j)
        /\ parent' = [parent EXCEPT ![j] = None]
        /\ line' = [line EXCEPT ![j] = j]
        /\ born' = [born EXCEPT ![j] = hash[u]]
    /\ UNCHANGED <<tables, delivered, now, sweeps>>

(* Seeded fault: the error of the insert is ignored.                       *)
SaveErrorIgnored(r) ==
    /\ pc[r] = "save"
    /\ Goto(r, "answer", who[r], tok[r])
    /\ UNCHANGED <<tables, claims, delivered, now, sweeps>>

(* RefreshStore.Save inserts the row of the issued token.                  *)
Save(r) ==
    /\ pc[r] = "save"
    /\ saved' = saved \cup {tok[r]}
    /\ Goto(r, "answer", who[r], tok[r])
    /\ UNCHANGED <<hash, revoked, claims, delivered, now, sweeps>>

(* The pair is answered to the client, who may present it from now on.     *)
Answer(r) ==
    /\ pc[r] = "answer"
    /\ delivered' = delivered \cup {tok[r]}
    /\ Finish(r)
    /\ UNCHANGED <<tables, claims, now, sweeps>>

(* Tokens.ParseRefresh accepts an unexpired token, for Refresh or Logout.  *)
ParseRefresh(r, j, step) ==
    /\ pc[r] = "idle"
    /\ Unexpired(j)
    /\ Goto(r, step, subject[j], j)
    /\ UNCHANGED <<tables, claims, delivered, now, sweeps>>

(* Seeded faults: the UPDATE of Consume without one of its conditions.     *)
ConsumableTwice(j) == j \in saved /\ Unexpired(j)
ConsumableExpired(j) == Live(j)

(* RefreshStore.Consume, the UPDATE: an unrevoked, unexpired row is        *)
(* revoked and its successor issued ...                                    *)
Consumable(j) == Live(j) /\ Unexpired(j)

Consume(r) ==
    /\ pc[r] = "consume"
    /\ Consumable(tok[r])
    /\ revoked' = revoked \cup {tok[r]}
    /\ \E j \in Jti \ issued :
        /\ Issue(r, who[r], j)
        /\ parent' = [parent EXCEPT ![j] = tok[r]]
        /\ line' = [line EXCEPT ![j] = line[tok[r]]]
        /\ born' = [born EXCEPT ![j] = born[tok[r]]]
    /\ UNCHANGED <<hash, saved, delivered, now, sweeps>>

(* ... or no row matches, and a second query is needed to say why.         *)
ConsumeMiss(r) ==
    /\ pc[r] = "consume"
    /\ ~Consumable(tok[r])
    /\ Goto(r, "classify", who[r], tok[r])
    /\ UNCHANGED <<tables, claims, delivered, now, sweeps>>

(* The SELECT: a revoked row means reuse, anything else an invalid token.  *)
Classify(r) ==
    /\ pc[r] = "classify"
    /\ IF tok[r] \in revoked
       THEN Goto(r, "reused", who[r], tok[r])
       ELSE Finish(r)
    /\ UNCHANGED <<tables, claims, delivered, now, sweeps>>

(* RefreshStore.Revoke, for Logout: one row, if it is not revoked yet.     *)
Revoke(r) ==
    /\ pc[r] = "revoke"
    /\ revoked' = revoked \cup ({tok[r]} \cap saved)
    /\ Finish(r)
    /\ UNCHANGED <<hash, saved, claims, delivered, now, sweeps>>

(* Seeded fault: the sweep misses rows written in the current tick.        *)
OlderRowsOf(u) == {j \in saved : subject[j] = u /\ issuedAt[j] < now}

(* RefreshStore.RevokeAllForUser, after a reuse or a password change.      *)
RowsOf(u) == {j \in saved : subject[j] = u}

RevokeAllForUser(r) ==
    /\ pc[r] \in {"reused", "changed"}
    /\ revoked' = revoked \cup RowsOf(who[r])
    /\ swept' = swept \cup LinesOf(who[r])
    /\ escaped' = (escaped \ LinesOf(who[r]))
                    \cup {line[tok[q]] : q \in {p \in Requests :
                             pc[p] = "save" /\ who[p] = who[r]}}
    /\ lost' = lost \ {who[r]}
    /\ Finish(r)
    /\ UNCHANGED <<hash, saved, claims, delivered, now>>

-----------------------------------------------------------------------------
(* The bearer middleware accepts an unexpired access token, and nothing    *)
(* revokes one.                                                            *)
HasAccess(u) ==
    \E j \in delivered : subject[j] = u /\ now < issuedAt[j] + AccessTTL

(* UpdatePassword reads the stored hash and the current password matches.  *)
VerifyPassword(r, u) ==
    /\ pc[r] = "idle"
    /\ HasAccess(u)
    /\ Goto(r, "verified", u, None)
    /\ UNCHANGED <<tables, claims, delivered, now, sweeps>>

(* Seeded fault: the handler answers without calling the hook.             *)
UpdatePasswordHashOnly(r) ==
    /\ pc[r] = "verified"
    /\ hash[who[r]] < MaxChanges
    /\ hash' = [hash EXCEPT ![who[r]] = @ + 1]
    /\ Finish(r)
    /\ UNCHANGED <<saved, revoked, claims, delivered, now, sweeps>>

(* The new hash is stored, whatever hash is there by now.                  *)
UpdatePasswordHash(r) ==
    /\ pc[r] = "verified"
    /\ hash[who[r]] < MaxChanges
    /\ hash' = [hash EXCEPT ![who[r]] = @ + 1]
    /\ Goto(r, "changed", who[r], None)
    /\ UNCHANGED <<saved, revoked, claims, delivered, now, sweeps>>

(* A call fails, the client goes away and cancels the request context, or  *)
(* the process dies: what was done stays done.  A sweep that fails after a *)
(* password change is logged and answered as a success.                    *)
Abort(r) ==
    /\ MayAbort
    /\ pc[r] # "idle"
    /\ lost' = IF pc[r] = "changed" THEN lost \cup {who[r]} ELSE lost
    /\ Finish(r)
    /\ UNCHANGED <<tables, claims, delivered, now, swept, escaped>>

Tick ==
    /\ now < MaxTime
    /\ now' = now + 1
    /\ UNCHANGED <<tables, claims, delivered, handler, sweeps>>

Next ==
    \/ \E r \in Requests :
        \/ \E u \in Users : Authenticate(r, u) \/ VerifyPassword(r, u)
        \/ \E j \in delivered, step \in {"consume", "revoke"} :
              ParseRefresh(r, j, step)
        \/ Save(r) \/ Answer(r)
        \/ Consume(r) \/ ConsumeMiss(r) \/ Classify(r)
        \/ Revoke(r) \/ RevokeAllForUser(r)
        \/ UpdatePasswordHash(r)
        \/ Abort(r)
    \/ Tick

Spec == Init /\ [][Next]_vars

-----------------------------------------------------------------------------
(* Types, and the basic bookkeeping of rows: only issued tokens are saved, *)
(* only rows are revoked, and only tokens with a row reach a client.       *)
TypeOK ==
    /\ hash \in [Users -> 0..MaxChanges]
    /\ issued \subseteq Jti
    /\ subject \in [Jti -> Users \cup {None}]
    /\ issuedAt \in [Jti -> 0..MaxTime]
    /\ saved \subseteq issued
    /\ revoked \subseteq saved
    /\ delivered \subseteq saved
    /\ pc \in [Requests -> Steps]
    /\ who \in [Requests -> Users \cup {None}]
    /\ tok \in [Requests -> Jti \cup {None}]
    /\ now \in 0..MaxTime
    /\ parent \in [Jti -> Jti \cup {None}]
    /\ line \in [Jti -> Jti \cup {None}]
    /\ born \in [Jti -> 0..MaxChanges]
    /\ swept \subseteq issued
    /\ escaped \subseteq issued
    /\ lost \subseteq Users

(* A refresh token is exchanged at most once, whatever the number of       *)
(* requests presenting it at the same time (the atomic UPDATE of Consume). *)
RotatedOnce ==
    \A i, j \in issued : parent[i] = parent[j] /\ parent[i] # None => i = j

(* A line of sessions never forks: at most one of its tokens is stored and *)
(* unrevoked, so a client and a copy of its token cannot both carry on.    *)
OneLivePerLine ==
    \A i, j \in saved : Live(i) /\ Live(j) /\ line[i] = line[j] => i = j

(* What a completed RevokeAllForUser guarantees: a line that existed then  *)
(* is alive afterwards only if a handler was between spending its old      *)
(* token and saving the new one at that very moment.                       *)
SweptUnlessMoving ==
    \A j \in saved : Live(j) /\ line[j] \in swept => line[j] \in escaped

(* What a password change guarantees: a session that began under an older  *)
(* password is gone, unless its line was on the move at the last sweep,    *)
(* the sweep of a change is still to come, or it failed (http.go logs it). *)
OldSessionsEnd ==
    \A j \in saved :
        Live(j) /\ born[j] < hash[subject[j]] =>
            \/ line[j] \in escaped
            \/ subject[j] \in lost
            \/ \E r \in Requests : pc[r] = "changed" /\ who[r] = subject[j]

(* The comment on changePassword: "A success revokes every refresh session *)
(* through the onPasswordChanged hook, then answers 204" (http.go).        *)
ChangeRevokesEverySession ==
    \A j \in saved :
        Live(j) /\ born[j] < hash[subject[j]] =>
            \E r \in Requests : pc[r] = "changed" /\ who[r] = subject[j]

(* The comment on Refresh: "A revoked token kills the user's whole token   *)
(* family (reuse detection)" (service.go).  Stated for rotated tokens of   *)
(* lines that existed at a sweep, where no password changes (MaxChanges =  *)
(* 0), so that every sweep is the answer to a reuse.                       *)
ReuseKillsFamily ==
    \A j \in saved : Live(j) /\ parent[j] # None => line[j] \notin swept

-----------------------------------------------------------------------------
(* The lines of sessions the tables and the requests amount to.            *)
Holder(j) == j \in issued /\ (Live(j) \/ InFlight(j))
HoldersOf(l) == {j \in issued : line[j] = l /\ Holder(j)}

linePhase == [l \in Jti |->
    IF \A j \in issued : line[j] # l THEN "unborn"
    ELSE IF \E j \in HoldersOf(l) : Live(j) THEN "held"
    ELSE IF HoldersOf(l) # {} THEN "moving"
    ELSE "dead"]

lineOwner == [l \in Jti |->
    IF \A j \in issued : line[j] # l THEN None ELSE subject[l]]

lineDeadline == [l \in Jti |->
    IF HoldersOf(l) = {} THEN 0
    ELSE issuedAt[CHOOSE j \in HoldersOf(l) : TRUE] + RefreshTTL]

Lines == INSTANCE SessionLines WITH
            Line <- Jti, phase <- linePhase, owner <- lineOwner,
            deadline <- lineDeadline

(* Sessions implement session lines: no interleaving of handlers revives a *)
(* dead line, moves an expired one on, or sweeps another user's.           *)
ImplementsLines == Lines!Spec
=============================================================================
