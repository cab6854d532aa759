--------------------------- MODULE SessionsProofs ---------------------------
(***************************************************************************)
(* Theorems about Sessions, for any number of users, tokens and requests.  *)
(***************************************************************************)
EXTENDS Sessions, TLAPS

(* What a request knows about its token at each step.                      *)
RequestsOK ==
    \A r \in Requests :
        /\ pc[r] # "idle" => who[r] \in Users
        /\ pc[r] = "save" => tok[r] \in issued \ saved
        /\ pc[r] \in {"consume", "classify", "revoke", "answer"} =>
              tok[r] \in saved
        /\ pc[r] \in {"consume", "save"} => subject[tok[r]] = who[r]

(* Two requests never issue the same token.                                *)
OneIssuer ==
    \A r, q \in Requests :
        pc[r] = "save" /\ pc[q] = "save" /\ tok[r] = tok[q] => r = q

(* A line is named by its first token and belongs to one user.             *)
LinesOK ==
    \A j \in issued :
        /\ subject[j] \in Users
        /\ line[j] \in issued
        /\ subject[line[j]] = subject[j]

(* A rotated token continues the line of its parent, which is revoked.     *)
ParentsOK ==
    \A j \in issued : parent[j] # None =>
        /\ parent[j] \in revoked
        /\ line[j] = line[parent[j]]

(* The strengthening of OneLivePerLine: a line has one holder, which is    *)
(* either a live row or the token a request is about to save.              *)
OneHolderPerLine ==
    \A i, j \in issued : Holder(i) /\ Holder(j) /\ line[i] = line[j] => i = j

HoldersEscaped ==
    \A j \in issued : Holder(j) /\ line[j] \in swept => line[j] \in escaped

HoldersOldEnd ==
    \A j \in issued :
        Holder(j) /\ born[j] < hash[subject[j]] =>
            \/ line[j] \in escaped
            \/ subject[j] \in lost
            \/ \E r \in Requests : pc[r] = "changed" /\ who[r] = subject[j]

RowsInv == TypeOK /\ RequestsOK /\ OneIssuer /\ LinesOK
-----------------------------------------------------------------------------
LEMMA RowsInit == Init => RowsInv
  BY ConstantsAssumption
     DEF Init, RowsInv, TypeOK, RequestsOK, OneIssuer, LinesOK, Steps

(* RowsInv is inductive: one step per action.                              *)
LEMMA RowsStep == RowsInv /\ [Next]_vars => RowsInv'
<1> SUFFICES ASSUME RowsInv, [Next]_vars PROVE RowsInv'
  OBVIOUS
<1> USE ConstantsAssumption
        DEF RowsInv, TypeOK, RequestsOK, OneIssuer, LinesOK, Steps, Goto,
            Finish, tables, claims, sweeps
<1>1. ASSUME NEW r \in Requests, NEW u \in Users, Authenticate(r, u)
      PROVE RowsInv'
  BY <1>1 DEF Authenticate, Issue
<1>2. ASSUME NEW r \in Requests, NEW u \in Users, VerifyPassword(r, u)
      PROVE RowsInv'
  BY <1>2 DEF VerifyPassword
<1>3. ASSUME NEW r \in Requests, NEW j \in delivered,
             NEW step \in {"consume", "revoke"}, ParseRefresh(r, j, step)
      PROVE RowsInv'
  BY <1>3 DEF ParseRefresh
<1>4. ASSUME NEW r \in Requests, Save(r) PROVE RowsInv'
  BY <1>4 DEF Save
<1>5. ASSUME NEW r \in Requests, Answer(r) PROVE RowsInv'
  BY <1>5 DEF Answer
<1>6. ASSUME NEW r \in Requests, Consume(r) PROVE RowsInv'
  BY <1>6 DEF Consume, Issue
<1>7. ASSUME NEW r \in Requests, ConsumeMiss(r) PROVE RowsInv'
  BY <1>7 DEF ConsumeMiss
<1>8. ASSUME NEW r \in Requests, Classify(r) PROVE RowsInv'
  BY <1>8 DEF Classify
<1>9. ASSUME NEW r \in Requests, Revoke(r) PROVE RowsInv'
  BY <1>9 DEF Revoke
<1>10. ASSUME NEW r \in Requests, RevokeAllForUser(r) PROVE RowsInv'
  BY <1>10 DEF RevokeAllForUser, RowsOf, LinesOf
<1>11. ASSUME NEW r \in Requests, UpdatePasswordHash(r) PROVE RowsInv'
  BY <1>11 DEF UpdatePasswordHash
<1>12. ASSUME NEW r \in Requests, Abort(r) PROVE RowsInv'
  BY <1>12 DEF Abort
<1>13. CASE Tick
  BY <1>13 DEF Tick, handler
<1>14. CASE UNCHANGED vars
  BY <1>14 DEF vars
<1> QED
  BY <1>1, <1>2, <1>3, <1>4, <1>5, <1>6, <1>7, <1>8, <1>9, <1>10, <1>11,
     <1>12, <1>13, <1>14 DEF Next

(* The tables keep their shape in every behaviour: only issued tokens have *)
(* rows, only rows are revoked, and no token reaches a client before its   *)
(* row is stored.                                                          *)
THEOREM TypeCorrect == Spec => []TypeOK
<1>1. RowsInv => TypeOK
  BY DEF RowsInv
<1> QED
  BY RowsInit, RowsStep, <1>1, PTL DEF Spec
-----------------------------------------------------------------------------
(* Lines never fork.  Spending a token and issuing its successor is one    *)
(* step, and a spent token is never spent again.                           *)
LineInv == ParentsOK /\ RotatedOnce /\ OneHolderPerLine

LEMMA LineInit == Init => LineInv
  BY DEF Init, LineInv, ParentsOK, RotatedOnce, OneHolderPerLine

LEMMA LineStep == RowsInv /\ LineInv /\ [Next]_vars => LineInv'
<1> SUFFICES ASSUME RowsInv, LineInv, [Next]_vars PROVE LineInv'
  OBVIOUS
<1> USE ConstantsAssumption
        DEF LineInv, ParentsOK, RotatedOnce, OneHolderPerLine, Holder, Live,
            InFlight, RowsInv, TypeOK, RequestsOK, OneIssuer, LinesOK, Steps,
            Goto, Finish, tables, claims, sweeps
<1>1. ASSUME NEW r \in Requests, NEW u \in Users, Authenticate(r, u)
      PROVE LineInv'
  <2> PICK j \in Jti \ issued :
          /\ Issue(r, u, j)
          /\ parent' = [parent EXCEPT ![j] = None]
          /\ line' = [line EXCEPT ![j] = j]
    BY <1>1 DEF Authenticate
  <2>1. pc[r] = "idle" /\ UNCHANGED <<saved, revoked>>
    BY <1>1 DEF Authenticate
  <2>2. /\ issued' = issued \cup {j} /\ line'[j] = j /\ parent'[j] = None
        /\ \A i \in issued : line'[i] = line[i] /\ line[i] # j
    BY DEF Issue
  <2>3. \A i \in issued : InFlight(i)' <=> InFlight(i)
    BY <2>1 DEF Issue
  <2>4. \A i \in issued : Holder(i)' <=> Holder(i)
    <3> HIDE DEF InFlight
    <3> QED  BY <2>1, <2>2, <2>3
  <2>5. OneHolderPerLine'
    <3> HIDE DEF Holder
    <3> QED  BY <2>2, <2>4
  <2>6. ParentsOK' /\ RotatedOnce'
    BY <2>1, <2>2 DEF Issue
  <2> QED  BY <2>5, <2>6
<1>2. ASSUME NEW r \in Requests, NEW u \in Users, VerifyPassword(r, u)
      PROVE LineInv'
  BY <1>2 DEF VerifyPassword
<1>3. ASSUME NEW r \in Requests, NEW j \in delivered,
             NEW step \in {"consume", "revoke"}, ParseRefresh(r, j, step)
      PROVE LineInv'
  <2>1. \A i \in issued : Holder(i)' <=> Holder(i)
    BY <1>3 DEF ParseRefresh
  <2>2. OneHolderPerLine'
    <3> HIDE DEF Holder
    <3> QED  BY <1>3, <2>1 DEF ParseRefresh
  <2> QED  BY <1>3, <2>2 DEF ParseRefresh
<1>4. ASSUME NEW r \in Requests, Save(r) PROVE LineInv'
  <2>1. \A i \in issued : Holder(i)' <=> Holder(i)
    BY <1>4 DEF Save
  <2>2. OneHolderPerLine'
    <3> HIDE DEF Holder
    <3> QED  BY <1>4, <2>1 DEF Save
  <2> QED  BY <1>4, <2>2 DEF Save
<1>5. ASSUME NEW r \in Requests, Answer(r) PROVE LineInv'
  BY <1>5 DEF Answer
<1>6. ASSUME NEW r \in Requests, Consume(r) PROVE LineInv'
  <2> PICK j \in Jti \ issued :
          /\ Issue(r, who[r], j)
          /\ parent' = [parent EXCEPT ![j] = tok[r]]
          /\ line' = [line EXCEPT ![j] = line[tok[r]]]
    BY <1>6 DEF Consume
  <2>1. /\ pc[r] = "consume" /\ tok[r] \in saved \ revoked
        /\ saved' = saved /\ revoked' = revoked \cup {tok[r]}
    BY <1>6 DEF Consume, Consumable
  <2>2. /\ issued' = issued \cup {j}
        /\ line'[j] = line[tok[r]] /\ parent'[j] = tok[r]
        /\ \A i \in issued : line'[i] = line[i] /\ parent'[i] = parent[i]
    BY <2>1 DEF Issue
  <2>3. \A i \in issued : InFlight(i)' <=> InFlight(i)
    BY <2>1 DEF Issue
  <2>4. \A i \in issued : Holder(i)' <=> Holder(i) /\ i # tok[r]
    BY <2>1, <2>2, <2>3
  <2>5. OneHolderPerLine'
    <3>1. Holder(tok[r]) /\ tok[r] \in issued
      BY <2>1
    <3> HIDE DEF Holder
    <3> QED  BY <2>2, <2>4, <3>1
  <2>6. ParentsOK' /\ RotatedOnce'
    BY <2>1, <2>2
  <2> QED  BY <2>5, <2>6
<1>7. ASSUME NEW r \in Requests, ConsumeMiss(r) PROVE LineInv'
  BY <1>7 DEF ConsumeMiss
<1>8. ASSUME NEW r \in Requests, Classify(r) PROVE LineInv'
  BY <1>8 DEF Classify
<1>9. ASSUME NEW r \in Requests, Revoke(r) PROVE LineInv'
  BY <1>9 DEF Revoke
<1>10. ASSUME NEW r \in Requests, RevokeAllForUser(r) PROVE LineInv'
  BY <1>10 DEF RevokeAllForUser, RowsOf, LinesOf
<1>11. ASSUME NEW r \in Requests, UpdatePasswordHash(r) PROVE LineInv'
  BY <1>11 DEF UpdatePasswordHash
<1>12. ASSUME NEW r \in Requests, Abort(r) PROVE LineInv'
  BY <1>12 DEF Abort
<1>13. CASE Tick
  BY <1>13 DEF Tick, handler
<1>14. CASE UNCHANGED vars
  BY <1>14 DEF vars
<1> QED
  BY <1>1, <1>2, <1>3, <1>4, <1>5, <1>6, <1>7, <1>8, <1>9, <1>10, <1>11,
     <1>12, <1>13, <1>14 DEF Next

(* However many requests present a refresh token at the same time, it is   *)
(* exchanged at most once.                                                 *)
THEOREM RotationIsExclusive == Spec => []RotatedOnce
<1>1. LineInv => RotatedOnce
  BY DEF LineInv
<1> QED
  BY RowsInit, RowsStep, LineInit, LineStep, <1>1, PTL DEF Spec

(* A line of sessions has at most one live token at any moment.            *)
THEOREM LinesDoNotFork == Spec => []OneLivePerLine
<1>1. RowsInv /\ LineInv => OneLivePerLine
  BY DEF RowsInv, TypeOK, LineInv, OneHolderPerLine, OneLivePerLine, Holder
<1> QED
  BY RowsInit, RowsStep, LineInit, LineStep, <1>1, PTL DEF Spec

-----------------------------------------------------------------------------
(* Sweeps.  The invariants speak of holders, not only of live rows: the    *)
(* token a request is about to save is what a sweep cannot reach.          *)
SweepInv == HoldersEscaped /\ HoldersOldEnd

LEMMA SweepInit == Init => SweepInv
  BY DEF Init, SweepInv, HoldersEscaped, HoldersOldEnd

LEMMA SweepStep == RowsInv /\ SweepInv /\ [Next]_vars => SweepInv'
<1> SUFFICES ASSUME RowsInv, SweepInv, [Next]_vars PROVE SweepInv'
  OBVIOUS
<1> USE ConstantsAssumption
        DEF SweepInv, HoldersEscaped, HoldersOldEnd, Holder, Live, InFlight,
            RowsInv, TypeOK, RequestsOK, OneIssuer, LinesOK, Steps, Goto,
            Finish, tables, claims, sweeps
<1>1. ASSUME NEW r \in Requests, NEW u \in Users, Authenticate(r, u)
      PROVE SweepInv'
  BY <1>1 DEF Authenticate, Issue
<1>2. ASSUME NEW r \in Requests, NEW u \in Users, VerifyPassword(r, u)
      PROVE SweepInv'
  BY <1>2 DEF VerifyPassword
<1>3. ASSUME NEW r \in Requests, NEW j \in delivered,
             NEW step \in {"consume", "revoke"}, ParseRefresh(r, j, step)
      PROVE SweepInv'
  BY <1>3 DEF ParseRefresh
<1>4. ASSUME NEW r \in Requests, Save(r) PROVE SweepInv'
  BY <1>4 DEF Save
<1>5. ASSUME NEW r \in Requests, Answer(r) PROVE SweepInv'
  BY <1>5 DEF Answer
<1>6. ASSUME NEW r \in Requests, Consume(r) PROVE SweepInv'
  BY <1>6 DEF Consume, Consumable, Issue
<1>7. ASSUME NEW r \in Requests, ConsumeMiss(r) PROVE SweepInv'
  BY <1>7 DEF ConsumeMiss
<1>8. ASSUME NEW r \in Requests, Classify(r) PROVE SweepInv'
  BY <1>8 DEF Classify
<1>9. ASSUME NEW r \in Requests, Revoke(r) PROVE SweepInv'
  BY <1>9 DEF Revoke
<1>10. ASSUME NEW r \in Requests, RevokeAllForUser(r) PROVE SweepInv'
  BY <1>10 DEF RevokeAllForUser, RowsOf, LinesOf
<1>11. ASSUME NEW r \in Requests, UpdatePasswordHash(r) PROVE SweepInv'
  BY <1>11 DEF UpdatePasswordHash
<1>12. ASSUME NEW r \in Requests, Abort(r) PROVE SweepInv'
  BY <1>12 DEF Abort
<1>13. CASE Tick
  BY <1>13 DEF Tick, handler
<1>14. CASE UNCHANGED vars
  BY <1>14 DEF vars
<1> QED
  BY <1>1, <1>2, <1>3, <1>4, <1>5, <1>6, <1>7, <1>8, <1>9, <1>10, <1>11,
     <1>12, <1>13, <1>14 DEF Next

(* After a complete RevokeAllForUser a line is alive only if it was on the *)
(* move when the sweep ran.                                                *)
THEOREM SweepSparesOnlyMovers == Spec => []SweptUnlessMoving
<1>1. RowsInv /\ SweepInv => SweptUnlessMoving
  BY DEF RowsInv, TypeOK, SweepInv, HoldersEscaped, SweptUnlessMoving, Holder
<1> QED
  BY RowsInit, RowsStep, SweepInit, SweepStep, <1>1, PTL DEF Spec

(* A session that began under an older password is gone but for the three  *)
(* exceptions OldSessionsEnd names.                                        *)
THEOREM PasswordChangeEndsSessions == Spec => []OldSessionsEnd
<1>1. RowsInv /\ SweepInv => OldSessionsEnd
  BY DEF RowsInv, TypeOK, SweepInv, HoldersOldEnd, OldSessionsEnd, Holder
<1> QED
  BY RowsInit, RowsStep, SweepInit, SweepStep, <1>1, PTL DEF Spec

-----------------------------------------------------------------------------
(* The refinement.  What a line is, in terms of its holder: LinesView is   *)
(* the definitions of linePhase, lineOwner and lineDeadline, read for      *)
(* lines with at most one holder.                                          *)
Known(l) == \E j \in issued : line[j] = l

LinesView ==
    /\ linePhase = [l \in Jti |-> linePhase[l]]
    /\ lineOwner = [l \in Jti |-> lineOwner[l]]
    /\ lineDeadline = [l \in Jti |-> lineDeadline[l]]
    /\ \A l \in Jti :
        /\ lineOwner[l] = IF Known(l) THEN subject[l] ELSE None
        /\ HoldersOf(l) = {} =>
              /\ linePhase[l] = IF Known(l) THEN "dead" ELSE "unborn"
              /\ lineDeadline[l] = 0
        /\ \A j \in HoldersOf(l) :
              /\ linePhase[l] = IF Live(j) THEN "held" ELSE "moving"
              /\ lineDeadline[l] = issuedAt[j] + RefreshTTL

LEMMA LinesAreSeen == LineInv => LinesView
<1> SUFFICES ASSUME LineInv, NEW l \in Jti
             PROVE
        /\ lineOwner[l] = IF Known(l) THEN subject[l] ELSE None
        /\ HoldersOf(l) = {} =>
              /\ linePhase[l] = IF Known(l) THEN "dead" ELSE "unborn"
              /\ lineDeadline[l] = 0
        /\ \A j \in HoldersOf(l) :
              /\ linePhase[l] = IF Live(j) THEN "held" ELSE "moving"
              /\ lineDeadline[l] = issuedAt[j] + RefreshTTL
  BY DEF LinesView, linePhase, lineOwner, lineDeadline
<1>1. lineOwner[l] = IF Known(l) THEN subject[l] ELSE None
  BY DEF lineOwner, Known
<1>2. ASSUME HoldersOf(l) = {}
      PROVE  /\ linePhase[l] = IF Known(l) THEN "dead" ELSE "unborn"
             /\ lineDeadline[l] = 0
  BY <1>2 DEF linePhase, lineDeadline, Known
<1>3. ASSUME NEW j \in HoldersOf(l)
      PROVE  /\ linePhase[l] = IF Live(j) THEN "held" ELSE "moving"
             /\ lineDeadline[l] = issuedAt[j] + RefreshTTL
  <2>1. j \in issued /\ line[j] = l /\ HoldersOf(l) = {j}
    BY DEF HoldersOf, LineInv, OneHolderPerLine
  <2>2. (CHOOSE i \in HoldersOf(l) : TRUE) = j
    BY <2>1
  <2>3. lineDeadline[l] = issuedAt[j] + RefreshTTL
    BY <2>1, <2>2 DEF lineDeadline
  <2> QED
    BY <2>1, <2>3 DEF linePhase
<1> QED
  BY <1>1, <1>2, <1>3

LEMMA LinesAreSeenNext == LineInv' => LinesView'
  BY LinesAreSeen, PTL

(* Nothing happens to a line whose holder stays.                           *)
LEMMA LineStays ==
    ASSUME LinesView, LinesView', NEW l \in Jti,
           Known(l)' <=> Known(l), HoldersOf(l)' = HoldersOf(l),
           subject'[l] = subject[l] \/ ~Known(l),
           \A j \in HoldersOf(l) : /\ Live(j)' <=> Live(j)
                                   /\ issuedAt'[j] = issuedAt[j]
    PROVE  /\ linePhase'[l] = linePhase[l]
           /\ lineOwner'[l] = lineOwner[l]
           /\ lineDeadline'[l] = lineDeadline[l]
<1>1. lineOwner'[l] = lineOwner[l]
  BY DEF LinesView
<1>2. CASE HoldersOf(l) = {}
  BY <1>1, <1>2 DEF LinesView
<1>3. ASSUME NEW j \in HoldersOf(l)
      PROVE  linePhase'[l] = linePhase[l] /\ lineDeadline'[l] = lineDeadline[l]
  BY <1>3 DEF LinesView
<1> QED
  BY <1>1, <1>2, <1>3

LEMMA AllLinesStay ==
    ASSUME LinesView, LinesView',
           UNCHANGED <<issued, line, subject, issuedAt, now>>,
           \A j \in issued : /\ Holder(j)' <=> Holder(j)
                             /\ Holder(j) => (Live(j)' <=> Live(j))
    PROVE  UNCHANGED Lines!lineVars
<1>1. ASSUME NEW l \in Jti
      PROVE  /\ linePhase'[l] = linePhase[l]
             /\ lineOwner'[l] = lineOwner[l]
             /\ lineDeadline'[l] = lineDeadline[l]
  BY LineStays DEF Known, HoldersOf
<1>2. /\ linePhase' = linePhase /\ lineOwner' = lineOwner
      /\ lineDeadline' = lineDeadline
  BY <1>1 DEF LinesView
<1> QED
  BY <1>2 DEF Lines!lineVars

(* One line makes a step and the others stay.                              *)
LEMMA OneLineMoves ==
    ASSUME LinesView, LinesView', NEW l \in Jti, NEW ph, NEW ow, NEW dl,
           linePhase'[l] = ph, lineOwner'[l] = ow, lineDeadline'[l] = dl,
           \A k \in Jti \ {l} : /\ linePhase'[k] = linePhase[k]
                                /\ lineOwner'[k] = lineOwner[k]
                                /\ lineDeadline'[k] = lineDeadline[k]
    PROVE  /\ linePhase' = [linePhase EXCEPT ![l] = ph]
           /\ lineOwner' = [lineOwner EXCEPT ![l] = ow]
           /\ lineDeadline' = [lineDeadline EXCEPT ![l] = dl]
           /\ ow = lineOwner[l] => lineOwner' = lineOwner
  BY DEF LinesView

(* A login begins the line of its token.                                   *)
LEMMA AuthenticateBegins ==
    ASSUME RowsInv, LineInv, LinesView, LinesView',
           NEW r \in Requests, NEW u \in Users, Authenticate(r, u)
    PROVE  \E l \in Jti : Lines!Begin(l, u)
<1> PICK j \in Jti \ issued :
        /\ Issue(r, u, j)
        /\ line' = [line EXCEPT ![j] = j]
  BY DEF Authenticate
<1>1. /\ pc[r] = "idle" /\ UNCHANGED <<saved, revoked, now>>
      /\ issued' = issued \cup {j} /\ line'[j] = j
      /\ subject'[j] = u /\ issuedAt'[j] = now
      /\ \A i \in issued : /\ line'[i] = line[i] /\ line[i] # j
                           /\ issuedAt'[i] = issuedAt[i]
      /\ \A k \in Jti \ {j} : subject'[k] = subject[k]
      /\ j \notin saved
  BY DEF Issue, Authenticate, RowsInv, TypeOK, LinesOK, tables
<1>2. /\ \A i \in issued : InFlight(i)' <=> InFlight(i)
      /\ InFlight(j)'
  BY <1>1 DEF Issue, Goto, InFlight, RowsInv, TypeOK, RequestsOK
<1>3. /\ \A i \in issued : (Holder(i)' <=> Holder(i)) /\ (Live(i)' <=> Live(i))
      /\ Holder(j)' /\ ~Live(j)'
  BY <1>1, <1>2 DEF Holder, Live
<1>4. /\ ~Known(j) /\ Known(j)' /\ HoldersOf(j) = {} /\ j \in HoldersOf(j)'
      /\ \A k \in Jti \ {j} : /\ Known(k)' <=> Known(k)
                              /\ HoldersOf(k)' = HoldersOf(k)
                              /\ HoldersOf(k) \subseteq issued
  BY <1>1, <1>3 DEF Known, HoldersOf
<1>5. /\ linePhase[j] = "unborn" /\ linePhase'[j] = "moving"
      /\ lineOwner'[j] = u /\ lineDeadline'[j] = now + RefreshTTL
  BY <1>1, <1>3, <1>4 DEF LinesView
<1>6. \A k \in Jti \ {j} : /\ linePhase'[k] = linePhase[k]
                           /\ lineOwner'[k] = lineOwner[k]
                           /\ lineDeadline'[k] = lineDeadline[k]
  BY <1>1, <1>3, <1>4, LineStays
<1> QED
  BY <1>1, <1>5, <1>6, OneLineMoves DEF Lines!Begin

(* A row that is written settles its line.                                 *)
LEMMA SaveSettles ==
    ASSUME RowsInv, LineInv, LinesView, LinesView',
           NEW r \in Requests, Save(r)
    PROVE  \E l \in Jti : Lines!Settle(l)
<1> PICK t \in Jti, l \in Jti : t = tok[r] /\ l = line[t]
  BY DEF Save, RowsInv, TypeOK, RequestsOK, LinesOK
<1>1. /\ pc[r] = "save" /\ t \in issued \ saved /\ saved' = saved \cup {t}
      /\ UNCHANGED <<revoked, issued, line, subject, issuedAt, now>>
      /\ t \notin revoked /\ issued \subseteq Jti
  BY DEF Save, claims, RowsInv, TypeOK, RequestsOK, LinesOK
<1>2. \A i \in issued : i # t => (InFlight(i)' <=> InFlight(i))
  BY <1>1 DEF Save, Goto, InFlight, RowsInv, TypeOK
<1>3. /\ \A i \in issued : /\ Holder(i)' <=> Holder(i)
                           /\ i # t => (Live(i)' <=> Live(i))
      /\ Holder(t) /\ ~Live(t) /\ Live(t)'
  BY <1>1, <1>2 DEF Holder, Live, InFlight
<1>4. /\ t \in HoldersOf(l) /\ Known(l)
      /\ \A k \in Jti : /\ Known(k)' <=> Known(k)
                        /\ HoldersOf(k)' = HoldersOf(k)
                        /\ HoldersOf(k) \subseteq issued
                        /\ k # l => t \notin HoldersOf(k)
  BY <1>1, <1>3 DEF Known, HoldersOf
<1>5. t \in HoldersOf(l)'
  BY <1>4
<1>6. /\ linePhase[l] = "moving" /\ linePhase'[l] = "held"
      /\ lineOwner'[l] = lineOwner[l] /\ lineDeadline'[l] = lineDeadline[l]
  BY <1>1, <1>3, <1>4, <1>5 DEF LinesView
<1>7. \A m \in Jti \ {l} : /\ linePhase'[m] = linePhase[m]
                           /\ lineOwner'[m] = lineOwner[m]
                           /\ lineDeadline'[m] = lineDeadline[m]
  BY <1>1, <1>3, <1>4, LineStays
<1>8. /\ linePhase' = [linePhase EXCEPT ![l] = "held"]
      /\ lineOwner' = lineOwner
      /\ lineDeadline' = [lineDeadline EXCEPT ![l] = lineDeadline[l]]
  BY <1>6, <1>7, OneLineMoves
<1>9. lineDeadline' = lineDeadline
  BY <1>8 DEF LinesView
<1> QED
  BY <1>1, <1>6, <1>8, <1>9 DEF Lines!Settle

(* A refresh moves the line of the token it spends.                        *)
LEMMA ConsumeRotates ==
    ASSUME RowsInv, LineInv, LinesView, LinesView',
           NEW r \in Requests, Consume(r)
    PROVE  \E l \in Jti : Lines!Rotate(l)
<1> PICK t \in Jti, l \in Jti : t = tok[r] /\ l = line[t]
  BY DEF Consume, Consumable, Live, RowsInv, TypeOK, RequestsOK, LinesOK
<1> PICK j \in Jti \ issued :
        /\ Issue(r, who[r], j)
        /\ line' = [line EXCEPT ![j] = l]
  BY DEF Consume
<1>1. /\ pc[r] = "consume" /\ t \in saved \ revoked /\ t \in issued
      /\ now < issuedAt[t] + RefreshTTL
      /\ UNCHANGED <<saved, now>> /\ revoked' = revoked \cup {t}
      /\ l \in issued /\ issued \subseteq Jti
      /\ subject[l] = who[r]
  BY DEF Consume, Consumable, Live, Unexpired, RowsInv, TypeOK, RequestsOK,
         LinesOK
<1>2. /\ issued' = issued \cup {j} /\ line'[j] = l /\ issuedAt'[j] = now
      /\ \A i \in issued : line'[i] = line[i] /\ issuedAt'[i] = issuedAt[i]
      /\ \A k \in Jti \ {j} : subject'[k] = subject[k]
      /\ j \notin saved /\ \A i \in issued : line[i] # j
  BY <1>1 DEF Issue, RowsInv, TypeOK, LinesOK
<1>3. /\ \A i \in issued : InFlight(i)' <=> InFlight(i)
      /\ InFlight(j)' /\ ~InFlight(t)
  BY <1>1 DEF Issue, Goto, InFlight, RowsInv, TypeOK, RequestsOK
<1>4. /\ \A i \in issued \ {t} : /\ Holder(i)' <=> Holder(i)
                                 /\ Live(i)' <=> Live(i)
      /\ Holder(t) /\ Live(t) /\ ~Holder(t)'
      /\ Holder(j)' /\ ~Live(j)'
  BY <1>1, <1>2, <1>3 DEF Holder, Live
<1>5. /\ t \in HoldersOf(l) /\ Known(l) /\ Known(j)' = Known(j)
      /\ \A k \in Jti \ {l} : /\ Known(k)' <=> Known(k)
                              /\ HoldersOf(k)' = HoldersOf(k)
                              /\ HoldersOf(k) \subseteq issued \ {t}
                              /\ Known(k) => k # j
  BY <1>1, <1>2, <1>4 DEF Known, HoldersOf
<1>6. j \in HoldersOf(l)' /\ Known(l)'
  BY <1>1, <1>2, <1>4, <1>5 DEF HoldersOf, Known
<1>7. /\ linePhase[l] = "held" /\ now < lineDeadline[l]
      /\ linePhase'[l] = "moving" /\ lineDeadline'[l] = now + RefreshTTL
      /\ lineOwner'[l] = lineOwner[l]
  BY <1>1, <1>2, <1>4, <1>5, <1>6 DEF LinesView
<1>8. \A m \in Jti \ {l} : /\ linePhase'[m] = linePhase[m]
                           /\ lineOwner'[m] = lineOwner[m]
                           /\ lineDeadline'[m] = lineDeadline[m]
  BY <1>1, <1>2, <1>4, <1>5, LineStays
<1> QED
  BY <1>1, <1>7, <1>8, OneLineMoves DEF Lines!Rotate

(* A line whose holder goes without a successor dies.                      *)
LEMMA LineDies ==
    ASSUME RowsInv, LineInv, LinesView, LinesView',
           UNCHANGED <<issued, line, subject, issuedAt, now>>,
           NEW t \in issued, Holder(t), ~Holder(t)',
           \A i \in issued \ {t} : /\ Holder(i)' <=> Holder(i)
                                   /\ Live(i)' <=> Live(i)
    PROVE  \E l \in Jti : Lines!Die(l)
<1> PICK l \in Jti : l = line[t]
  BY DEF RowsInv, TypeOK, LinesOK
<1>1. /\ t \in HoldersOf(l) /\ HoldersOf(l)' = {} /\ Known(l) /\ Known(l)'
      /\ \A k \in Jti \ {l} : /\ Known(k)' <=> Known(k)
                              /\ HoldersOf(k)' = HoldersOf(k)
                              /\ HoldersOf(k) \subseteq issued \ {t}
  BY DEF Known, HoldersOf, LineInv, OneHolderPerLine
<1>2. /\ linePhase[l] \in {"moving", "held"} /\ linePhase'[l] = "dead"
      /\ lineOwner'[l] = lineOwner[l] /\ lineDeadline'[l] = 0
  BY <1>1 DEF LinesView
<1>3. \A k \in Jti \ {l} : /\ linePhase'[k] = linePhase[k]
                           /\ lineOwner'[k] = lineOwner[k]
                           /\ lineDeadline'[k] = lineDeadline[k]
  BY <1>1, LineStays
<1> QED
  BY <1>2, <1>3, OneLineMoves DEF Lines!Die

LEMMA SweepSweeps ==
    ASSUME RowsInv, LineInv, LinesView, LinesView',
           NEW r \in Requests, RevokeAllForUser(r)
    PROVE  \E u \in Users : Lines!Sweep(u)
<1> PICK u \in Users : u = who[r]
  BY DEF RevokeAllForUser, RowsInv, RequestsOK
<1>1. /\ pc[r] \in {"reused", "changed"} /\ u # None
      /\ revoked' = revoked \cup {j \in saved : subject[j] = u}
      /\ UNCHANGED <<saved, issued, line, subject, issuedAt, now>>
      /\ issued \subseteq Jti
      /\ \A i \in issued : subject[line[i]] = subject[i]
  BY ConstantsAssumption
     DEF RevokeAllForUser, RowsOf, claims, RowsInv, TypeOK, LinesOK
<1>2. \A i \in issued : /\ InFlight(i)' <=> InFlight(i)
                        /\ Live(i) => ~InFlight(i)
  BY <1>1 DEF RevokeAllForUser, Finish, Goto, InFlight, Live, RowsInv, TypeOK,
              RequestsOK
<1>3. \A i \in issued :
          /\ Live(i)' <=> Live(i) /\ subject[i] # u
          /\ Holder(i)' <=> Holder(i) /\ ~(Live(i) /\ subject[i] = u)
  BY <1>1, <1>2 DEF Holder, Live
<1>4. ASSUME NEW l \in Jti
      PROVE  /\ linePhase'[l] = IF Lines!Swept(l, u) THEN "dead"
                                ELSE linePhase[l]
             /\ lineDeadline'[l] = IF Lines!Swept(l, u) THEN 0
                                   ELSE lineDeadline[l]
             /\ lineOwner'[l] = lineOwner[l]
  <2>1. Known(l)' <=> Known(l)
    BY <1>1 DEF Known
  <2>2. CASE HoldersOf(l) = {}
    <3>1. HoldersOf(l)' = HoldersOf(l)
      BY <1>1, <1>3, <2>2 DEF HoldersOf
    <3>2. ~Lines!Swept(l, u)
      BY <2>2 DEF LinesView, Lines!Swept
    <3> QED
      BY <1>1, <2>1, <2>2, <3>1, <3>2, LineStays
  <2>3. ASSUME NEW j \in HoldersOf(l), Live(j), subject[j] = u
        PROVE  /\ Lines!Swept(l, u) /\ linePhase'[l] = "dead"
               /\ lineDeadline'[l] = 0 /\ lineOwner'[l] = lineOwner[l]
    <3>1. HoldersOf(l)' = {} /\ Known(l) /\ subject[l] = u
      BY <1>1, <1>3, <2>3 DEF HoldersOf, Known, LineInv, OneHolderPerLine
    <3> QED
      BY <1>1, <2>1, <2>3, <3>1 DEF LinesView, Lines!Swept
  <2>4. ASSUME NEW j \in HoldersOf(l), ~(Live(j) /\ subject[j] = u)
        PROVE  /\ ~Lines!Swept(l, u) /\ linePhase'[l] = linePhase[l]
               /\ lineDeadline'[l] = lineDeadline[l]
               /\ lineOwner'[l] = lineOwner[l]
    <3>1. /\ HoldersOf(l) = {j} /\ j \in issued /\ line[j] = l
      BY DEF HoldersOf, LineInv, OneHolderPerLine
    <3>2. HoldersOf(l)' = HoldersOf(l) /\ (Live(j)' <=> Live(j))
      BY <1>1, <1>3, <2>4, <3>1 DEF HoldersOf
    <3>3. ~Lines!Swept(l, u)
      BY <1>1, <2>4, <3>1 DEF LinesView, Lines!Swept, Known
    <3> QED
      BY <1>1, <2>1, <3>1, <3>2, <3>3, LineStays
  <2> QED
    BY <2>2, <2>3, <2>4
<1>5. /\ linePhase' = [l \in Jti |-> IF Lines!Swept(l, u) THEN "dead"
                                     ELSE linePhase[l]]
      /\ lineDeadline' = [l \in Jti |-> IF Lines!Swept(l, u) THEN 0
                                        ELSE lineDeadline[l]]
      /\ lineOwner' = lineOwner
  BY <1>4 DEF LinesView
<1> QED
  BY <1>1, <1>5 DEF Lines!Sweep

LEMMA LinesInit == Init => Lines!Init
<1> SUFFICES ASSUME Init PROVE Lines!Init
  OBVIOUS
<1>1. /\ issued = {} /\ now = 0 /\ \A l \in Jti : HoldersOf(l) = {}
  BY DEF Init, HoldersOf
<1> QED
  BY <1>1 DEF Lines!Init, linePhase, lineOwner, lineDeadline

(* Every step is a step of the lines or none.                              *)
LEMMA LinesStep ==
    RowsInv /\ LineInv /\ RowsInv' /\ LineInv' /\ [Next]_vars
        => [Lines!Next]_(Lines!lineVars)
<1> SUFFICES ASSUME RowsInv, LineInv, LineInv', [Next]_vars
             PROVE  [Lines!Next]_(Lines!lineVars)
  OBVIOUS
<1> LinesView /\ LinesView'
  BY LinesAreSeen, LinesAreSeenNext
<1>1. ASSUME NEW r \in Requests, NEW u \in Users, Authenticate(r, u)
      PROVE Lines!Next
  BY <1>1, AuthenticateBegins DEF Lines!Next
<1>2. ASSUME NEW r \in Requests, NEW u \in Users, VerifyPassword(r, u)
      PROVE UNCHANGED Lines!lineVars
  <2>1. /\ UNCHANGED <<issued, line, subject, issuedAt, now>>
        /\ \A j \in issued : (Holder(j)' <=> Holder(j)) /\ (Live(j)' <=> Live(j))
    BY <1>2 DEF VerifyPassword, Goto, tables, claims, Holder, Live, InFlight,
                RowsInv, TypeOK
  <2> QED
    BY <2>1, AllLinesStay
<1>3. ASSUME NEW r \in Requests, NEW t \in delivered,
             NEW step \in {"consume", "revoke"}, ParseRefresh(r, t, step)
      PROVE UNCHANGED Lines!lineVars
  <2>1. /\ UNCHANGED <<issued, line, subject, issuedAt, now>>
        /\ \A j \in issued : (Holder(j)' <=> Holder(j)) /\ (Live(j)' <=> Live(j))
    BY <1>3 DEF ParseRefresh, Goto, tables, claims, Holder, Live, InFlight,
                RowsInv, TypeOK
  <2> QED
    BY <2>1, AllLinesStay
<1>4. ASSUME NEW r \in Requests, Save(r) PROVE Lines!Next
  BY <1>4, SaveSettles DEF Lines!Next
<1>5. ASSUME NEW r \in Requests, Answer(r) PROVE UNCHANGED Lines!lineVars
  <2>1. /\ UNCHANGED <<issued, line, subject, issuedAt, now>>
        /\ \A j \in issued : (Holder(j)' <=> Holder(j)) /\ (Live(j)' <=> Live(j))
    BY <1>5 DEF Answer, Finish, Goto, tables, claims, Holder, Live, InFlight,
                RowsInv, TypeOK
  <2> QED
    BY <2>1, AllLinesStay
<1>6. ASSUME NEW r \in Requests, Consume(r) PROVE Lines!Next
  BY <1>6, ConsumeRotates DEF Lines!Next
<1>7. ASSUME NEW r \in Requests, ConsumeMiss(r) PROVE UNCHANGED Lines!lineVars
  <2>1. /\ UNCHANGED <<issued, line, subject, issuedAt, now>>
        /\ \A j \in issued : (Holder(j)' <=> Holder(j)) /\ (Live(j)' <=> Live(j))
    BY <1>7 DEF ConsumeMiss, Goto, tables, claims, Holder, Live, InFlight,
                RowsInv, TypeOK
  <2> QED
    BY <2>1, AllLinesStay
<1>8. ASSUME NEW r \in Requests, Classify(r) PROVE UNCHANGED Lines!lineVars
  <2>1. /\ UNCHANGED <<issued, line, subject, issuedAt, now>>
        /\ \A j \in issued : (Holder(j)' <=> Holder(j)) /\ (Live(j)' <=> Live(j))
    BY <1>8 DEF Classify, Finish, Goto, tables, claims, Holder, Live, InFlight,
                RowsInv, TypeOK
  <2> QED
    BY <2>1, AllLinesStay
<1>9. ASSUME NEW r \in Requests, Revoke(r) PROVE [Lines!Next]_(Lines!lineVars)
  <2> PICK t \in issued : t = tok[r]
    BY <1>9 DEF Revoke, RowsInv, TypeOK, RequestsOK
  <2>1. /\ UNCHANGED <<issued, line, subject, issuedAt, now, saved>>
        /\ revoked' = revoked \cup {t} /\ t \in saved
        /\ \A j \in issued : InFlight(j)' <=> InFlight(j)
        /\ ~InFlight(t)
    BY <1>9 DEF Revoke, Finish, Goto, claims, InFlight, RowsInv, TypeOK,
                RequestsOK
  <2>2. /\ \A j \in issued \ {t} : /\ Holder(j)' <=> Holder(j)
                                   /\ Live(j)' <=> Live(j)
        /\ ~Holder(t)' /\ ~Live(t)' /\ Holder(t) = Live(t)
    BY <2>1 DEF Holder, Live
  <2>3. CASE Live(t)
    BY <2>1, <2>2, <2>3, LineDies DEF Lines!Next
  <2>4. CASE ~Live(t)
    BY <2>1, <2>2, <2>4, AllLinesStay
  <2> QED
    BY <2>3, <2>4
<1>10. ASSUME NEW r \in Requests, RevokeAllForUser(r) PROVE Lines!Next
  BY <1>10, SweepSweeps DEF Lines!Next
<1>11. ASSUME NEW r \in Requests, UpdatePasswordHash(r)
       PROVE UNCHANGED Lines!lineVars
  <2>1. /\ UNCHANGED <<issued, line, subject, issuedAt, now>>
        /\ \A j \in issued : (Holder(j)' <=> Holder(j)) /\ (Live(j)' <=> Live(j))
    BY <1>11 DEF UpdatePasswordHash, Goto, claims, Holder, Live, InFlight,
                 RowsInv, TypeOK
  <2> QED
    BY <2>1, AllLinesStay
<1>12. ASSUME NEW r \in Requests, Abort(r) PROVE [Lines!Next]_(Lines!lineVars)
  <2>1. /\ UNCHANGED <<issued, line, subject, issuedAt, now, saved, revoked>>
        /\ \A j \in issued : Live(j)' <=> Live(j)
    BY <1>12 DEF Abort, tables, claims, Live
  <2>2. CASE pc[r] = "save"
    <3> PICK t \in issued : t = tok[r]
      BY <2>2 DEF RowsInv, RequestsOK
    <3>1. /\ \A j \in issued \ {t} : InFlight(j)' <=> InFlight(j)
          /\ InFlight(t) /\ ~InFlight(t)' /\ t \notin saved
      BY <1>12, <2>2 DEF Abort, Finish, Goto, InFlight, RowsInv, TypeOK,
                         RequestsOK, OneIssuer
    <3>2. /\ \A j \in issued \ {t} : Holder(j)' <=> Holder(j)
          /\ Holder(t) /\ ~Holder(t)'
      BY <2>1, <3>1 DEF Holder, Live
    <3> QED
      BY <2>1, <3>2, LineDies DEF Lines!Next
  <2>3. CASE pc[r] # "save"
    <3>1. \A j \in issued : Holder(j)' <=> Holder(j)
      BY <1>12, <2>1, <2>3 DEF Abort, Finish, Goto, Holder, InFlight, RowsInv,
                               TypeOK
    <3> QED
      BY <2>1, <3>1, AllLinesStay
  <2> QED
    BY <2>2, <2>3
<1>13. ASSUME Tick PROVE Lines!Next
  <2>1. /\ UNCHANGED <<issued, line, subject, issuedAt, saved, revoked, pc, tok>>
        /\ now < MaxTime /\ now' = now + 1
    BY <1>13 DEF Tick, tables, claims, handler
  <2>2. \A l \in Jti : /\ Known(l)' <=> Known(l)
                       /\ HoldersOf(l)' = HoldersOf(l)
                       /\ \A j \in HoldersOf(l) : Live(j)' <=> Live(j)
    BY <2>1 DEF Known, HoldersOf, Holder, Live, InFlight
  <2>3. \A l \in Jti : /\ linePhase'[l] = linePhase[l]
                       /\ lineOwner'[l] = lineOwner[l]
                       /\ lineDeadline'[l] = lineDeadline[l]
    BY <2>1, <2>2, LineStays
  <2>4. /\ linePhase' = linePhase /\ lineOwner' = lineOwner
        /\ lineDeadline' = lineDeadline
    BY <2>3 DEF LinesView
  <2> QED
    BY <2>1, <2>4 DEF Lines!Next, Lines!Tick
<1>14. CASE UNCHANGED vars
  <2>1. /\ UNCHANGED <<issued, line, subject, issuedAt, now>>
        /\ \A j \in issued : (Holder(j)' <=> Holder(j)) /\ (Live(j)' <=> Live(j))
    BY <1>14 DEF vars, Holder, Live, InFlight
  <2> QED
    BY <2>1, AllLinesStay
<1> QED
  BY <1>1, <1>2, <1>3, <1>4, <1>5, <1>6, <1>7, <1>8, <1>9, <1>10, <1>11,
     <1>12, <1>13, <1>14 DEF Next

(* The handlers, stores and sweeps implement session lines: whatever the   *)
(* interleaving, no dead line comes back, no expired one moves on, and a   *)
(* sweep leaves nothing but lines on the move.                             *)
THEOREM HandlersImplementLines == Spec => ImplementsLines
  BY RowsInit, RowsStep, LineInit, LineStep, LinesInit, LinesStep, PTL
     DEF Spec, ImplementsLines, Lines!Spec
=============================================================================
