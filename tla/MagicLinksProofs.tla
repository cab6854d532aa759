-------------------------- MODULE MagicLinksProofs --------------------------
(***************************************************************************)
(* Theorems about MagicLinks, for any number of addresses, links, codes    *)
(* and requests, and for any lifetimes with RateWindow <= StaleAge.        *)
(***************************************************************************)
EXTENDS MagicLinks, TLAPS, FiniteSetTheorems

Creating == {"supersede", "insert"}

(* A request creates a link nobody has, and redeems one that was written.  *)
RequestsOK ==
    \A r \in Requests :
        /\ pc[r] # "idle" => who[r] \in Emails
        /\ pc[r] \in Creating => link[r] \in Links \ Inserted
        /\ pc[r] \in {"prune", "mail", "session"} => link[r] \in Inserted

OneCreator ==
    \A r, q \in Requests :
        pc[r] \in Creating /\ pc[q] \in Creating /\ link[r] = link[q] => r = q

(* A row is of a registered address, and used after it is created, by the  *)
(* database's clock.                                                       *)
ClocksOK ==
    /\ \A l \in rows : email[l] \in Emails /\ created[l] <= now
    /\ \A l \in used : created[l] <= usedAt[l]

RowsInv == TypeOK /\ RequestsOK /\ OneCreator /\ ClocksOK
-----------------------------------------------------------------------------
LEMMA RowsInit == Init => RowsInv
  BY ConstantsAssumption
     DEF Init, RowsInv, TypeOK, RequestsOK, OneCreator, ClocksOK, Steps,
         Inserted, Creating

(* RowsInv is inductive: one step per action.                              *)
LEMMA RowsStep == RowsInv /\ [Next]_vars => RowsInv'
<1> SUFFICES ASSUME RowsInv, [Next]_vars PROVE RowsInv'
  OBVIOUS
<1> USE ConstantsAssumption
        DEF RowsInv, TypeOK, RequestsOK, OneCreator, ClocksOK, Steps, Creating,
            Inserted, Goto, Continue, Finish, table, history, Usable, Unused
<1>1. ASSUME NEW r \in Requests, NEW e \in Emails, CountRecent(r, e)
      PROVE RowsInv'
  BY <1>1 DEF CountRecent, Drawn
<1>2. ASSUME NEW r \in Requests, Supersede(r) PROVE RowsInv'
  BY <1>2 DEF Supersede
<1>3. ASSUME NEW r \in Requests, Insert(r) PROVE RowsInv'
  BY <1>3 DEF Insert
<1>4. ASSUME NEW r \in Requests, Prune(r) PROVE RowsInv'
  BY <1>4 DEF Prune, Stale
<1>5. ASSUME NEW r \in Requests, Mail(r) PROVE RowsInv'
  BY <1>5 DEF Mail
<1>6. ASSUME NEW r \in Requests, NEW l \in Links, Consume(r, l)
      PROVE RowsInv'
  BY <1>6 DEF Consume, Redeemable
<1>7. ASSUME NEW r \in Requests, NEW e \in Emails, NEW c \in Codes, ConsumeCode(r, e, c)
      PROVE RowsInv'
  BY <1>7 DEF ConsumeCode, Open
<1>8. ASSUME NEW r \in Requests, NEW e \in Emails, NEW c \in Codes, ConsumeCodeMiss(r, e, c)
      PROVE RowsInv'
  BY <1>8 DEF ConsumeCodeMiss
<1>9. ASSUME NEW r \in Requests, CountAttempt(r) PROVE RowsInv'
  BY <1>9 DEF CountAttempt
<1>10. ASSUME NEW r \in Requests, IssuePair(r) PROVE RowsInv'
  BY <1>10 DEF IssuePair
<1>11. ASSUME NEW r \in Requests, Abort(r) PROVE RowsInv'
  <2>1. uncounted' \in Nat
    BY <1>11 DEF Abort
  <2>2. CASE Continue(r, "mail") /\ pc[r] = "prune"
    BY <1>11, <2>1, <2>2 DEF Abort
  <2>3. CASE Finish(r)
    BY <1>11, <2>1, <2>3 DEF Abort
  <2> QED  BY <1>11, <2>2, <2>3 DEF Abort
<1>12. CASE Tick
  BY <1>12 DEF Tick, handler
<1>13. CASE UNCHANGED vars
  BY <1>13 DEF vars, table, handler, history
<1> QED
  BY <1>1, <1>2, <1>3, <1>4, <1>5, <1>6, <1>7,
     <1>8, <1>9, <1>10, <1>11, <1>12, <1>13 DEF Next

(* The table keeps its shape in every behaviour: no row comes back after   *)
(* it was deleted, and no link is mailed before its row is written.        *)
THEOREM TypeCorrect == Spec => []TypeOK
<1>1. RowsInv => TypeOK
  BY DEF RowsInv
<1> QED
  BY RowsInit, RowsStep, <1>1, PTL DEF Spec
-----------------------------------------------------------------------------
(* A redeemed or superseded link is used, and never becomes unused.        *)
Spent == used \cup pruned

SpentInv ==
    /\ superseded \subseteq Spent
    /\ \A l \in Links : granted[l] # 0 \/ Redeeming(l) # {} => l \in Spent
    /\ RedeemedOnce
    /\ SupersededIsDead

LEMMA SpentInit == Init => SpentInv
  BY DEF Init, SpentInv, Spent, Redeeming, RedeemedOnce, SupersededIsDead

LEMMA SpentStep == RowsInv /\ SpentInv /\ [Next]_vars => SpentInv'
<1> SUFFICES ASSUME RowsInv, SpentInv, [Next]_vars PROVE SpentInv'
  OBVIOUS
<1> USE ConstantsAssumption
        DEF RowsInv, TypeOK, RequestsOK, OneCreator, Steps, Creating,
            Inserted, Goto, Continue, Finish, table, history, Usable, Unused,
            SpentInv, Spent, Redeeming, RedeemedOnce, SupersededIsDead
<1>1. ASSUME NEW r \in Requests, NEW e \in Emails, CountRecent(r, e)
      PROVE SpentInv'
  BY <1>1 DEF CountRecent, Drawn
<1>2. ASSUME NEW r \in Requests, Supersede(r) PROVE SpentInv'
  BY <1>2 DEF Supersede
<1>3. ASSUME NEW r \in Requests, Insert(r) PROVE SpentInv'
  BY <1>3 DEF Insert
<1>4. ASSUME NEW r \in Requests, Prune(r) PROVE SpentInv'
  BY <1>4 DEF Prune, Stale
<1>5. ASSUME NEW r \in Requests, Mail(r) PROVE SpentInv'
  BY <1>5 DEF Mail
<1>6. ASSUME NEW r \in Requests, NEW l \in Links, Consume(r, l)
      PROVE SpentInv'
  BY <1>6 DEF Consume, Redeemable
<1>7. ASSUME NEW r \in Requests, NEW e \in Emails, NEW c \in Codes, ConsumeCode(r, e, c)
      PROVE SpentInv'
  BY <1>7 DEF ConsumeCode, Open
<1>8. ASSUME NEW r \in Requests, NEW e \in Emails, NEW c \in Codes, ConsumeCodeMiss(r, e, c)
      PROVE SpentInv'
  BY <1>8 DEF ConsumeCodeMiss
<1>9. ASSUME NEW r \in Requests, CountAttempt(r) PROVE SpentInv'
  BY <1>9 DEF CountAttempt
<1>10. ASSUME NEW r \in Requests, IssuePair(r) PROVE SpentInv'
  <2>1. /\ pc[r] = "session" /\ link[r] \in Spent \cap Links
        /\ r \in Redeeming(link[r])
        /\ UNCHANGED <<used, pruned, superseded>>
    BY <1>10 DEF IssuePair
  <2>2. /\ Redeeming(link[r]) = {r} /\ link[r] \notin superseded
        /\ granted[link[r]] = 0
    BY <2>1
  <2>3. /\ granted' = [granted EXCEPT ![link[r]] = 1]
        /\ \A l \in Links : Redeeming(l)' = Redeeming(l) \ {r}
    BY <1>10, <2>2 DEF IssuePair
  <2> HIDE DEF Redeeming, RequestsOK, Goto, Finish
  <2> QED  BY <2>1, <2>2, <2>3
<1>11. ASSUME NEW r \in Requests, Abort(r) PROVE SpentInv'
  <2>1. \A l \in Links : Redeeming(l)' \subseteq Redeeming(l)
    BY <1>11 DEF Abort
  <2>2. UNCHANGED <<used, pruned, superseded, granted>>
    BY <1>11 DEF Abort
  <2> HIDE DEF Redeeming, RequestsOK, Goto, Finish
  <2> QED  BY <2>1, <2>2
<1>12. CASE Tick
  BY <1>12 DEF Tick, handler
<1>13. CASE UNCHANGED vars
  BY <1>13 DEF vars, table, handler, history
<1> QED
  BY <1>1, <1>2, <1>3, <1>4, <1>5, <1>6, <1>7,
     <1>8, <1>9, <1>10, <1>11, <1>12, <1>13 DEF Next

(* However many requests present a link or its code at the same time, it   *)
(* opens at most one session.                                              *)
THEOREM LinkOpensOneSession == Spec => []RedeemedOnce
<1>1. SpentInv => RedeemedOnce
  BY DEF SpentInv
<1> QED
  BY RowsInit, RowsStep, SpentInit, SpentStep, <1>1, PTL DEF Spec

(* A link that a later request superseded never opens a session.           *)
THEOREM SupersededLinksAreDead == Spec => []SupersededIsDead
<1>1. SpentInv => SupersededIsDead
  BY DEF SpentInv
<1> QED
  BY RowsInit, RowsStep, SpentInit, SpentStep, <1>1, PTL DEF Spec
-----------------------------------------------------------------------------
(* What a request saw when it superseded is spent from then on.            *)
SawInv ==
    /\ \A l \in Links : saw[l] \subseteq Inserted
    /\ \A l \in Inserted : \A k \in saw[l] :
          email[k] = email[l] => k \in Spent
    /\ \A r \in Requests : pc[r] = "insert" =>
          \A k \in saw[link[r]] : email[k] = who[r] => k \in Spent

LEMMA SawInit == Init => SawInv
  BY DEF Init, SawInv, Inserted

LEMMA SawStep == RowsInv /\ SawInv /\ [Next]_vars => SawInv'
<1> SUFFICES ASSUME RowsInv, SawInv, [Next]_vars PROVE SawInv'
  OBVIOUS
<1> USE ConstantsAssumption
        DEF RowsInv, TypeOK, RequestsOK, OneCreator, Steps, Creating,
            Inserted, Goto, Continue, Finish, table, history, Usable, Unused,
            SawInv, Spent
<1>1. ASSUME NEW r \in Requests, NEW e \in Emails, CountRecent(r, e)
      PROVE SawInv'
  BY <1>1 DEF CountRecent, Drawn
<1>2. ASSUME NEW r \in Requests, Supersede(r) PROVE SawInv'
  BY <1>2 DEF Supersede
<1>3. ASSUME NEW r \in Requests, Insert(r) PROVE SawInv'
  BY <1>3 DEF Insert
<1>4. ASSUME NEW r \in Requests, Prune(r) PROVE SawInv'
  BY <1>4 DEF Prune, Stale
<1>5. ASSUME NEW r \in Requests, Mail(r) PROVE SawInv'
  BY <1>5 DEF Mail
<1>6. ASSUME NEW r \in Requests, NEW l \in Links, Consume(r, l)
      PROVE SawInv'
  BY <1>6 DEF Consume, Redeemable
<1>7. ASSUME NEW r \in Requests, NEW e \in Emails, NEW c \in Codes, ConsumeCode(r, e, c)
      PROVE SawInv'
  BY <1>7 DEF ConsumeCode, Open
<1>8. ASSUME NEW r \in Requests, NEW e \in Emails, NEW c \in Codes, ConsumeCodeMiss(r, e, c)
      PROVE SawInv'
  BY <1>8 DEF ConsumeCodeMiss
<1>9. ASSUME NEW r \in Requests, CountAttempt(r) PROVE SawInv'
  BY <1>9 DEF CountAttempt
<1>10. ASSUME NEW r \in Requests, IssuePair(r) PROVE SawInv'
  BY <1>10 DEF IssuePair
<1>11. ASSUME NEW r \in Requests, Abort(r) PROVE SawInv'
  BY <1>11 DEF Abort
<1>12. CASE Tick
  BY <1>12 DEF Tick, handler
<1>13. CASE UNCHANGED vars
  BY <1>13 DEF vars, table, handler, history
<1> QED
  BY <1>1, <1>2, <1>3, <1>4, <1>5, <1>6, <1>7,
     <1>8, <1>9, <1>10, <1>11, <1>12, <1>13 DEF Next

(* Of two unused links of an address, neither request saw the other's row: *)
(* they raced.                                                             *)
THEOREM UnusedTogetherOnlyInRaces == Spec => []TwoUnusedOnlyIfRacing
<1>1. RowsInv /\ SawInv => TwoUnusedOnlyIfRacing
  BY DEF RowsInv, TypeOK, SawInv, Spent, Inserted, TwoUnusedOnlyIfRacing
<1> QED
  BY RowsInit, RowsStep, SawInit, SawStep, <1>1, PTL DEF Spec
-----------------------------------------------------------------------------
(* Pruning: what is stale was created at least StaleAge ago, unless it was *)
(* written after it had expired.                                           *)
LEMMA PruneInit == Init => PruneSparesRecent
  BY DEF Init, PruneSparesRecent

LEMMA PruneStep == RowsInv /\ PruneSparesRecent /\ [Next]_vars
                     => PruneSparesRecent'
<1> SUFFICES ASSUME RowsInv, PruneSparesRecent, [Next]_vars
             PROVE  PruneSparesRecent'
  OBVIOUS
<1> USE ConstantsAssumption
        DEF RowsInv, TypeOK, RequestsOK, ClocksOK, Steps, Creating, Inserted,
            Goto, Continue, Finish, table, history, PruneSparesRecent
<1>1. ASSUME NEW r \in Requests, NEW e \in Emails, CountRecent(r, e)
      PROVE PruneSparesRecent'
  BY <1>1 DEF CountRecent, Drawn
<1>2. ASSUME NEW r \in Requests, Supersede(r) PROVE PruneSparesRecent'
  BY <1>2 DEF Supersede
<1>3. ASSUME NEW r \in Requests, Insert(r) PROVE PruneSparesRecent'
  BY <1>3 DEF Insert
<1>4. ASSUME NEW r \in Requests, Prune(r) PROVE PruneSparesRecent'
  BY <1>4 DEF Prune, Stale
<1>5. ASSUME NEW r \in Requests, Mail(r) PROVE PruneSparesRecent'
  BY <1>5 DEF Mail
<1>6. ASSUME NEW r \in Requests, NEW l \in Links, Consume(r, l)
      PROVE PruneSparesRecent'
  BY <1>6 DEF Consume, Redeemable
<1>7. ASSUME NEW r \in Requests, NEW e \in Emails, NEW c \in Codes, ConsumeCode(r, e, c)
      PROVE PruneSparesRecent'
  BY <1>7 DEF ConsumeCode, Open
<1>8. ASSUME NEW r \in Requests, NEW e \in Emails, NEW c \in Codes, ConsumeCodeMiss(r, e, c)
      PROVE PruneSparesRecent'
  BY <1>8 DEF ConsumeCodeMiss
<1>9. ASSUME NEW r \in Requests, CountAttempt(r) PROVE PruneSparesRecent'
  BY <1>9 DEF CountAttempt
<1>10. ASSUME NEW r \in Requests, IssuePair(r) PROVE PruneSparesRecent'
  BY <1>10 DEF IssuePair
<1>11. ASSUME NEW r \in Requests, Abort(r) PROVE PruneSparesRecent'
  BY <1>11 DEF Abort
<1>12. CASE Tick
  BY <1>12 DEF Tick, handler
<1>13. CASE UNCHANGED vars
  BY <1>13 DEF vars, table, handler, history
<1> QED
  BY <1>1, <1>2, <1>3, <1>4, <1>5, <1>6, <1>7,
     <1>8, <1>9, <1>10, <1>11, <1>12, <1>13 DEF Next

(* The hourly limit loses no row to pruning, whatever the lifetimes.       *)
THEOREM PruningKeepsTheCount == Spec => []PruneSparesRecent
  BY RowsInit, RowsStep, PruneInit, PruneStep, PTL DEF Spec
-----------------------------------------------------------------------------
(* Counting: a part of a finite set, a part that misses an element, and a  *)
(* set that gained at most one.                                            *)
LEMMA CountPart ==
    ASSUME NEW S, IsFiniteSet(S), NEW T \in SUBSET S
    PROVE  /\ IsFiniteSet(T) /\ Cardinality(T) <= Cardinality(S)
           /\ Cardinality(S) \in Nat /\ Cardinality(T) \in Nat
  BY FS_Subset, FS_CardinalityType

LEMMA CountLess ==
    ASSUME NEW S, IsFiniteSet(S), NEW x \in S, NEW T \in SUBSET (S \ {x})
    PROVE  /\ IsFiniteSet(T) /\ Cardinality(T) + 1 <= Cardinality(S)
           /\ Cardinality(S) \in Nat /\ Cardinality(T) \in Nat
<1>1. /\ IsFiniteSet(S \ {x}) /\ Cardinality(S) \in Nat
      /\ Cardinality(S \ {x}) = Cardinality(S) - 1
  BY FS_RemoveElement, FS_CardinalityType
<1> QED
  BY <1>1, CountPart

LEMMA CountMore ==
    ASSUME NEW S, IsFiniteSet(S), NEW x, NEW T \in SUBSET (S \cup {x})
    PROVE  /\ IsFiniteSet(T) /\ Cardinality(T) <= Cardinality(S) + 1
           /\ Cardinality(S) \in Nat /\ Cardinality(T) \in Nat
<1>1. IsFiniteSet(S \cup {x}) /\ Cardinality(S) \in Nat
  BY FS_AddElement, FS_CardinalityType
<1>2. Cardinality(S \cup {x}) = IF x \in S THEN Cardinality(S)
                                           ELSE Cardinality(S) + 1
  BY FS_AddElement
<1>3. /\ Cardinality(S \cup {x}) \in Nat
      /\ Cardinality(S \cup {x}) <= Cardinality(S) + 1
  BY <1>1, <1>2
<1> QED
  BY <1>1, <1>3, CountPart

-----------------------------------------------------------------------------
(* The hourly limit: a request that passed the check holds a place until   *)
(* its row takes it, so places and rows are counted together.              *)
Before(e) == {r \in Requests : pc[r] \in Creating /\ who[r] = e}

RateInv ==
    /\ IsFiniteSet(rows)
    /\ \A e \in Emails :
          Cardinality(Recent(e)) + Cardinality(Before(e))
            <= RateLimit + Cardinality(Requests) - 1

LEMMA RateFinite ==
    ASSUME RateInv, NEW e \in Emails
    PROVE  /\ IsFiniteSet(Recent(e)) /\ IsFiniteSet(Before(e))
           /\ Cardinality(Recent(e)) \in Nat /\ Cardinality(Before(e)) \in Nat
           /\ Cardinality(Requests) \in Nat /\ RateLimit \in Nat
  BY CountPart, ConstantsAssumption, RequestsAssumption
     DEF RateInv, Recent, Before

(* Steps that add no row and let no request through the check.             *)
LEMMA RateShrinks ==
    ASSUME RateInv, rows' \subseteq rows,
           \A e \in Emails : /\ Recent(e)' \subseteq Recent(e)
                             /\ Before(e)' \subseteq Before(e)
    PROVE  RateInv'
<1>1. IsFiniteSet(rows')
  BY CountPart DEF RateInv
<1>2. ASSUME NEW e \in Emails
      PROVE  Cardinality(Recent(e)') + Cardinality(Before(e)')
               <= RateLimit + Cardinality(Requests) - 1
  <2>1. Cardinality(Recent(e)) + Cardinality(Before(e))
          <= RateLimit + Cardinality(Requests) - 1
    BY DEF RateInv
  <2>2. /\ Cardinality(Recent(e)') <= Cardinality(Recent(e))
        /\ Cardinality(Recent(e)') \in Nat
    BY RateFinite, CountPart
  <2>3. /\ Cardinality(Before(e)') <= Cardinality(Before(e))
        /\ Cardinality(Before(e)') \in Nat
    BY RateFinite, CountPart
  <2> QED
    BY <2>1, <2>2, <2>3, RateFinite
<1> QED
  BY <1>1, <1>2 DEF RateInv

LEMMA RateInit == Init => RateInv
<1> SUFFICES ASSUME Init PROVE RateInv
  OBVIOUS
<1>1. /\ rows = {} /\ \A e \in Emails : Recent(e) = {} /\ Before(e) = {}
  BY DEF Init, Recent, Before, Creating
<1>2. /\ Cardinality(Requests) \in Nat /\ Cardinality(Requests) # 0
      /\ RateLimit \in Nat
  BY ConstantsAssumption, RequestsAssumption, FS_EmptySet, FS_CardinalityType
<1>3. IsFiniteSet({}) /\ Cardinality({}) = 0
  BY FS_EmptySet
<1>4. ASSUME NEW e \in Emails
      PROVE  Cardinality(Recent(e)) + Cardinality(Before(e))
               <= RateLimit + Cardinality(Requests) - 1
  <2>1. Cardinality(Recent(e)) = 0 /\ Cardinality(Before(e)) = 0
    BY <1>1, <1>3
  <2> QED
    BY <2>1, <1>2
<1> QED
  BY <1>1, <1>3, <1>4 DEF RateInv

LEMMA RateStep == RowsInv /\ RateInv /\ [Next]_vars => RateInv'
<1> SUFFICES ASSUME RowsInv, RateInv, [Next]_vars PROVE RateInv'
  OBVIOUS
<1> USE DEF RowsInv, TypeOK, RequestsOK, Steps, Creating, Goto, Continue,
            Finish, table, history, Recent, Before
<1>1. ASSUME NEW r \in Requests, NEW e \in Emails, CountRecent(r, e)
      PROVE RateInv'
  <2>1. rows' = rows /\ r \notin Before(e)
        /\ \A d \in Emails : /\ Recent(d)' = Recent(d)
                             /\ Before(d)' \subseteq Before(d) \cup {r}
                             /\ d # e => Before(d)' = Before(d)
    BY <1>1 DEF CountRecent
  <2>2. Cardinality(Recent(e)) < RateLimit /\ Before(e)' \subseteq Requests
    BY <1>1 DEF CountRecent
  <2> HIDE DEF RowsInv, TypeOK, RequestsOK, Steps, Creating, Goto, Continue,
               Finish, table, history, Recent, Before
  <2>3. /\ Cardinality(Before(e)') <= Cardinality(Requests)
        /\ Cardinality(Before(e)') \in Nat
    BY <2>2, RequestsAssumption, CountPart
  <2>4. Cardinality(Recent(e)') + Cardinality(Before(e)')
          <= RateLimit + Cardinality(Requests) - 1
    BY <2>1, <2>2, <2>3, RateFinite
  <2> QED
    BY <2>1, <2>4 DEF RateInv
<1>2. ASSUME NEW r \in Requests, Supersede(r) PROVE RateInv'
  BY <1>2, RateShrinks DEF Supersede
<1>3. ASSUME NEW r \in Requests, Insert(r) PROVE RateInv'
  <2>1. /\ rows' \subseteq rows \cup {link[r]} /\ link[r] \notin rows
    BY <1>3 DEF Insert, Inserted
  <2>2. \A e \in Emails :
            IF e = who[r]
            THEN /\ Recent(e)' \subseteq Recent(e) \cup {link[r]}
                 /\ r \in Before(e) /\ Before(e)' \subseteq Before(e) \ {r}
            ELSE /\ Recent(e)' \subseteq Recent(e)
                 /\ Before(e)' \subseteq Before(e)
    BY <1>3, <2>1 DEF Insert
  <2> HIDE DEF RowsInv, TypeOK, RequestsOK, Steps, Creating, Goto, Continue,
               Finish, table, history, Recent, Before
  <2>3. IsFiniteSet(rows')
    BY <2>1, CountMore DEF RateInv
  <2>4. ASSUME NEW e \in Emails
        PROVE  Cardinality(Recent(e)') + Cardinality(Before(e)')
                 <= RateLimit + Cardinality(Requests) - 1
    <3>1. Cardinality(Recent(e)) + Cardinality(Before(e))
            <= RateLimit + Cardinality(Requests) - 1
      BY DEF RateInv
    <3>2. CASE e = who[r]
      <4>1. /\ Cardinality(Recent(e)') <= Cardinality(Recent(e)) + 1
            /\ Cardinality(Recent(e)') \in Nat
        BY <3>2, <2>2, RateFinite, CountMore
      <4>2. /\ Cardinality(Before(e)') + 1 <= Cardinality(Before(e))
            /\ Cardinality(Before(e)') \in Nat
        BY <3>2, <2>2, RateFinite, CountLess
      <4> QED
        BY <3>1, <4>1, <4>2, RateFinite
    <3>3. CASE e # who[r]
      <4>1. /\ Cardinality(Recent(e)') <= Cardinality(Recent(e))
            /\ Cardinality(Recent(e)') \in Nat
        BY <3>3, <2>2, RateFinite, CountPart
      <4>2. /\ Cardinality(Before(e)') <= Cardinality(Before(e))
            /\ Cardinality(Before(e)') \in Nat
        BY <3>3, <2>2, RateFinite, CountPart
      <4> QED
        BY <3>1, <4>1, <4>2, RateFinite
    <3> QED
      BY <3>2, <3>3
  <2> QED
    BY <2>3, <2>4 DEF RateInv
<1>4. ASSUME NEW r \in Requests, Prune(r) PROVE RateInv'
  BY <1>4, RateShrinks DEF Prune
<1>5. ASSUME NEW r \in Requests, Mail(r) PROVE RateInv'
  BY <1>5, RateShrinks DEF Mail
<1>6. ASSUME NEW r \in Requests, NEW l \in Links, Consume(r, l)
      PROVE RateInv'
  BY <1>6, RateShrinks DEF Consume
<1>7. ASSUME NEW r \in Requests, NEW e \in Emails, NEW c \in Codes, ConsumeCode(r, e, c)
      PROVE RateInv'
  BY <1>7, RateShrinks DEF ConsumeCode
<1>8. ASSUME NEW r \in Requests, NEW e \in Emails, NEW c \in Codes, ConsumeCodeMiss(r, e, c)
      PROVE RateInv'
  BY <1>8, RateShrinks DEF ConsumeCodeMiss
<1>9. ASSUME NEW r \in Requests, CountAttempt(r) PROVE RateInv'
  BY <1>9, RateShrinks DEF CountAttempt
<1>10. ASSUME NEW r \in Requests, IssuePair(r) PROVE RateInv'
  BY <1>10, RateShrinks DEF IssuePair
<1>11. ASSUME NEW r \in Requests, Abort(r) PROVE RateInv'
  BY <1>11, RateShrinks DEF Abort
<1>12. CASE Tick
  <2>1. rows' = rows /\ now' = now + 1
        /\ \A e \in Emails : Recent(e)' \subseteq Recent(e)
                             /\ Before(e)' = Before(e)
    BY <1>12, ConstantsAssumption DEF Tick, handler
  <2> QED
    BY <2>1, RateShrinks
<1>13. CASE UNCHANGED vars
  BY <1>13, RateShrinks DEF vars
<1> QED
  BY <1>1, <1>2, <1>3, <1>4, <1>5, <1>6, <1>7,
     <1>8, <1>9, <1>10, <1>11, <1>12, <1>13 DEF Next

(* However many requests race for an address, they overrun the hourly      *)
(* limit by fewer rows than there are requests.                            *)
THEOREM RateHolds == Spec => []RateBounded
<1>1. RateInv => RateBounded
  <2> SUFFICES ASSUME RateInv, NEW e \in Emails
               PROVE  Cardinality(Recent(e))
                        <= RateLimit + Cardinality(Requests) - 1
    BY DEF RateBounded, Recent
  <2> QED
    BY RateFinite DEF RateInv
<1> QED
  BY RowsInit, RowsStep, RateInit, RateStep, <1>1, PTL DEF Spec
-----------------------------------------------------------------------------
(* The lockout: as long as a link is open, every wrong code that it was    *)
(* tried with has been counted, is about to be, or was lost.               *)
Missing(e) == {r \in Requests : pc[r] = "miss" /\ who[r] = e}

LockInv ==
    /\ \A l \in Links : tries[l] # 0 => l \in Inserted
    /\ \A r \in Requests : pc[r] = "miss" => at[r] <= now
    /\ \A e \in Emails : \A l \in Usable(e, now) :
          tries[l] <= attempts[l] + Cardinality(Missing(e)) + uncounted
    /\ LockedButForRaces

LEMMA MissingFinite ==
    ASSUME NEW e
    PROVE  /\ IsFiniteSet(Missing(e)) /\ Cardinality(Missing(e)) \in Nat
           /\ IsFiniteSet(Missing(e)') /\ Cardinality(Missing(e)') \in Nat
           /\ Cardinality(Requests) \in Nat /\ Cardinality(Requests) # 0
<1>1. Missing(e) \in SUBSET Requests /\ Missing(e)' \in SUBSET Requests
  BY DEF Missing
<1>2. Cardinality(Requests) # 0
  BY RequestsAssumption, FS_EmptySet
<1> QED
  BY <1>1, <1>2, RequestsAssumption, CountPart

(* Steps that neither judge nor count a code.                              *)
LEMMA LockKeeps ==
    ASSUME RowsInv, LockInv,
           UNCHANGED <<tries, attempts, uncounted>>,
           Inserted \subseteq Inserted', now' \in Nat, now <= now',
           \A r \in Requests : pc'[r] = "miss" =>
               pc[r] = "miss" /\ at'[r] = at[r],
           \A e \in Emails : Missing(e)' = Missing(e),
           \A e \in Emails : \A l \in Usable(e, now)' :
               l \in Links \ Inserted \/ l \in Usable(e, now)
    PROVE  LockInv'
<1>1. /\ \A l \in Links : tries'[l] # 0 => l \in Inserted'
      /\ \A r \in Requests : pc'[r] = "miss" => at'[r] <= now'
  BY DEF LockInv, RowsInv, TypeOK
<1>2. LockedButForRaces'
  BY DEF LockInv, LockedButForRaces
<1>3. ASSUME NEW e \in Emails, NEW l \in Usable(e, now)'
      PROVE  tries'[l] <= attempts'[l] + Cardinality(Missing(e)') + uncounted'
  <2>1. CASE l \in Links \ Inserted
    <3>1. tries'[l] = 0 /\ attempts'[l] \in Nat /\ uncounted' \in Nat
      BY <2>1 DEF LockInv, RowsInv, TypeOK
    <3> QED
      BY <3>1, MissingFinite
  <2>2. CASE l \in Usable(e, now)
    BY <2>2 DEF LockInv
  <2> QED
    BY <2>1, <2>2
<1> QED
  BY <1>1, <1>2, <1>3 DEF LockInv

LEMMA LockInit == Init => LockInv
<1> SUFFICES ASSUME Init PROVE LockInv
  OBVIOUS
<1>1. /\ rows = {} /\ uncounted = 0 /\ \A l \in Links : tries[l] = 0
      /\ \A r \in Requests : pc[r] # "miss"
  BY DEF Init
<1>2. Cardinality(Requests) \in Nat /\ Cardinality(Requests) # 0
  BY MissingFinite
<1>3. LockedButForRaces
  BY <1>1, <1>2, ConstantsAssumption DEF LockedButForRaces
<1> QED
  BY <1>1, <1>3 DEF LockInv, Usable, Unused

LEMMA LockStep == RowsInv /\ LockInv /\ [Next]_vars => LockInv'
<1> SUFFICES ASSUME RowsInv, LockInv, [Next]_vars PROVE LockInv'
  OBVIOUS
<1> USE DEF RowsInv, TypeOK, RequestsOK, Steps, Creating, Goto, Continue,
            Finish, table, history, Missing, Inserted, Usable, Unused
<1>1. ASSUME NEW r \in Requests, NEW e \in Emails, CountRecent(r, e)
      PROVE LockInv'
  BY <1>1, LockKeeps DEF CountRecent
<1>2. ASSUME NEW r \in Requests, Supersede(r) PROVE LockInv'
  BY <1>2, LockKeeps DEF Supersede
<1>3. ASSUME NEW r \in Requests, Insert(r) PROVE LockInv'
  BY <1>3, LockKeeps DEF Insert
<1>4. ASSUME NEW r \in Requests, Prune(r) PROVE LockInv'
  BY <1>4, LockKeeps DEF Prune, Stale
<1>5. ASSUME NEW r \in Requests, Mail(r) PROVE LockInv'
  BY <1>5, LockKeeps DEF Mail
<1>6. ASSUME NEW r \in Requests, NEW l \in Links, Consume(r, l)
      PROVE LockInv'
  BY <1>6, LockKeeps DEF Consume
<1>7. ASSUME NEW r \in Requests, NEW e \in Emails, NEW c \in Codes, ConsumeCode(r, e, c)
      PROVE LockInv'
  BY <1>7, LockKeeps DEF ConsumeCode, Open
<1>8. ASSUME NEW r \in Requests, NEW e \in Emails, NEW c \in Codes, ConsumeCodeMiss(r, e, c)
      PROVE LockInv'
  <2>1. /\ \A l \in Links : tries'[l] # 0 => l \in Inserted'
        /\ \A q \in Requests : pc'[q] = "miss" => at'[q] <= now'
        /\ UNCHANGED <<attempts, uncounted>>
    BY <1>8 DEF ConsumeCodeMiss, Open, LockInv
  <2>2. /\ r \in Missing(e)' \ Missing(e)
        /\ \A d \in Emails : /\ Missing(d) \subseteq Missing(d)'
                             /\ d # e => Missing(d)' = Missing(d)
                             /\ Usable(d, now)' = Usable(d, now)
    BY <1>8 DEF ConsumeCodeMiss
  <2>3. /\ Missing(e) \subseteq Requests \ {r}
        /\ Missing(e) \subseteq Missing(e)' \ {r}
    BY <2>2
  <2>4. \A l \in Links :
            tries'[l] = IF l \in Open(e) THEN tries[l] + 1 ELSE tries[l]
    BY <1>8 DEF ConsumeCodeMiss
  <2>5. /\ tries \in [Links -> Nat] /\ attempts \in [Links -> Nat]
        /\ uncounted \in Nat
        /\ \A d \in Emails : Usable(d, now) \subseteq Links
        /\ \A l \in Open(e) : l \in Usable(e, now) /\ attempts[l] < MaxAttempts
        /\ \A l \in Links, d \in Emails :
               l \in Open(e) /\ l \in Usable(d, now) => d = e
    BY DEF Open
  <2> HIDE DEF RowsInv, TypeOK, RequestsOK, Steps, Creating, Goto, Continue,
               Finish, table, history, Missing, Inserted, Usable, Unused
  <2>6. /\ Cardinality(Missing(e)) + 1 <= Cardinality(Requests)
        /\ Cardinality(Missing(e)) + 1 <= Cardinality(Missing(e)')
    BY <2>2, <2>3, MissingFinite, RequestsAssumption, CountLess
  <2>7. LockedButForRaces'
    <3> SUFFICES ASSUME NEW l \in Links
                 PROVE  tries'[l] <= MaxAttempts + Cardinality(Requests) - 1
                                       + uncounted'
      BY DEF LockedButForRaces
    <3>1. CASE l \in Open(e)
      <4>1. tries[l] <= attempts[l] + Cardinality(Missing(e)) + uncounted
        BY <2>5, <3>1 DEF LockInv
      <4> QED
        BY <4>1, <3>1, <2>1, <2>4, <2>5, <2>6, MissingFinite,
           ConstantsAssumption
    <3>2. CASE l \notin Open(e)
      BY <3>2, <2>1, <2>4 DEF LockInv, LockedButForRaces
    <3> QED
      BY <3>1, <3>2
  <2>8. ASSUME NEW d \in Emails, NEW l \in Usable(d, now)'
        PROVE  tries'[l] <= attempts'[l] + Cardinality(Missing(d)')
                              + uncounted'
    <3>1. /\ l \in Usable(d, now) /\ l \in Links
          /\ tries[l] <= attempts[l] + Cardinality(Missing(d)) + uncounted
      BY <2>2, <2>5 DEF LockInv
    <3>2. CASE l \in Open(e)
      BY <3>1, <3>2, <2>1, <2>4, <2>5, <2>6, MissingFinite
    <3>3. CASE l \notin Open(e)
      <4>1. Cardinality(Missing(d)) <= Cardinality(Missing(d)')
        BY <2>2, MissingFinite, CountPart
      <4> QED
        BY <4>1, <3>1, <3>3, <2>1, <2>4, <2>5, MissingFinite
    <3> QED
      BY <3>2, <3>3
  <2> QED
    BY <2>1, <2>7, <2>8 DEF LockInv
<1>9. ASSUME NEW r \in Requests, CountAttempt(r) PROVE LockInv'
  <2>1. /\ \A l \in Links : tries'[l] # 0 => l \in Inserted'
        /\ \A q \in Requests : pc'[q] = "miss" => at'[q] <= now'
        /\ LockedButForRaces'
        /\ UNCHANGED <<tries, uncounted>>
    BY <1>9 DEF CountAttempt, LockInv, LockedButForRaces
  <2>2. \A d \in Emails :
            /\ Usable(d, now)' = Usable(d, now)
            /\ Missing(d) \subseteq Missing(d)' \cup {r}
            /\ d # who[r] => Missing(d)' = Missing(d)
    BY <1>9 DEF CountAttempt
  <2>3. \A d \in Emails : \A l \in Usable(d, now) :
            /\ l \in Links /\ attempts'[l] >= attempts[l]
            /\ d = who[r] => attempts'[l] = attempts[l] + 1
    BY <1>9 DEF CountAttempt, LockInv
  <2>4. /\ tries \in [Links -> Nat] /\ attempts \in [Links -> Nat]
        /\ attempts' \in [Links -> Nat] /\ uncounted \in Nat
    BY <1>9 DEF CountAttempt
  <2> HIDE DEF RowsInv, TypeOK, RequestsOK, Steps, Creating, Goto, Continue,
               Finish, table, history, Missing, Inserted, Usable, Unused
  <2>5. ASSUME NEW d \in Emails, NEW l \in Usable(d, now)'
        PROVE  tries'[l] <= attempts'[l] + Cardinality(Missing(d)')
                              + uncounted'
    <3>1. /\ l \in Usable(d, now) /\ l \in Links
          /\ tries[l] <= attempts[l] + Cardinality(Missing(d)) + uncounted
      BY <2>2, <2>3 DEF LockInv
    <3>2. Cardinality(Missing(d)) <= Cardinality(Missing(d)') + 1
      BY <2>2, MissingFinite, CountMore
    <3>3. /\ attempts[l] \in Nat /\ attempts'[l] \in Nat /\ tries[l] \in Nat
          /\ attempts'[l] >= attempts[l]
          /\ d = who[r] => attempts'[l] = attempts[l] + 1
          /\ d # who[r] => Missing(d)' = Missing(d)
      BY <3>1, <2>2, <2>3, <2>4
    <3> QED
      BY <3>1, <3>2, <3>3, <2>1, <2>4, MissingFinite
  <2> QED
    BY <2>1, <2>5 DEF LockInv
<1>10. ASSUME NEW r \in Requests, IssuePair(r) PROVE LockInv'
  BY <1>10, LockKeeps DEF IssuePair
<1>11. ASSUME NEW r \in Requests, Abort(r) PROVE LockInv'
  <2>1. CASE pc[r] # "miss"
    BY <1>11, <2>1, LockKeeps DEF Abort
  <2>2. CASE pc[r] = "miss"
    <3>1. /\ \A l \in Links : tries'[l] # 0 => l \in Inserted'
          /\ \A q \in Requests : pc'[q] = "miss" => at'[q] <= now'
          /\ UNCHANGED <<tries, attempts>> /\ uncounted' = uncounted + 1
      BY <1>11, <2>2 DEF Abort, LockInv
    <3>2. \A d \in Emails : /\ Usable(d, now)' = Usable(d, now)
                            /\ Usable(d, now) \subseteq Links
                            /\ Missing(d) \subseteq Missing(d)' \cup {r}
      BY <1>11, <2>2 DEF Abort
    <3>3. /\ tries \in [Links -> Nat] /\ attempts \in [Links -> Nat]
          /\ uncounted \in Nat
      OBVIOUS
    <3> HIDE DEF RowsInv, TypeOK, RequestsOK, Steps, Creating, Goto, Continue,
                 Finish, table, history, Missing, Inserted, Usable, Unused
    <3>4. LockedButForRaces'
      BY <3>1, <3>3, MissingFinite, ConstantsAssumption
         DEF LockInv, LockedButForRaces
    <3>5. ASSUME NEW d \in Emails, NEW l \in Usable(d, now)'
          PROVE  tries'[l] <= attempts'[l] + Cardinality(Missing(d)')
                                + uncounted'
      <4>1. /\ l \in Links
            /\ tries[l] <= attempts[l] + Cardinality(Missing(d)) + uncounted
        BY <3>2 DEF LockInv
      <4>2. Cardinality(Missing(d)) <= Cardinality(Missing(d)') + 1
        BY <3>2, MissingFinite, CountMore
      <4> QED
        BY <4>1, <4>2, <3>1, <3>3, MissingFinite
    <3> QED
      BY <3>1, <3>4, <3>5 DEF LockInv
  <2> QED
    BY <2>1, <2>2
<1>12. CASE Tick
  BY <1>12, LockKeeps, ConstantsAssumption DEF Tick, handler
<1>13. CASE UNCHANGED vars
  BY <1>13, LockKeeps DEF vars
<1> QED
  BY <1>1, <1>2, <1>3, <1>4, <1>5, <1>6, <1>7,
     <1>8, <1>9, <1>10, <1>11, <1>12, <1>13 DEF Next

(* However many requests guess at a link at the same time, the codes it is *)
(* tried with overrun the cap by fewer than there are requests, and by the *)
(* attempts whose count was lost.                                          *)
THEOREM LockHolds == Spec => []LockedButForRaces
<1>1. LockInv => LockedButForRaces
  BY DEF LockInv
<1> QED
  BY RowsInit, RowsStep, LockInit, LockStep, <1>1, PTL DEF Spec
=============================================================================
