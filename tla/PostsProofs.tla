---------------------------- MODULE PostsProofs ----------------------------
(***************************************************************************)
(* Theorems about Posts, for any number of users, posts and requests.      *)
(***************************************************************************)
EXTENDS Posts, TLAPS

(* The unique index on posts.slug, which every insert respects.            *)
SlugsUnique ==
    /\ \A p \in posts : slug[p] \in Slugs /\ author[p] \in Users
    /\ \A p, q \in posts : slug[p] = slug[q] => p = q

(* What a request remembers of the post it found stays true of that post,  *)
(* be it deleted by now: neither its slug nor its author ever changes.     *)
RequestsOK ==
    \A r \in Requests :
        /\ pc[r] # "idle" => target[r] \in Slugs
        /\ pc[r] \in {"create", "delete"} => who[r] \in Users
        /\ pc[r] \in {"delete", "want", "unwant"} =>
              found[r] \in posts \cup deleted /\ slug[found[r]] = target[r]
        /\ pc[r] = "delete" => author[found[r]] = who[r]

PostsInv == TypeOK /\ SlugsUnique /\ RequestsOK /\ WantedExist
-----------------------------------------------------------------------------
(* A slug's components, and the slug that follows it.                      *)
LEMMA SlugParts ==
    ASSUME NEW s \in Slugs
    PROVE  /\ s[1] \in Bases /\ s[2] \in 1..MaxSlugAttempts
           /\ s[2] < MaxSlugAttempts => <<s[1], s[2] + 1>> \in Slugs
  BY ConstantsAssumption DEF Slugs

LEMMA PostsInit == Init => PostsInv
  BY DEF Init, PostsInv, TypeOK, SlugsUnique, RequestsOK, WantedExist, Steps

(* PostsInv is inductive: one step per action.                             *)
LEMMA PostsStep == PostsInv /\ [Next]_vars => PostsInv'
<1> SUFFICES ASSUME PostsInv, [Next]_vars PROVE PostsInv'
  OBVIOUS
<1> USE ConstantsAssumption, NoneIsNoSlug
        DEF PostsInv, TypeOK, SlugsUnique, RequestsOK, WantedExist, Steps,
            Goto, Finish, tables, handler, history, Insert, Taken
<1>1. ASSUME NEW r \in Requests, NEW u \in Users, NEW s \in Slugs, CreateExplicit(r, u, s)
      PROVE PostsInv'
  BY <1>1 DEF CreateExplicit
<1>2. ASSUME NEW r \in Requests, NEW u \in Users, NEW s \in Slugs, FindForDelete(r, u, s)
      PROVE PostsInv'
  BY <1>2 DEF FindForDelete, Find, MayDelete
<1>3. ASSUME NEW r \in Requests, NEW u \in Users, NEW b \in Bases, CreateGenerated(r, u, b)
      PROVE PostsInv'
  <2>1. <<b, 1>> \in Slugs
    BY DEF Slugs
  <2> QED  BY <1>3, <2>1 DEF CreateGenerated
<1>4. ASSUME NEW r \in Requests, TryCreate(r) PROVE PostsInv'
  BY <1>4 DEF TryCreate
<1>5. ASSUME NEW r \in Requests, TryNextSlug(r) PROVE PostsInv'
  BY <1>5, SlugParts DEF TryNextSlug, HasNext
<1>6. ASSUME NEW r \in Requests, NEW s \in Slugs,
             NEW step \in {"want", "unwant"}, Find(r, s, None, step)
      PROVE PostsInv'
  BY <1>6 DEF Find
<1>7. ASSUME NEW r \in Requests, DeleteBySlug(r) PROVE PostsInv'
  BY <1>7 DEF DeleteBySlug, Cascade
<1>8. ASSUME NEW r \in Requests, Want(r) PROVE PostsInv'
  BY <1>8 DEF Want
<1>9. ASSUME NEW r \in Requests, Unwant(r) PROVE PostsInv'
  BY <1>9 DEF Unwant
<1>10. ASSUME NEW r \in Requests, Abort(r) PROVE PostsInv'
  BY <1>10 DEF Abort
<1>11. CASE UNCHANGED vars
  BY <1>11 DEF vars
<1> QED
  BY <1>1, <1>2, <1>3, <1>4, <1>5, <1>6, <1>7,
     <1>8, <1>9, <1>10, <1>11 DEF Next

(* The tables keep their shape, and no deleted post comes back.            *)
THEOREM TypeCorrect == Spec => []TypeOK
<1>1. PostsInv => TypeOK
  BY DEF PostsInv
<1> QED
  BY PostsInit, PostsStep, <1>1, PTL DEF Spec

(* No interleaving of Add and Delete leaves a wanted row without its post. *)
THEOREM WantedPostsExist == Spec => []WantedExist
<1>1. PostsInv => WantedExist
  BY DEF PostsInv
<1> QED
  BY PostsInit, PostsStep, <1>1, PTL DEF Spec

(* A delete hits somebody else's post only when a slug was given away.     *)
THEOREM DeleteHitsOwnOrReused == Spec => []StraysOnlyAfterReuse
<1>1. PostsInv => StraysOnlyAfterReuse
  BY DEF PostsInv, TypeOK, SlugsUnique, RequestsOK, StraysOnlyAfterReuse
<1> QED
  BY PostsInit, PostsStep, <1>1, PTL DEF Spec
=============================================================================
