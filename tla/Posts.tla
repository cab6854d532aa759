------------------------------- MODULE Posts -------------------------------
(***************************************************************************)
(* Posts and the wanted list that marks them (internal/post/service.go,    *)
(* store_postgres.go, internal/wanted/service.go, store_postgres.go).      *)
(*                                                                         *)
(* A post is found by its slug and, once found, known by its id.  Delete   *)
(* goes back to the slug; the wanted list stays with the id.  A request r  *)
(* makes one call per action; the transaction that creates a post is one   *)
(* action, as the unique index makes a conflicting insert wait for it.     *)
(* Read-only requests, and the categories and items of a post, which never *)
(* change, are left out.                                                   *)
(***************************************************************************)
EXTENDS Naturals

CONSTANTS Users,
          Ids,              \* identities of posts
          Bases,            \* what titles are slugified to
          MaxSlugAttempts,  \* maxSlugAttempts
          Requests,         \* slots for HTTP requests in progress
          None

ASSUME ConstantsAssumption ==
    /\ None \notin Users \cup Ids
    /\ MaxSlugAttempts \in Nat \ {0}

(* The slug "base", and "base-n" for n > 1: a client may also ask for it.  *)
Slugs == Bases \X (1..MaxSlugAttempts)

ASSUME NoneIsNoSlug == None \notin Slugs

VARIABLES
    (* the tables *)
    posts,    \* ids in the posts table
    author,   \* author[p]
    slug,     \* slug[p]
    wanted,   \* ids in the wanted_posts table
    (* requests in progress *)
    pc,       \* pc[r]: the call r makes next
    who,      \* who[r]: the user r acts for, if it matters
    target,   \* target[r]: the slug r is about
    found,    \* found[r]: the post Get found
    (* history *)
    deleted,  \* ids that were deleted
    strays    \* posts deleted by a request of somebody else

tables == <<posts, author, slug, wanted>>
handler == <<pc, who, target, found>>
history == <<deleted, strays>>
vars == <<posts, author, slug, wanted, pc, who, target, found,
          deleted, strays>>

Steps == {"idle", "create", "delete", "want", "unwant"}

Init ==
    /\ posts = {} /\ wanted = {}
    /\ author = [p \in Ids |-> None]
    /\ slug = [p \in Ids |-> None]
    /\ pc = [r \in Requests |-> "idle"]
    /\ who = [r \in Requests |-> None]
    /\ target = [r \in Requests |-> None]
    /\ found = [r \in Requests |-> None]
    /\ deleted = {} /\ strays = {}

Goto(r, step, u, s, p) ==
    /\ pc' = [pc EXCEPT ![r] = step]
    /\ who' = [who EXCEPT ![r] = u]
    /\ target' = [target EXCEPT ![r] = s]
    /\ found' = [found EXCEPT ![r] = p]

Finish(r) == Goto(r, "idle", None, None, None)

Taken(s) == \E p \in posts : slug[p] = s

-----------------------------------------------------------------------------
(* PostgresStore.Create: one transaction writes the post with its links    *)
(* and items, under a slug nobody has.                                     *)
Insert(u, s) ==
    /\ ~Taken(s)
    /\ \E p \in Ids \ (posts \cup deleted) :
        /\ posts' = posts \cup {p}
        /\ author' = [author EXCEPT ![p] = u]
        /\ slug' = [slug EXCEPT ![p] = s]
    /\ UNCHANGED <<wanted, history>>

(* Service.Create with an explicit slug; a conflict changes nothing.       *)
CreateExplicit(r, u, s) ==
    /\ pc[r] = "idle"
    /\ Insert(u, s)
    /\ UNCHANGED handler

(* Service.Create without one: the category was found, the title gives the *)
(* first slug to try.                                                      *)
CreateGenerated(r, u, b) ==
    /\ pc[r] = "idle"
    /\ Goto(r, "create", u, <<b, 1>>, None)
    /\ UNCHANGED <<tables, history>>

TryCreate(r) ==
    /\ pc[r] = "create"
    /\ Insert(who[r], target[r])
    /\ Finish(r)

(* Whether a suffix follows n, and the seeded fault of one too many.       *)
OneMore(n) == n <= MaxSlugAttempts
HasNext(n) == n < MaxSlugAttempts

(* A conflict moves on to the next suffix, up to MaxSlugAttempts.          *)
TryNextSlug(r) ==
    /\ pc[r] = "create"
    /\ Taken(target[r])
    /\ LET n == target[r][2] IN
        IF HasNext(n)
        THEN Goto(r, "create", who[r], <<target[r][1], n + 1>>, None)
        ELSE Finish(r)
    /\ UNCHANGED <<tables, history>>

-----------------------------------------------------------------------------
(* Service.Get finds a post by its slug, for a caller that goes on.  Its    *)
(* second query, for the items, does not matter to these.                  *)
Find(r, s, u, step) ==
    /\ pc[r] = "idle"
    /\ \E p \in posts : slug[p] = s /\ Goto(r, step, u, s, p)
    /\ UNCHANGED <<tables, history>>

(* Who may delete p, and the seeded fault of letting anybody.              *)
Anybody(u, p) == u \in Users
MayDelete(u, p) == author[p] = u

(* Service.Delete: the author of the post that is found goes on.           *)
FindForDelete(r, u, s) ==
    /\ \A p \in posts : slug[p] = s => MayDelete(u, p)
    /\ Find(r, s, u, "delete")

(* What ON DELETE CASCADE takes along, and the seeded fault of nothing.    *)
NoCascade(gone) == {}
Cascade(gone) == gone

(* PostgresStore.Delete, by slug: whichever post has it by now.            *)
DeleteBySlug(r) ==
    /\ pc[r] = "delete"
    /\ LET gone == {p \in posts : slug[p] = target[r]} IN
        /\ posts' = posts \ gone
        /\ wanted' = wanted \ Cascade(gone)
        /\ deleted' = deleted \cup gone
        /\ strays' = strays \cup {p \in gone : author[p] # who[r]}
    /\ Finish(r)
    /\ UNCHANGED <<author, slug>>

-----------------------------------------------------------------------------
(* wanted.Service.Add: the id that was found is inserted, unless its post  *)
(* is gone (foreign key) or it is there already.                           *)
Want(r) ==
    /\ pc[r] = "want"
    /\ wanted' = wanted \cup ({found[r]} \cap posts)
    /\ Finish(r)
    /\ UNCHANGED <<posts, author, slug, history>>

(* wanted.Service.Delete, by id.                                           *)
Unwant(r) ==
    /\ pc[r] = "unwant"
    /\ wanted' = wanted \ {found[r]}
    /\ Finish(r)
    /\ UNCHANGED <<posts, author, slug, history>>

(* A call fails or the process dies between two calls.                     *)
Abort(r) ==
    /\ pc[r] # "idle"
    /\ Finish(r)
    /\ UNCHANGED <<tables, history>>

Next ==
    \E r \in Requests :
        \/ \E u \in Users, s \in Slugs :
              CreateExplicit(r, u, s) \/ FindForDelete(r, u, s)
        \/ \E u \in Users, b \in Bases : CreateGenerated(r, u, b)
        \/ TryCreate(r) \/ TryNextSlug(r)
        \/ \E s \in Slugs, step \in {"want", "unwant"} :
              Find(r, s, None, step)
        \/ DeleteBySlug(r) \/ Want(r) \/ Unwant(r)
        \/ Abort(r)

Spec == Init /\ [][Next]_vars
-----------------------------------------------------------------------------
(* Types; a deleted post stays deleted.                                    *)
TypeOK ==
    /\ posts \subseteq Ids /\ deleted \subseteq Ids
    /\ posts \cap deleted = {}
    /\ author \in [Ids -> Users \cup {None}]
    /\ slug \in [Ids -> Slugs \cup {None}]
    /\ wanted \subseteq Ids
    /\ pc \in [Requests -> Steps]
    /\ who \in [Requests -> Users \cup {None}]
    /\ target \in [Requests -> Slugs \cup {None}]
    /\ found \in [Requests -> Ids \cup {None}]
    /\ strays \subseteq deleted

(* The wanted list never holds a post that is gone, whichever of Add and   *)
(* Delete comes first (foreign key and cascade).                           *)
WantedExist == wanted \subseteq posts

(* A delete in progress can hit somebody else's post only after the post   *)
(* its author check was made on is gone and its slug was given away.       *)
StraysOnlyAfterReuse ==
    \A r \in Requests : pc[r] = "delete" =>
        \A p \in posts :
            slug[p] = target[r] /\ author[p] # who[r] => found[r] \in deleted

(* The comment on Delete: "Only the author may delete: a missing post is   *)
(* ErrNotFound, another author's post ErrForbidden" (post/service.go).     *)
OnlyAuthorDeletes == strays = {}
=============================================================================
