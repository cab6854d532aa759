----------------------------- MODULE PostStores -----------------------------
(***************************************************************************)
(* The two stores behind the posts service (internal/post: service.go,     *)
(* store_postgres.go, store_memory.go; migrations 00003 to 00006): the     *)
(* Postgres tables and the slices of the memory store, given the same      *)
(* calls.  "It mirrors the Postgres store: same conflicts, same read       *)
(* shapes, same order" (store_memory.go:15).  The slices are sets here:    *)
(* their order is never seen, as lists are sorted by keys that end in the  *)
(* id, and a lookup by slug has one match at most.                         *)
(*                                                                         *)
(* A request makes one store call per action.  Both stores draw the same   *)
(* ids and times, which Go and Postgres draw for themselves.  Names and    *)
(* titles are numbers in their order: the collation of the database is     *)
(* taken to be that of Go strings.                                         *)
(***************************************************************************)
EXTENDS Naturals, Sequences, FiniteSets, SequencesExt, Ordering

CONSTANTS
    CategoryInputs,   \* bound: [slug, name, parent] of CreateCategory
    PostInputs,       \* bound: [slug, title, category, derivative, items]
                      \* of Create
    ItemInputs,       \* bound: [kind, body, url, filename, mime] of an item
    MaxItems,         \* maxItems
    CategoryIds, PostIds,    \* ids of rows, in their order
    Times,            \* times of creation
    StoreRequests     \* slots for requests in progress

ItemFields == {"kind", "body", "url", "filename", "mime"}

ItemTexts == {i[f] : i \in ItemInputs, f \in ItemFields}

(* "" is a slug or a field that was not sent or is blank.                  *)
ASSUME PostStoresAssumption ==
    /\ CategoryIds \subseteq Nat \ {0} /\ PostIds \subseteq Nat
    /\ Times \subseteq Nat
    /\ \A c \in CategoryInputs : c.slug # "" /\ c.name \in Nat
    /\ \A p \in PostInputs : /\ p.slug # "" /\ p.category # ""
                             /\ p.items \in Seq(ItemInputs)
    /\ MaxItems \in Nat \ {0}
    /\ ItemInputs \subseteq [ItemFields -> ItemTexts]

VARIABLES
    catRows,      \* table categories: [id, slug, name, parent]; 0 is NULL
    postRows,     \* table posts: [id, slug, title, created]
    linkRows,     \* table post_categories: <<post, category>>
    itemRows,     \* table post_items: [post, position, item]
    memCats,      \* MemoryStore.categories
    memPosts,     \* MemoryStore.posts
    request,      \* the requests in progress
    outcome       \* what the last write answered: [pg, mem]

storesVars == <<catRows, postRows, linkRows, itemRows, memCats, memPosts,
                request, outcome>>

NoRequest == [op |-> "idle"]
Reading == {"items", "read"}
Ok == [pg |-> "ok", mem |-> "ok"]

CatId(slug) == (CHOOSE c \in catRows : c.slug = slug).id
Slug(i) == IF i = 0 THEN ""
           ELSE (CHOOSE c \in catRows : c.id = i).slug

(* A category as a read returns it.                                        *)
Category(c) == [id |-> c.id, slug |-> c.slug, name |-> c.name,
                parent |-> Slug(c.parent)]

(* FindCategoryBySlug: at most one row, for the slug is unique.            *)
FindCategory(slug) == {Category(c) : c \in {d \in catRows : d.slug = slug}}

-----------------------------------------------------------------------------
(* The reads of the two stores.                                            *)
LexLess(s, t) == \E k \in 1 .. Len(s) :
                     s[k] < t[k] /\ \A j \in 1 .. k - 1 : s[j] = t[j]

(* ORDER BY of ListCategories                                              *)
PgCategoryKey(c) ==
    LET top == IF c.parent = 0 THEN c
               ELSE CHOOSE d \in catRows : d.id = c.parent
    IN  <<top.name, top.id, IF c.parent = 0 THEN 0 ELSE 1, c.name, c.id>>

PgListCategories ==
    LET less(c, d) == LexLess(PgCategoryKey(c), PgCategoryKey(d))
        rows == SortedBy(catRows, less)
    IN  [k \in DOMAIN rows |-> Category(rows[k])]

MemBySlug(slug) == CHOOSE c \in memCats : c.slug = slug

(* The seeded fault: the group of a category is known by its name alone.   *)
MemCategoryLessByName(c, d) ==
    LET name(x) == IF x.parent = "" THEN x.name ELSE MemBySlug(x.parent).name
    IN  \/ name(c) < name(d)
        \/ /\ name(c) = name(d)
           /\ \/ c.parent = "" /\ d.parent # ""
              \/ /\ (c.parent = "") = (d.parent = "")
                 /\ \/ c.name < d.name
                    \/ c.name = d.name /\ c.id < d.id

(* The less function of ListCategories                                     *)
MemCategoryLess(c, d) ==
    LET group(x) == IF x.parent = "" THEN x ELSE MemBySlug(x.parent)
    IN  \/ group(c).name < group(d).name
        \/ /\ group(c).name = group(d).name
           /\ \/ group(c).id < group(d).id
              \/ /\ group(c).id = group(d).id
                 /\ \/ c.parent = "" /\ d.parent # ""
                    \/ /\ (c.parent = "") = (d.parent = "")
                       /\ \/ c.name < d.name
                          \/ c.name = d.name /\ c.id < d.id

MemListCategories == SortedBy(memCats, MemCategoryLess)

(* A post as a read returns it, without its items: its categories come     *)
(* from the join, parents first.  It has one of a level at most, so the    *)
(* name never decides, nor the slug, for which the id stands here.         *)
Linked(p) == {c \in catRows : <<p.id, c.id>> \in linkRows}

PgLinkKey(c) == <<IF c.parent = 0 THEN 0 ELSE 1, c.name, c.id>>

ByLevel(linked) ==
    SortedBy(linked, LAMBDA c, d : LexLess(PgLinkKey(c), PgLinkKey(d)))

Joined(linked) ==
    [k \in DOMAIN ByLevel(linked) |-> Category(ByLevel(linked)[k])]

PgPost(p) == [id |-> p.id, slug |-> p.slug, title |-> p.title,
              created |-> p.created, categories |-> Joined(Linked(p))]

Newest(p, q) == \/ p.created > q.created
                \/ p.created = q.created /\ p.id < q.id

(* List: posts that one linked category, or the parent of one, matches.    *)
(* The inner join drops a post that is linked to none.                     *)
PgMatches(p, category, title) ==
    /\ \E l \in linkRows : l[1] = p.id
    /\ \/ category = ""
       \/ \E c \in Linked(p) : category \in {c.slug, Slug(c.parent)}
    /\ title \in {0, p.title}

PgList(category, title) ==
    LET rows == SortedBy({p \in postRows : PgMatches(p, category, title)},
                         Newest)
    IN  [k \in DOMAIN rows |-> PgPost(rows[k])]

WithoutItems(p) == [id |-> p.id, slug |-> p.slug, title |-> p.title,
                    created |-> p.created, categories |-> p.categories]

(* matchesFilter                                                           *)
Matches(p, category, title) ==
    /\ \/ category = ""
       \/ \E k \in DOMAIN p.categories :
              category \in {p.categories[k].slug, p.categories[k].parent}
    /\ title \in {0, p.title}

MemList(category, title) ==
    LET rows == SortedBy({p \in memPosts : Matches(p, category, title)},
                         Newest)
    IN  [k \in DOMAIN rows |-> WithoutItems(rows[k])]

(* Items as a read returns them, in the order of their positions.          *)
InOrder(rows) ==
    LET ordered == SortedBy(rows, LAMBDA i, j : i.position < j.position)
    IN  [k \in DOMAIN ordered |-> [position |-> ordered[k].position,
                                  item |-> ordered[k].item]]

(* findItems                                                               *)
FindItems(p) == InOrder({i \in itemRows : i.post = p.id})

(* FindBySlug, as it is without interruption.                              *)
PgFind(slug) ==
    {[post |-> PgPost(p), items |-> FindItems(p)]
     : p \in {q \in postRows : q.slug = slug}}

MemFind(slug) ==
    {[post |-> WithoutItems(p), items |-> p.items]
     : p \in {q \in memPosts : q.slug = slug}}

-----------------------------------------------------------------------------
CategoryRequest(op, input) == [op |-> op, input |-> input]

(* CreateCategory.  The first action is FindCategoryBySlug of the parent,  *)
(* if one is named, and what the service makes of it.                      *)
StartCategory(r) ==
    /\ request[r] = NoRequest
    /\ \E c \in CategoryInputs :
        request' = [request EXCEPT ![r] =
            CategoryRequest(IF c.parent = "" THEN "category" ELSE "parent", c)]
    /\ UNCHANGED <<catRows, postRows, linkRows, itemRows, memCats, memPosts,
                   outcome>>

(* The seeded fault: any category that exists can have derivatives.        *)
AnyParent(parents) == parents # {}

(* Unknown, or itself a derivative: the parent is refused.                 *)
ParentAllowed(parents) == \E c \in parents : c.parent = ""

CheckParent(r) ==
    /\ request[r].op = "parent"
    /\ request' = [request EXCEPT ![r] =
           IF ParentAllowed(FindCategory(request[r].input.parent))
           THEN CategoryRequest("category", request[r].input) ELSE NoRequest]
    /\ UNCHANGED <<catRows, postRows, linkRows, itemRows, memCats, memPosts,
                   outcome>>

(* The answer of the Postgres store; "error" is the trigger's exception.   *)
PgCreateCategory(c) ==
    IF c.parent # "" /\ FindCategory(c.parent) = {} THEN "unknown"
    ELSE IF \E d \in FindCategory(c.parent) : d.parent # "" THEN "error"
    ELSE IF FindCategory(c.slug) # {} THEN "conflict"
    ELSE "ok"

MemCreateCategory(c) ==
    LET slugs == {d.slug : d \in memCats}
    IN  IF c.slug \in slugs THEN "conflict"
        ELSE IF c.parent # "" /\ c.parent \notin slugs THEN "unknown"
        ELSE "ok"

InsertCategory(r) ==
    /\ request[r].op = "category"
    /\ \E i \in CategoryIds \ {c.id : c \in catRows} :
        LET c == request[r].input
            answer == [pg |-> PgCreateCategory(c),
                       mem |-> MemCreateCategory(c)]
            parent == IF c.parent = "" THEN 0 ELSE CatId(c.parent)
        IN  /\ outcome' = answer
            /\ IF answer.pg = "ok"
               THEN catRows' = catRows \cup
                        {[id |-> i, slug |-> c.slug, name |-> c.name,
                          parent |-> parent]}
               ELSE UNCHANGED catRows
            /\ IF answer.mem = "ok"
               THEN memCats' = memCats \cup
                        {[id |-> i, slug |-> c.slug, name |-> c.name,
                          parent |-> c.parent]}
               ELSE UNCHANGED memCats
    /\ request' = [request EXCEPT ![r] = NoRequest]
    /\ UNCHANGED <<postRows, linkRows, itemRows, memPosts>>

-----------------------------------------------------------------------------
(* normalizeItem: which inputs it lets through, and the item it stores.  A *)
(* field is absent, "" or a text.                                          *)
Filled(field) == field \notin {"absent", ""}

Refuses(i, fields) == \A f \in fields : i[f] = "absent"

ItemAllowed(i) ==
    \/ /\ i.kind \in {"markdown", "text"} /\ Filled(i.body)
       /\ Refuses(i, {"url", "filename", "mime"})
    \/ /\ i.kind = "link" /\ Filled(i.url)
       /\ Refuses(i, {"body", "filename", "mime"})
    \/ /\ i.kind = "file" /\ Filled(i.body) /\ Filled(i.filename)
       /\ i.url = "absent"

NormalizeItem(i) ==
    IF i.kind = "file" /\ ~Filled(i.mime)
    THEN [i EXCEPT !.mime = "default"] ELSE i

(* normalizeItems: positions are those of the request, from zero.          *)
ItemsAllowed(raw) ==
    /\ Len(raw) \in 1 .. MaxItems
    /\ \A k \in DOMAIN raw : ItemAllowed(raw[k])

NormalizeItems(raw) ==
    [k \in DOMAIN raw |-> [position |-> k - 1, item |-> NormalizeItem(raw[k])]]

(* CONSTRAINT post_items_kind_payload                                      *)
KindPayload(i) ==
    LET set == {f \in {"body", "url", "filename", "mime"} : i[f] # "absent"}
    IN  \/ i.kind = "link" /\ set = {"url"}
        \/ i.kind \in {"markdown", "text"} /\ set = {"body"}
        \/ i.kind = "file" /\ {"body", "filename"} \subseteq set
             /\ "url" \notin set

PostRequest(op, input, items, linked) ==
    [op |-> op, input |-> input, items |-> items, linked |-> linked]

(* Create, of an input that is valid: any other is refused without a call  *)
(* that changes anything.  Its category is looked up first.                *)
StartPost(r) ==
    /\ request[r] = NoRequest
    /\ \E p \in PostInputs :
        /\ ItemsAllowed(p.items)
        /\ request' = [request EXCEPT ![r] =
               PostRequest("choice", p, NormalizeItems(p.items), <<>>)]
    /\ UNCHANGED <<catRows, postRows, linkRows, itemRows, memCats, memPosts,
                   outcome>>

(* resolveCategoryChoice up to its second lookup.                          *)
ChooseCategory(r) ==
    /\ request[r].op = "choice"
    /\ LET p == request[r].input
           items == request[r].items
           found == FindCategory(p.category)
           parent == (CHOOSE c \in found : TRUE).parent
       IN  request' = [request EXCEPT ![r] =
               IF found = {} THEN NoRequest
               ELSE IF parent # ""
               THEN IF p.derivative \in {"", p.category}
                    THEN PostRequest("create", p, items,
                                     <<parent, p.category>>)
                    ELSE NoRequest
               ELSE IF p.derivative = ""
               THEN PostRequest("create", p, items, <<p.category>>)
               ELSE PostRequest("derivative", p, items, <<>>)]
    /\ UNCHANGED <<catRows, postRows, linkRows, itemRows, memCats, memPosts,
                   outcome>>

(* Its second lookup: the derivative has to be a child of the category.    *)
ChooseDerivative(r) ==
    /\ request[r].op = "derivative"
    /\ LET p == request[r].input
       IN  request' = [request EXCEPT ![r] =
               IF \E c \in FindCategory(p.derivative) : c.parent = p.category
               THEN PostRequest("create", p, request[r].items,
                                <<p.category, p.derivative>>)
               ELSE NoRequest]
    /\ UNCHANGED <<catRows, postRows, linkRows, itemRows, memCats, memPosts,
                   outcome>>

(* The answers of Create; "error" is a constraint of post_items: UNIQUE    *)
(* (post_id, position), or the CHECK.                                      *)
PgCreatePost(slug, linked, items) ==
    IF \E p \in postRows : p.slug = slug THEN "conflict"
    ELSE IF Cardinality({c \in catRows : c.slug \in ToSet(linked)})
              # Len(linked) THEN "unknown"
    ELSE IF \/ \E j, k \in DOMAIN items :
                  j # k /\ items[j].position = items[k].position
            \/ \E k \in DOMAIN items : ~KindPayload(items[k].item)
         THEN "error"
    ELSE "ok"

MemCreatePost(slug, linked) ==
    IF \E p \in memPosts : p.slug = slug THEN "conflict"
    ELSE IF \E k \in DOMAIN linked :
                \A c \in memCats : c.slug # linked[k] THEN "unknown"
    ELSE "ok"

(* categoriesBySlug: copies of the categories, in the order of the join.   *)
MemLinkLess(c, d) ==
    \/ c.parent = "" /\ d.parent # ""
    \/ /\ (c.parent = "") = (d.parent = "")
       /\ c.name < d.name \/ (c.name = d.name /\ c.id < d.id)

MemCategories(linked) ==
    SortedBy({c \in memCats : c.slug \in ToSet(linked)}, MemLinkLess)

(* An id is never drawn twice: not one that a read in progress holds.      *)
FreshPostIds ==
    PostIds \ ({p.id : p \in postRows} \cup
               {request[r].post.id : r \in {s \in StoreRequests :
                                            request[s].op \in Reading}})

InsertPost(r) ==
    /\ request[r].op = "create"
    /\ \E i \in FreshPostIds, t \in Times :
        LET q == request[r]
            p == [id |-> i, slug |-> q.input.slug, title |-> q.input.title,
                  created |-> t]
            answer == [pg |-> PgCreatePost(p.slug, q.linked, q.items),
                       mem |-> MemCreatePost(p.slug, q.linked)]
        IN  /\ outcome' = answer
            /\ IF answer.pg = "ok"
               THEN /\ postRows' = postRows \cup {p}
                    /\ linkRows' = linkRows \cup
                           {<<i, CatId(s)>> : s \in ToSet(q.linked)}
                    /\ itemRows' = itemRows \cup
                           {[post |-> i, position |-> q.items[k].position,
                             item |-> q.items[k].item]
                            : k \in DOMAIN q.items}
               ELSE UNCHANGED <<postRows, linkRows, itemRows>>
            /\ IF answer.mem = "ok"
               THEN memPosts' = memPosts \cup
                        {[id |-> i, slug |-> p.slug, title |-> p.title,
                          created |-> t, items |-> q.items,
                          categories |-> MemCategories(q.linked)]}
               ELSE UNCHANGED memPosts
    /\ request' = [request EXCEPT ![r] = NoRequest]
    /\ UNCHANGED <<catRows, memCats>>

(* Delete, by an author who found the post; the cascade takes its links    *)
(* and items.                                                              *)
DeletePost(slug) ==
    /\ LET gone == {p.id : p \in {q \in postRows : q.slug = slug}}
           held == {p \in memPosts : p.slug = slug}
       IN  /\ outcome' = [pg |-> IF gone = {} THEN "notfound" ELSE "ok",
                          mem |-> IF held = {} THEN "notfound" ELSE "ok"]
           /\ postRows' = {p \in postRows : p.id \notin gone}
           /\ linkRows' = {l \in linkRows : l[1] \notin gone}
           /\ itemRows' = {i \in itemRows : i.post \notin gone}
    /\ memPosts' = {p \in memPosts : p.slug # slug}
    /\ UNCHANGED <<catRows, memCats, request>>

-----------------------------------------------------------------------------
(* Get on Postgres: findBySlug reads the post, then its items, outside a   *)
(* transaction.  "sent" is history: the items the post was created with,   *)
(* which the memory store holds as it was given them.                      *)
SentItems(p) == (CHOOSE m \in memPosts : m.id = p.id).items

StartGet(r) ==
    /\ request[r] = NoRequest
    /\ \E p \in postRows :
        request' = [request EXCEPT ![r] =
            [op |-> "items", post |-> PgPost(p), sent |-> SentItems(p)]]
    /\ UNCHANGED <<catRows, postRows, linkRows, itemRows, memCats, memPosts,
                   outcome>>

(* The seeded fault: one query per item.                                   *)
GetItemByItem(r) ==
    /\ request[r].op = "items"
    /\ LET q == request[r]
           had == IF "items" \in DOMAIN q THEN q.items ELSE <<>>
           found == FindItems(q.post)
           more == Len(had) < Len(found)
       IN  request' = [request EXCEPT ![r] =
               [op |-> IF more THEN "items" ELSE "read", post |-> q.post,
                sent |-> q.sent,
                items |-> IF more THEN Append(had, found[Len(had) + 1])
                          ELSE had]]
    /\ UNCHANGED <<catRows, postRows, linkRows, itemRows, memCats, memPosts,
                   outcome>>

GetItems(r) ==
    /\ request[r].op = "items"
    /\ request' = [request EXCEPT ![r] =
           [op |-> "read", post |-> request[r].post, sent |-> request[r].sent,
            items |-> FindItems(request[r].post)]]
    /\ UNCHANGED <<catRows, postRows, linkRows, itemRows, memCats, memPosts,
                   outcome>>

EndGet(r) ==
    /\ request[r].op = "read"
    /\ request' = [request EXCEPT ![r] = NoRequest]
    /\ UNCHANGED <<catRows, postRows, linkRows, itemRows, memCats, memPosts,
                   outcome>>

StoresInit ==
    /\ catRows = {} /\ postRows = {} /\ linkRows = {} /\ itemRows = {}
    /\ memCats = {} /\ memPosts = {}
    /\ request = [r \in StoreRequests |-> NoRequest]
    /\ outcome = Ok

StoresNext ==
    \/ \E r \in StoreRequests :
        \/ StartCategory(r) \/ CheckParent(r) \/ InsertCategory(r)
        \/ StartPost(r) \/ ChooseCategory(r) \/ ChooseDerivative(r)
        \/ InsertPost(r)
        \/ StartGet(r) \/ GetItems(r) \/ EndGet(r)
    \/ \E p \in PostInputs : DeletePost(p.slug)

StoresSpec == StoresInit /\ [][StoresNext]_storesVars

-----------------------------------------------------------------------------
CategorySlugs == {c.slug : c \in CategoryInputs}
Titles == {p.title : p \in PostInputs}

(* "It mirrors the Postgres store: same conflicts, same read shapes, same  *)
(* order" (store_memory.go:15): whatever was written, every list, every    *)
(* filter and every lookup answers the same from either store, and every   *)
(* write was answered the same.                                            *)
SameAnswers ==
    /\ outcome.pg = outcome.mem
    /\ PgListCategories = MemListCategories
    /\ \A c \in CategorySlugs \cup {""}, t \in Titles \cup {0} :
           PgList(c, t) = MemList(c, t)
    /\ \A p \in PostInputs : PgFind(p.slug) = MemFind(p.slug)

(* What Get answers is the post with all the items its author sent, in     *)
(* their order, or, if it was deleted after the first query, without any:  *)
(* never a part of them, nor those of another post that took its slug      *)
(* (findBySlug, store_postgres.go:320).                                    *)
ReadsAreWholeOrDeleted ==
    \A r \in StoreRequests :
        request[r].op = "read" =>
            \/ request[r].items = request[r].sent
            \/ /\ request[r].items = <<>>
               /\ \A p \in postRows : p.id # request[r].post.id

(* "the tree never grows past two levels" in either store, and a post is   *)
(* linked to a top-level category and at most one derivative, which is its *)
(* own: no join drops it (CreateCategory, service.go:70;                   *)
(* resolveCategoryChoice, service.go:197; scanPosts).                      *)
CategoriesTwoDeep ==
    /\ \A c \in memCats :
           c.parent # "" => MemBySlug(c.parent).parent = ""
    /\ \A c, d \in catRows : c.parent = d.id => d.parent = 0
    /\ \A p \in postRows :
           LET linked == PgPost(p).categories
           IN  /\ Len(linked) \in {1, 2} /\ linked[1].parent = ""
               /\ Len(linked) = 2 => linked[2].parent = linked[1].slug
=============================================================================
