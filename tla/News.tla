-------------------------------- MODULE News --------------------------------
(***************************************************************************)
(* The news list (internal/news: service.go, scheduler.go, parser.go,      *)
(* store_postgres.go, store_memory.go): the scheduler reads the cards of   *)
(* the blog's listing page and upserts them one by one into a table that   *)
(* survives restarts.  Every call that can fail on its own is an action.   *)
(*                                                                         *)
(* A card is what parseArticle sees of it: the url it links to, if usable, *)
(* whether its title names the digest, and a body that stands for title,   *)
(* summary and date.                                                       *)
(***************************************************************************)
EXTENDS Naturals, Sequences, FiniteSets, SequencesExt

CONSTANTS
    Pages,             \* Pages[v]: the cards of version v of the page; their
                       \* number bounds the edits of the blog
    NoUrl,             \* the url of a card that misses a field or has a bad one
    NoBody,
    MaxNewsFaults,     \* bound: calls that fail
    MaxNewsRestarts    \* bound: restarts of the process

Cards == UNION {ToSet(Pages[v]) : v \in DOMAIN Pages}
Urls == {c.url : c \in Cards} \ {NoUrl}
Bodies == {c.body : c \in Cards}

ASSUME NewsAssumption ==
    /\ Pages \in Seq(Seq(Cards)) /\ Pages # <<>>
    /\ NoBody \notin Bodies
    /\ MaxNewsFaults \in Nat /\ MaxNewsRestarts \in Nat

VARIABLES
    page,          \* the version of the listing page
    newsPc,        \* what the scheduler does next
    fetched,       \* the version of the page this sync has read
    entries,       \* the cards of it that are still to upsert
    news,          \* the news table: the body stored under every url
    touched,       \* how often updated_at was set after the insert
    newsFaults, newsRestarts

newsVars == <<page, newsPc, fetched, entries, news, touched, newsFaults,
              newsRestarts>>

(* parseListing: the places on the page of the usable cards that name the  *)
(* digest.                                                                 *)
Entries(v) == {k \in DOMAIN Pages[v] : /\ Pages[v][k].url # NoUrl
                                       /\ Pages[v][k].digest}

(* fetchListing.  A page without any article is an error.                  *)
FetchListing ==
    /\ newsPc = "fetch"
    /\ IF Pages[page] = <<>> THEN newsPc' = "wait" /\ UNCHANGED entries
       ELSE newsPc' = "upsert" /\ entries' = Entries(page)
    /\ fetched' = page
    /\ UNCHANGED <<page, news, touched, newsFaults, newsRestarts>>

(* The seeded fault: the update is made whether or not a field changed.    *)
StoreAlways(c) ==
    /\ news' = [news EXCEPT ![c.url] = c.body]
    /\ touched' = IF news[c.url] = NoBody THEN touched
                  ELSE [touched EXCEPT ![c.url] = @ + 1]

(* The seeded fault: a url that is known is left as it is.                 *)
StoreNewOnly(c) ==
    /\ news' = IF news[c.url] = NoBody
               THEN [news EXCEPT ![c.url] = c.body] ELSE news
    /\ UNCHANGED touched

(* The statement of Upsert: a new url is inserted, a known one updated if  *)
(* its body differs.                                                       *)
StoreEntry(c) ==
    IF news[c.url] = c.body THEN UNCHANGED <<news, touched>>
    ELSE /\ news' = [news EXCEPT ![c.url] = c.body]
         /\ touched' = IF news[c.url] = NoBody THEN touched
                       ELSE [touched EXCEPT ![c.url] = @ + 1]

(* The next entry, from the top of the page down.                          *)
Upsert ==
    /\ newsPc = "upsert"
    /\ \E k \in entries :
        /\ \A j \in entries : k <= j
        /\ StoreEntry(Pages[fetched][k])
        /\ entries' = entries \ {k}
    /\ UNCHANGED <<page, newsPc, fetched, newsFaults, newsRestarts>>

(* The seeded fault: the sync removes what the page no longer carries.     *)
NewsSyncPrunes ==
    /\ newsPc = "upsert" /\ entries = {}
    /\ newsPc' = "wait"
    /\ news' = [u \in Urls |->
                   IF \E k \in Entries(fetched) : Pages[fetched][k].url = u
                   THEN news[u] ELSE NoBody]
    /\ UNCHANGED <<page, fetched, entries, touched, newsFaults, newsRestarts>>

NewsSyncDone ==
    /\ newsPc = "upsert" /\ entries = {}
    /\ newsPc' = "wait"
    /\ UNCHANGED <<page, fetched, entries, news, touched, newsFaults,
                   newsRestarts>>

(* A fetch or an upsert fails: the sync stops, what it stored stays.       *)
NewsFault ==
    /\ newsPc = "fetch" \/ (newsPc = "upsert" /\ entries # {})
    /\ newsFaults < MaxNewsFaults
    /\ newsFaults' = newsFaults + 1
    /\ newsPc' = "wait" /\ entries' = {}
    /\ UNCHANGED <<page, fetched, news, touched, newsRestarts>>

NewsMidnight ==
    /\ newsPc = "wait"
    /\ newsPc' = "fetch"
    /\ UNCHANGED <<page, fetched, entries, news, touched, newsFaults,
                   newsRestarts>>

NewsScheduler == FetchListing \/ Upsert \/ NewsSyncDone \/ NewsFault
                   \/ NewsMidnight

EditPage ==
    /\ page < Len(Pages)
    /\ page' = page + 1
    /\ UNCHANGED <<newsPc, fetched, entries, news, touched, newsFaults,
                   newsRestarts>>

(* The process ends between two calls and starts again; the table stays.   *)
RestartNews ==
    /\ newsRestarts < MaxNewsRestarts
    /\ newsRestarts' = newsRestarts + 1
    /\ newsPc' = "fetch" /\ entries' = {}
    /\ UNCHANGED <<page, fetched, news, touched, newsFaults>>

NewsInit ==
    /\ page = 1 /\ newsPc = "fetch" /\ fetched = 1 /\ entries = {}
    /\ news = [u \in Urls |-> NoBody]
    /\ touched = [u \in Urls |-> 0]
    /\ newsFaults = 0 /\ newsRestarts = 0

NewsNext == NewsScheduler \/ EditPage \/ RestartNews

(* As in DailyTerms: only the scheduler's goroutine must go on.            *)
NewsSpec == NewsInit /\ [][NewsNext]_newsVars /\ WF_newsVars(NewsScheduler)

-----------------------------------------------------------------------------
(* The shape of the variables (types Entry and UpsertInput, news.go).      *)
NewsTypeOK ==
    /\ page \in DOMAIN Pages /\ fetched \in DOMAIN Pages
    /\ newsPc \in {"fetch", "upsert", "wait"}
    /\ entries \subseteq Entries(fetched)
    /\ news \in [Urls -> Bodies \cup {NoBody}]
    /\ touched \in [Urls -> Nat]
    /\ newsFaults \in 0 .. MaxNewsFaults
    /\ newsRestarts \in 0 .. MaxNewsRestarts

(* What page version v says of url u, by the last of its cards that are    *)
(* about it: NoBody when nothing.                                          *)
Says(v, u) ==
    LET cards == {k \in Entries(v) : Pages[v][k].url = u}
    IN  IF cards = {} THEN NoBody
        ELSE Pages[v][CHOOSE k \in cards : \A j \in cards : j <= k].body

(* No page has two cards of one url that differ.                           *)
PagesAgree ==
    \A v \in DOMAIN Pages : \A j, k \in Entries(v) :
        Pages[v][j].url = Pages[v][k].url
            => Pages[v][j].body = Pages[v][k].body

(* The versions up to v that say something else of url u than the one      *)
(* before them.                                                            *)
Changes(u, v) == {w \in 2 .. v : Says(w, u) # Says(w - 1, u)}

(* "updated_at keeps meaning last time the source changed": where no page  *)
(* contradicts itself, it moves at most once for every change of the card, *)
(* however many syncs repeat, stop half way or start again (Upsert,        *)
(* store_postgres.go:26).                                                  *)
UpdatedOnlyByTheSource ==
    PagesAgree =>
        \A u \in Urls : touched[u] <= Cardinality(Changes(u, page))

(* "the next sync heals it": once the blog rests with articles on its page *)
(* every entry of the page is stored as the page has it, for good, and an  *)
(* entry the page no longer carries stays (Sync, service.go:88).           *)
NewsFollow ==
    <>[](Pages[page] # <<>>) =>
        <>[](\A u \in Urls : Says(page, u) \in {NoBody, news[u]})

(* The list holds nothing but what some version of the page said of the    *)
(* entry, and no entry is ever lost again, whatever fails (Sync,           *)
(* service.go:88).                                                         *)
NewsOnlyGrows ==
    [][\A u \in Urls :
          /\ news[u] # NoBody => news'[u] # NoBody
          /\ news'[u] # news[u] =>
                \E v \in 1 .. page : \E k \in Entries(v) :
                    Pages[v][k].url = u /\ Pages[v][k].body = news'[u]]_news
=============================================================================
