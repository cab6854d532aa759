---------------------------- MODULE OutboundProofs ----------------------------
(***************************************************************************)
(* What the process does towards other servers, for any files, pages,      *)
(* rows, mails, failures and restarts: the journal and the catalog         *)
(* implement Mirror and their listings agree with what was read, the news  *)
(* list only grows, and the result of Send is true.                        *)
(***************************************************************************)
EXTENDS DailyTerms, Tools, News, Mailer, OrderingProofs, TLAPS

(* The mailer: what the result of Send says.                               *)

MailTypeOK ==
    /\ mail \in Mails
    /\ stage \in Stages \cup Results \cup {"idle"}
    /\ wire \in {"none", "open", "command", "yes", "no", "broken"}
    /\ late \in BOOLEAN /\ told \in BOOLEAN
    /\ status \in [Mails -> {"none", "whole", "taken", "refused"}]

(* What an answer on the wire, or an answer that was read, says of the     *)
(* mail.  The answer to the final dot is read at stage "body", and a yes   *)
(* leads to "quit", from where no step reports a failure.                  *)
AnswersTrue ==
    /\ stage = "body" /\ wire = "yes" => status[mail] = "taken"
    /\ stage = "body" /\ wire = "no" => status[mail] = "refused"
    /\ stage = "quit" => status[mail] = "taken"
    /\ stage \in Stages \ {"quit"} => ~told
    /\ stage = "failed" /\ told => status[mail] = "refused"

MailInv == MailTypeOK /\ AnswersTrue /\ SuccessMeansAccepted

-----------------------------------------------------------------------------
LEMMA MailInitInv == MailInit => MailInv
<1> SUFFICES ASSUME MailInit PROVE MailInv
  OBVIOUS
<1>1. mail \in Mails
  BY MailsAssumption DEF MailInit
<1> QED
  BY <1>1 DEF MailInit, MailInv, MailTypeOK, AnswersTrue,
              SuccessMeansAccepted, Stages, Results

(* MailInv is inductive: one step per action.                              *)
LEMMA MailStepInv == MailInv /\ [MailNext]_mailVars => MailInv'
<1> SUFFICES ASSUME MailInv, [MailNext]_mailVars PROVE MailInv'
  OBVIOUS
<1> USE DEF MailInv, MailTypeOK, AnswersTrue, SuccessMeansAccepted, Stages,
            Results, InSession, Return
<1>1. ASSUME NEW m \in Mails, Send(m) PROVE MailInv'
  BY <1>1 DEF Send
<1>2. CASE Command
  BY <1>2 DEF Command
<1>3. CASE Answer
  <2>1. CASE wire = "yes" /\ stage # "quit"
    BY <1>3, <2>1 DEF Answer, After
  <2>2. CASE wire = "no" \/ stage = "quit"
    BY <1>3, <2>2 DEF Answer
  <2> QED  BY <1>3, <2>1, <2>2 DEF Answer
<1>4. CASE IOError
  BY <1>4 DEF IOError
<1>5. CASE Deadline
  BY <1>5 DEF Deadline
<1>6. CASE Done
  BY <1>6 DEF Done
<1>7. CASE ServerAnswers
  BY <1>7 DEF ServerAnswers
<1>8. ASSUME NEW m \in Mails, ServerDecides(m) PROVE MailInv'
  <2>1. CASE m = mail
    BY <1>8, <2>1 DEF ServerDecides
  <2>2. CASE m # mail
    <3>1. status'[mail] = status[mail]
      BY <1>8, <2>2 DEF ServerDecides
    <3>2. UNCHANGED <<wire, stage, mail, told, late>>
      BY <1>8, <2>2 DEF ServerDecides
    <3>3. status' \in [Mails -> {"none", "whole", "taken", "refused"}]
      BY <1>8 DEF ServerDecides
    <3> QED  BY <3>1, <3>2, <3>3
  <2> QED  BY <2>1, <2>2
<1>9. CASE Break
  BY <1>9 DEF Break
<1>10. CASE UNCHANGED mailVars
  BY <1>10 DEF mailVars
<1> QED
  BY <1>1, <1>2, <1>3, <1>4, <1>5, <1>6, <1>7, <1>8, <1>9, <1>10
     DEF MailNext, MailClient

(* A send that succeeds was taken by the server, one that fails after the  *)
(* server's answer was read was not, and no connection is left behind      *)
(* (Send, smtp.go:110).                                                    *)
THEOREM ResultIsTrue == MailSpec => []SuccessMeansAccepted
<1>1. MailInv => SuccessMeansAccepted
  BY DEF MailInv
<1> QED
  BY <1>1, MailInitInv, MailStepInv, PTL DEF MailSpec

-----------------------------------------------------------------------------
(* The news list.                                                          *)

(* A sync works on a page the blog has had, and leaves nothing behind.     *)
NewsInv ==
    /\ NewsTypeOK
    /\ fetched <= page
    /\ newsPc # "upsert" => entries = {}

-----------------------------------------------------------------------------
(* A usable entry has a url of the table and a body.                       *)
LEMMA EntryIsACard ==
    ASSUME NEW v \in DOMAIN Pages, NEW k \in Entries(v)
    PROVE  /\ Pages[v][k].url \in Urls
           /\ Pages[v][k].body \in Bodies
           /\ Pages[v][k].body # NoBody
<1>1. Pages[v][k] \in Cards
  BY DEF Cards, ToSet, Entries
<1>2. Pages[v][k].url # NoUrl
  BY DEF Entries
<1> QED
  BY <1>1, <1>2, NewsAssumption DEF Urls, Bodies

(* What Upsert does to the table: at most one entry takes the body a card  *)
(* of the fetched page has for it.                                         *)
LEMMA UpsertStoresACard ==
    ASSUME NewsInv, Upsert
    PROVE  \E k \in Entries(fetched) :
               LET c == Pages[fetched][k]
               IN  /\ \/ news' = news
                      \/ news' = [news EXCEPT ![c.url] = c.body]
                   /\ touched' \in [Urls -> Nat]
                   /\ entries' = entries \ {k}
<1>1. PICK k \in entries : /\ StoreEntry(Pages[fetched][k])
                           /\ entries' = entries \ {k}
  BY DEF Upsert
<1>2. k \in Entries(fetched)
  BY DEF NewsInv, NewsTypeOK
<1>3. touched' \in [Urls -> Nat]
  BY <1>1, <1>2, EntryIsACard DEF StoreEntry, NewsInv, NewsTypeOK
<1> QED
  BY <1>1, <1>2, <1>3 DEF StoreEntry

-----------------------------------------------------------------------------
LEMMA NewsInitInv == NewsInit => NewsInv
  BY NewsAssumption DEF NewsInit, NewsInv, NewsTypeOK

(* NewsInv is inductive: one step per action.                              *)
LEMMA NewsStepInv == NewsInv /\ [NewsNext]_newsVars => NewsInv'
<1> SUFFICES ASSUME NewsInv, [NewsNext]_newsVars PROVE NewsInv'
  OBVIOUS
<1> USE NewsAssumption DEF NewsInv, NewsTypeOK
<1>1. CASE FetchListing
  BY <1>1 DEF FetchListing, Entries
<1>2. CASE Upsert
  <2>1. /\ entries' \subseteq Entries(fetched)
        /\ touched' \in [Urls -> Nat]
    BY <1>2, UpsertStoresACard
  <2>2. news' \in [Urls -> Bodies \cup {NoBody}]
    BY <1>2, UpsertStoresACard, EntryIsACard
  <2> QED  BY <1>2, <2>1, <2>2 DEF Upsert, Entries
<1>3. CASE NewsSyncDone
  BY <1>3 DEF NewsSyncDone
<1>4. CASE NewsFault
  BY <1>4 DEF NewsFault
<1>5. CASE NewsMidnight
  BY <1>5 DEF NewsMidnight
<1>6. CASE EditPage
  BY <1>6 DEF EditPage, Entries
<1>7. CASE RestartNews
  BY <1>7 DEF RestartNews
<1>8. CASE UNCHANGED newsVars
  BY <1>8 DEF newsVars, Entries
<1> QED
  BY <1>1, <1>2, <1>3, <1>4, <1>5, <1>6, <1>7, <1>8
     DEF NewsNext, NewsScheduler

LEMMA NewsInvariant == NewsSpec => []NewsInv
  BY NewsInitInv, NewsStepInv, PTL DEF NewsSpec

(* The types of the news list's variables.                                 *)
THEOREM NewsTypes == NewsSpec => []NewsTypeOK
  BY NewsInvariant, PTL DEF NewsInv

-----------------------------------------------------------------------------
(* What NewsOnlyGrows says of a step.                                      *)
Grows ==
    \A u \in Urls :
        /\ news[u] # NoBody => news'[u] # NoBody
        /\ news'[u] # news[u] =>
              \E v \in 1 .. page : \E k \in Entries(v) :
                  Pages[v][k].url = u /\ Pages[v][k].body = news'[u]

LEMMA NewsStepGrows == NewsInv /\ [NewsNext]_newsVars => [Grows]_news
<1> SUFFICES ASSUME NewsInv, [NewsNext]_newsVars, news' # news PROVE Grows
  OBVIOUS
<1>1. Upsert
  BY DEF NewsNext, NewsScheduler, FetchListing, NewsSyncDone, NewsFault,
         NewsMidnight, EditPage, RestartNews, newsVars
<1>2. PICK k \in Entries(fetched) :
          news' = [news EXCEPT ![Pages[fetched][k].url] =
                       Pages[fetched][k].body]
  BY <1>1, UpsertStoresACard
<1>3. /\ Pages[fetched][k].url \in Urls
      /\ Pages[fetched][k].body # NoBody
  BY EntryIsACard DEF NewsInv, NewsTypeOK
<1>4. fetched \in 1 .. page
  BY NewsAssumption DEF NewsInv, NewsTypeOK
<1> QED
  BY <1>2, <1>3, <1>4 DEF Grows, NewsInv, NewsTypeOK

(* No failure, restart or edit of the blog loses an entry again, and what  *)
(* the table holds of it some version of the page said (Sync,              *)
(* service.go:88).                                                         *)
THEOREM ListOnlyGrows == NewsSpec => NewsOnlyGrows
  BY NewsInvariant, NewsStepGrows, PTL DEF NewsSpec, NewsOnlyGrows, Grows

-----------------------------------------------------------------------------
(* Every stored body is what some version w, fetched at the latest now,    *)
(* said of its entry, and updated_at has moved at most once for every      *)
(* change of the source up to w.                                           *)
SaidBy(u, w) ==
    /\ w \in 1 .. fetched
    /\ Says(w, u) = news[u]
    /\ touched[u] <= Cardinality(Changes(u, w))

SourceInv ==
    \A u \in Urls : IF news[u] = NoBody THEN touched[u] = 0
                    ELSE \E w \in 1 .. fetched : SaidBy(u, w)

LEMMA ChangesFinite ==
    ASSUME NEW u, NEW v \in Nat
    PROVE  IsFiniteSet(Changes(u, v)) /\ Cardinality(Changes(u, v)) \in Nat
<1>1. IsFiniteSet(2 .. v)
  BY FS_Interval
<1>2. Changes(u, v) \in SUBSET (2 .. v)
  BY DEF Changes
<1> QED
  BY <1>1, <1>2, FS_Subset, FS_CardinalityType

LEMMA ChangesGrow ==
    ASSUME NEW u, NEW w \in Nat, NEW v \in Nat, w <= v
    PROVE  Cardinality(Changes(u, w)) <= Cardinality(Changes(u, v))
<1>1. Changes(u, w) \in SUBSET Changes(u, v)
  BY DEF Changes
<1> QED
  BY <1>1, ChangesFinite, FS_Subset

(* Between two versions that say different things the source has changed:  *)
(* at the first that says something else than version w.                   *)
LEMMA ChangeBetween ==
    ASSUME NEW u, NEW w \in Nat \ {0}, NEW v \in Nat, w < v,
           Says(w, u) # Says(v, u)
    PROVE  Cardinality(Changes(u, w)) + 1 <= Cardinality(Changes(u, v))
<1> DEFINE Other == {x \in w .. v : Says(x, u) # Says(w, u)}
<1>1. PICK x \in Other : \A y \in Other : x <= y
  <2>1. Other \subseteq Nat /\ v \in Other
    OBVIOUS
  <2> QED
    BY <2>1, LeastMember
<1>2. x \in w + 1 .. v /\ x - 1 \in w .. v /\ x - 1 \notin Other
  BY <1>1
<1>3. Says(x, u) # Says(x - 1, u)
  BY <1>1, <1>2
<1>4. /\ x \in Changes(u, v) /\ x \notin Changes(u, w)
      /\ Changes(u, w) \subseteq Changes(u, v)
  BY <1>2, <1>3 DEF Changes
<1>5. Changes(u, w) \cup {x} \in SUBSET Changes(u, v)
  BY <1>4
<1>6. Cardinality(Changes(u, w) \cup {x}) = Cardinality(Changes(u, w)) + 1
  BY <1>4, ChangesFinite, FS_AddElement
<1> QED
  BY <1>5, <1>6, ChangesFinite, FS_Subset

(* A page that does not contradict itself says of a url what any of its    *)
(* usable cards about it says.                                             *)
LEMMA EntrySays ==
    ASSUME PagesAgree, NEW v \in DOMAIN Pages, NEW k \in Entries(v)
    PROVE  Says(v, Pages[v][k].url) = Pages[v][k].body
<1> DEFINE u == Pages[v][k].url
           cards == {j \in Entries(v) : Pages[v][j].url = u}
           last == CHOOSE j \in cards : \A i \in cards : i <= j
<1>1. cards \subseteq Nat /\ k \in cards
  BY NewsAssumption DEF Entries
<1>2. Len(Pages[v]) \in Nat /\ \A j \in cards : j <= Len(Pages[v])
  BY NewsAssumption DEF Entries
<1> HIDE DEF cards
<1>3. \E j \in cards : \A i \in cards : i <= j
  BY <1>1, <1>2, GreatestMember
<1>4. last \in cards
  BY <1>3
<1>5. Says(v, u) = Pages[v][last].body
  BY <1>1 DEF Says, cards
<1> QED
  BY <1>1, <1>4, <1>5 DEF PagesAgree, cards

LEMMA SourceInit == NewsInit => SourceInv
  BY DEF NewsInit, SourceInv

(* SourceInv is inductive: Upsert alone writes the table, and a step that  *)
(* fetches goes on to a later page.                                        *)
LEMMA SourceStep ==
    PagesAgree /\ NewsInv /\ SourceInv /\ [NewsNext]_newsVars => SourceInv'
<1> SUFFICES ASSUME PagesAgree, NewsInv, SourceInv, [NewsNext]_newsVars
             PROVE  SourceInv'
  OBVIOUS
<1> USE NewsAssumption DEF NewsInv, NewsTypeOK
<1>1. CASE Upsert
  <2>1. PICK k \in entries : StoreEntry(Pages[fetched][k])
    BY <1>1 DEF Upsert
  <2>2. fetched' = fetched /\ fetched \in Nat /\ fetched \in DOMAIN Pages
    BY <1>1 DEF Upsert
  <2>3. PICK u \in Urls, b \in Bodies :
            /\ u = Pages[fetched][k].url /\ b = Pages[fetched][k].body
            /\ b # NoBody /\ Says(fetched, u) = b
    BY EntryIsACard, EntrySays
  <2>4. CASE news[u] = b
    BY <2>1, <2>2, <2>3, <2>4 DEF StoreEntry, SourceInv, SaidBy
  <2>5. CASE news[u] # b
    <3>1. /\ news' = [news EXCEPT ![u] = b]
          /\ touched' = IF news[u] = NoBody THEN touched
                        ELSE [touched EXCEPT ![u] = @ + 1]
      BY <2>1, <2>3, <2>5 DEF StoreEntry
    <3>2. touched'[u] <= Cardinality(Changes(u, fetched))
      <4>1. CASE news[u] = NoBody
        <5>1. touched'[u] = 0
          BY <2>3, <3>1, <4>1 DEF SourceInv
        <5> QED
          BY <2>2, <5>1, ChangesFinite
      <4>2. CASE news[u] # NoBody
        <5>1. PICK w \in 1 .. fetched : SaidBy(u, w)
          BY <2>3, <4>2 DEF SourceInv
        <5>2. w \in Nat \ {0} /\ w # fetched /\ w < fetched
          BY <2>2, <2>3, <2>5, <5>1 DEF SaidBy
        <5>3. Cardinality(Changes(u, w)) + 1
                <= Cardinality(Changes(u, fetched))
          BY <2>2, <2>3, <2>5, <5>1, <5>2, ChangeBetween DEF SaidBy
        <5>4. touched'[u] = touched[u] + 1
          BY <2>3, <3>1, <4>2
        <5>5. /\ touched[u] \in Nat
              /\ touched[u] <= Cardinality(Changes(u, w))
          BY <2>3, <5>1 DEF SaidBy
        <5> QED
          BY <2>2, <5>2, <5>3, <5>4, <5>5, ChangesFinite
      <4> QED  BY <4>1, <4>2
    <3>3. SaidBy(u, fetched)'
      BY <2>2, <2>3, <3>1, <3>2 DEF SaidBy
    <3>4. ASSUME NEW v \in Urls, v # u
          PROVE  IF news'[v] = NoBody THEN touched'[v] = 0
                 ELSE \E w \in 1 .. fetched' : SaidBy(v, w)'
      <4>1. news'[v] = news[v] /\ touched'[v] = touched[v]
        BY <3>1, <3>4
      <4> QED
        BY <2>2, <4>1 DEF SourceInv, SaidBy
    <3>5. news'[u] # NoBody
      BY <2>3, <3>1
    <3> QED
      BY <2>2, <3>3, <3>4, <3>5 DEF SourceInv
  <2> QED  BY <2>4, <2>5
<1>2. CASE FetchListing
  <2>1. fetched <= fetched' /\ fetched' \in Nat /\ UNCHANGED <<news, touched>>
    BY <1>2 DEF FetchListing
  <2> QED
    BY <2>1 DEF SourceInv, SaidBy
<1>3. CASE ~Upsert /\ ~FetchListing
  <2>1. UNCHANGED <<news, touched, fetched>>
    BY <1>3 DEF NewsNext, NewsScheduler, NewsSyncDone, NewsFault,
                NewsMidnight, EditPage, RestartNews, newsVars
  <2> QED
    BY <2>1 DEF SourceInv, SaidBy
<1> QED  BY <1>1, <1>2, <1>3

LEMMA SourceBounds ==
    NewsInv /\ SourceInv => \A u \in Urls :
        touched[u] <= Cardinality(Changes(u, page))
<1> SUFFICES ASSUME NewsInv, SourceInv, NEW u \in Urls
             PROVE  touched[u] <= Cardinality(Changes(u, page))
  OBVIOUS
<1>1. page \in Nat /\ fetched \in Nat /\ fetched <= page
  BY NewsAssumption DEF NewsInv, NewsTypeOK
<1>2. CASE news[u] = NoBody
  <2>1. touched[u] = 0
    BY <1>2 DEF SourceInv
  <2> QED
    BY <1>1, <2>1, ChangesFinite
<1>3. CASE news[u] # NoBody
  <2>1. PICK w \in 1 .. fetched : SaidBy(u, w)
    BY <1>3 DEF SourceInv
  <2>2. w \in Nat /\ w <= page
    BY <1>1
  <2>3. Cardinality(Changes(u, w)) <= Cardinality(Changes(u, page))
    BY <1>1, <2>2, ChangesGrow
  <2>4. touched[u] \in Nat
    BY DEF NewsInv, NewsTypeOK
  <2> QED
    BY <1>1, <2>1, <2>2, <2>3, <2>4, ChangesFinite DEF SaidBy
<1> QED  BY <1>2, <1>3

(* However often a sync repeats, stops half way or starts again, and       *)
(* however the page loses cards and brings them back, updated_at moves at  *)
(* most once for every change of the source, where no page contradicts     *)
(* itself (Upsert, store_postgres.go:26).                                  *)
THEOREM SourceMovesUpdatedAt == NewsSpec => []UpdatedOnlyByTheSource
<1>1. ASSUME PagesAgree PROVE NewsSpec => []SourceInv
  <2>1. NewsInv /\ SourceInv /\ [NewsNext]_newsVars => SourceInv'
    BY <1>1, SourceStep
  <2> QED
    BY <2>1, SourceInit, NewsInvariant, PTL DEF NewsSpec
<1>2. CASE PagesAgree
  <2>1. NewsInv /\ SourceInv => UpdatedOnlyByTheSource
    BY SourceBounds DEF UpdatedOnlyByTheSource
  <2> QED
    BY <1>1, <1>2, <2>1, NewsInvariant, PTL
<1>3. CASE ~PagesAgree
  <2>1. UpdatedOnlyByTheSource
    BY <1>3 DEF UpdatedOnlyByTheSource
  <2> QED
    BY <2>1, PTL
<1> QED  BY <1>2, <1>3

-----------------------------------------------------------------------------
(* The journal of daily terms.                                             *)

(* The shape of what the mirror is about.                                  *)
TermVersionsOK ==
    /\ termSource \in [MonthFiles -> Nat \ {0}]
    /\ \A f \in MonthFiles : termSource[f] <= Len(Content[f])
    /\ termGot \in [MonthFiles -> Nat]
    /\ termFloor \in [MonthFiles -> Nat]
    /\ termSnap.got \in [MonthFiles -> Nat]
    /\ termListing \subseteq MonthFiles

(* As in the catalog: versions only move forwards.  In addition, a file    *)
(* that has not been read yet is one the listing named, so that a sync     *)
(* with nothing left to fetch has read them all.                           *)
TermsInOrder ==
    /\ \A f \in MonthFiles : termSnap.got[f] <= termSource[f]
    /\ \A f \in MonthFiles : termFloor[f] <= termSource[f]
    /\ termPc = "fetch" =>
         \A f \in MonthFiles :
             /\ termSnap.got[f] <= termFloor[f] /\ termFloor[f] > 0
             /\ \/ termGot[f] = 0 /\ f \in termListing
                \/ termFloor[f] <= termGot[f] /\ termGot[f] <= termSource[f]

TermsInv == TermVersionsOK /\ TermsInOrder
-----------------------------------------------------------------------------
LEMMA TermsInitInv == TermsInit => TermsInv
<1>1. ASSUME NEW f \in MonthFiles PROVE Len(Content[f]) \in Nat \ {0}
  BY TermsAssumption DEF MonthFiles
<1> QED
  BY <1>1 DEF TermsInit, TermsInv, TermVersionsOK, TermsInOrder,
              NoVersions, EmptySnap

(* TermsInv is inductive: one step per action.                             *)
LEMMA TermsStepInv == TermsInv /\ [TermsNext]_termsVars => TermsInv'
<1> SUFFICES ASSUME TermsInv, [TermsNext]_termsVars PROVE TermsInv'
  OBVIOUS
<1> USE DEF TermsInv, TermVersionsOK, TermsInOrder, NoVersions
<1>1. CASE ListMonths
  <2>1. /\ termFloor' = termSource
        /\ UNCHANGED <<termSource, termSnap>>
    BY <1>1 DEF ListMonths
  <2>2. CASE Locations = {}
    BY <1>1, <2>1, <2>2 DEF ListMonths, SyncEnds
  <2>3. CASE Locations # {}
    <3>1. /\ termPc' = "fetch" /\ termListing' = Locations
          /\ termGot' = [f \in MonthFiles |->
                             IF Exists(f) THEN 0 ELSE termSource[f]]
      BY <1>1, <2>3 DEF ListMonths
    <3> QED  BY <2>1, <3>1 DEF Locations
  <2> QED  BY <2>2, <2>3
<1>2. CASE FetchMonth
  <2>1. /\ termPc = "fetch"
        /\ UNCHANGED <<termSource, termSnap, termFloor>>
    BY <1>2 DEF FetchMonth
  <2>2. PICK f \in ToFetch :
          IF Exists(f)
          THEN /\ termGot' = [termGot EXCEPT ![f] = termSource[f]]
               /\ UNCHANGED <<termPc, termListing>>
          ELSE SyncEnds
    BY <1>2 DEF FetchMonth
  <2>3. CASE SyncEnds
    BY <2>1, <2>3 DEF SyncEnds
  <2>4. CASE /\ termGot' = [termGot EXCEPT ![f] = termSource[f]]
             /\ UNCHANGED <<termPc, termListing>>
    BY <2>1, <2>4 DEF ToFetch
  <2> QED  BY <2>2, <2>3, <2>4
<1>3. CASE TermFault
  BY <1>3 DEF TermFault, SyncEnds
<1>4. CASE ReplaceTerms
  BY <1>4 DEF ReplaceTerms, SyncEnds, ToFetch
<1>5. CASE TermsMidnight
  BY <1>5 DEF TermsMidnight
<1>6. CASE ResolveMonth \/ ListTerms \/ NewReader \/ NextMonth
  BY <1>6 DEF ResolveMonth, ListTerms, NewReader, NextMonth
<1>7. ASSUME NEW f \in MonthFiles, EditMonth(f) PROVE TermsInv'
  <2>1. Len(Content[f]) \in Nat
    BY TermsAssumption DEF MonthFiles
  <2> QED  BY <1>7, <2>1 DEF EditMonth
<1>8. CASE RestartTerms
  BY <1>8 DEF RestartTerms, EmptySnap
<1>9. CASE UNCHANGED termsVars
  BY <1>9 DEF termsVars
<1> QED
  BY <1>1, <1>2, <1>3, <1>4, <1>5, <1>6, <1>7, <1>8, <1>9
     DEF TermsNext, TermsScheduler

LEMMA TermsInvariant == TermsSpec => []TermsInv
  BY TermsInitInv, TermsStepInv, PTL DEF TermsSpec
-----------------------------------------------------------------------------
LEMMA TermsMirrorInit == TermsInit => TermsMirrorOf!Init
  BY DEF TermsInit, TermsMirrorOf!Init, TermsMirrorOf!Nothing, NoVersions,
         EmptySnap

(* Every step is one of Mirror's or changes nothing it shows.              *)
LEMMA TermsMirrorStep ==
    TermsInv /\ [TermsNext]_termsVars
      => [TermsMirrorOf!Next]_(TermsMirrorOf!vars)
<1> SUFFICES ASSUME TermsInv, [TermsNext]_termsVars
             PROVE  [TermsMirrorOf!Next]_(TermsMirrorOf!vars)
  OBVIOUS
<1> USE DEF TermsMirrorOf!Next, TermsMirrorOf!vars
<1>1. CASE ListMonths
  BY <1>1 DEF ListMonths, TermsMirrorOf!Begin
<1>2. CASE ReplaceTerms
  <2>1. /\ termSnap'.got = termGot
        /\ UNCHANGED <<termSource, termFloor>>
    BY <1>2 DEF ReplaceTerms
  <2>2. \A f \in MonthFiles :
            /\ termGot[f] \in termFloor[f] .. termSource[f]
            /\ termGot[f] > 0 /\ termGot[f] >= termSnap.got[f]
    <3> SUFFICES ASSUME NEW f \in MonthFiles
                 PROVE  /\ termGot[f] \in termFloor[f] .. termSource[f]
                        /\ termGot[f] > 0 /\ termGot[f] >= termSnap.got[f]
      OBVIOUS
    <3>1. termPc = "fetch" /\ ToFetch = {}
      BY <1>2 DEF ReplaceTerms
    <3>2. ~(termGot[f] = 0 /\ f \in termListing)
      BY <3>1 DEF ToFetch
    <3>3. /\ termFloor[f] <= termGot[f] /\ termGot[f] <= termSource[f]
          /\ termSnap.got[f] <= termFloor[f] /\ termFloor[f] > 0
      BY <3>1, <3>2 DEF TermsInv, TermsInOrder
    <3> QED  BY <3>3 DEF TermsInv, TermVersionsOK
  <2> QED  BY <2>1, <2>2 DEF TermsMirrorOf!Publish
<1>3. ASSUME NEW f \in MonthFiles, EditMonth(f)
      PROVE  [TermsMirrorOf!Next]_(TermsMirrorOf!vars)
  BY <1>3 DEF EditMonth, TermsMirrorOf!Edit
<1>4. CASE RestartTerms
  BY <1>4 DEF RestartTerms, TermsMirrorOf!Lose, TermsMirrorOf!Nothing,
              NoVersions, EmptySnap
<1>5. CASE FetchMonth \/ TermFault \/ TermsMidnight
  BY <1>5 DEF FetchMonth, TermFault, TermsMidnight
<1>6. CASE \/ ResolveMonth \/ ListTerms \/ NewReader \/ NextMonth
           \/ UNCHANGED termsVars
  BY <1>6 DEF ResolveMonth, ListTerms, NewReader, NextMonth, termsVars
<1> QED
  BY <1>1, <1>2, <1>3, <1>4, <1>5, <1>6 DEF TermsNext, TermsScheduler

(* The journal is a mirror of the month files: replaced whole, with files  *)
(* no older than when the sync began, though the listing and the files are *)
(* read one after the other and upstream moves (Sync, service.go:177).     *)
THEOREM JournalIsAMirror == TermsSpec => TermsMirror
  BY TermsInvariant, TermsMirrorInit, TermsMirrorStep, PTL
     DEF TermsSpec, TermsMirror, TermsMirrorOf!Spec
-----------------------------------------------------------------------------
(* A snapshot of files that were read and exist.                           *)
ReadSnap(snap) ==
    /\ snap.files \subseteq MonthFiles
    /\ \A f \in snap.files : /\ snap.got[f] \in 1 .. Len(Content[f])
                             /\ Content[f][snap.got[f]] \in Seq(TermTitles)

LEMMA TermFacts ==
    ASSUME NEW snap, ReadSnap(snap)
    PROVE  /\ IsFiniteSet(TermsIn(snap))
           /\ \A t \in TermsIn(snap) :
                  /\ t.file \in snap.files
                  /\ t.at \in Nat /\ t.month = FileMonth[t.file]
                  /\ t.id[1] = t.month
                  /\ t = [id |-> <<FileMonth[t.file],
                                   Content[t.file][snap.got[t.file]][t.at]>>,
                          month |-> FileMonth[t.file], file |-> t.file,
                          version |-> snap.got[t.file], at |-> t.at]
<1>1. ASSUME NEW f \in snap.files
      PROVE  IsFiniteSet(TermsOf(f, snap.got[f]))
  <2> DEFINE titles == Content[f][snap.got[f]]
             term == [i \in DOMAIN titles |->
                         [id |-> <<FileMonth[f], titles[i]>>,
                          month |-> FileMonth[f], file |-> f,
                          version |-> snap.got[f], at |-> i]]
  <2>1. Len(titles) \in Nat /\ DOMAIN titles = 1 .. Len(titles)
    BY DEF ReadSnap
  <2>2. IsFiniteSet(DOMAIN titles)
    BY <2>1, FS_Interval
  <2>3. term = [i \in DOMAIN titles |-> term[i]]
    OBVIOUS
  <2>4. TermsOf(f, snap.got[f]) = {term[i] : i \in DOMAIN titles}
    BY DEF TermsOf
  <2> HIDE DEF term
  <2>5. IsFiniteSet({term[i] : i \in DOMAIN titles})
    BY <2>2, <2>3, FiniteImage
  <2> QED
    BY <2>4, <2>5
<1>2. IsFiniteSet({TermsOf(f, snap.got[f]) : f \in snap.files})
  <2>1. IsFiniteSet(snap.files)
    BY TermsAssumption, FS_Subset DEF ReadSnap, MonthFiles
  <2> DEFINE terms == [f \in snap.files |-> TermsOf(f, snap.got[f])]
  <2>2. terms = [f \in snap.files |-> terms[f]]
    OBVIOUS
  <2>3. {TermsOf(f, snap.got[f]) : f \in snap.files}
          = {terms[f] : f \in snap.files}
    OBVIOUS
  <2> HIDE DEF terms
  <2> QED
    BY <2>1, <2>2, <2>3, FiniteImage
<1>3. IsFiniteSet(TermsIn(snap))
  BY <1>1, <1>2, FS_UNION DEF TermsIn
<1>4. ASSUME NEW t \in TermsIn(snap)
      PROVE  /\ t.file \in snap.files
             /\ t.at \in Nat /\ t.month = FileMonth[t.file]
             /\ t.id[1] = t.month
             /\ t = [id |-> <<FileMonth[t.file],
                              Content[t.file][snap.got[t.file]][t.at]>>,
                     month |-> FileMonth[t.file], file |-> t.file,
                     version |-> snap.got[t.file], at |-> t.at]
  <2>1. PICK f \in snap.files : t \in TermsOf(f, snap.got[f])
    BY DEF TermsIn
  <2>2. Content[f][snap.got[f]] \in Seq(TermTitles)
    BY DEF ReadSnap
  <2>3. PICK i \in DOMAIN Content[f][snap.got[f]] :
            t = [id |-> <<FileMonth[f], Content[f][snap.got[f]][i]>>,
                 month |-> FileMonth[f], file |-> f,
                 version |-> snap.got[f], at |-> i]
    BY <2>1 DEF TermsOf
  <2>4. i \in Nat
    BY <2>2
  <2> QED
    BY <2>3, <2>4
<1> QED
  BY <1>3, <1>4

(* Both orders of a snapshot's terms are strict, and inside a month they   *)
(* are one.                                                                *)
LEMMA TermOrders ==
    ASSUME NEW snap, ReadSnap(snap)
    PROVE  LET T == TermsIn(snap)
           IN  /\ StrictOrder(T, OrderOf(T, FetchedBefore))
               /\ StrictOrder(T, OrderOf(T, ListedBefore))
<1> DEFINE T == TermsIn(snap)
<1>1. ASSUME NEW f \in snap.files
      PROVE  f \in Nat /\ FileMonth[f] \in Nat
  BY TermsAssumption DEF ReadSnap, MonthFiles
<1>2. ASSUME NEW t \in T
      PROVE  /\ t.file \in Nat /\ t.at \in Nat /\ t.month \in Nat
             /\ t.month = FileMonth[t.file]
  BY <1>1, TermFacts
<1>3. ASSUME NEW s \in T, NEW t \in T, s.file = t.file, s.at = t.at
      PROVE  s = t
  BY <1>3, TermFacts
<1> HIDE DEF T
<1>4. /\ \A s \in T : ~FetchedBefore(s, s)
      /\ \A s, t, u \in T :
             FetchedBefore(s, t) /\ FetchedBefore(t, u) => FetchedBefore(s, u)
      /\ \A s, t \in T : s # t => FetchedBefore(s, t) \/ FetchedBefore(t, s)
  <2>1. \A s \in T : ~FetchedBefore(s, s)
    BY <1>2 DEF FetchedBefore, ByMonthAndPath
  <2>2. ASSUME NEW s \in T, NEW t \in T, NEW u \in T,
               FetchedBefore(s, t), FetchedBefore(t, u)
        PROVE  FetchedBefore(s, u)
    <3>1. /\ s.month \in Nat /\ t.month \in Nat /\ u.month \in Nat
          /\ s.file \in Nat /\ t.file \in Nat /\ u.file \in Nat
          /\ s.at \in Nat /\ t.at \in Nat /\ u.at \in Nat
          /\ s.month = FileMonth[s.file] /\ t.month = FileMonth[t.file]
          /\ u.month = FileMonth[u.file]
      BY <1>2
    <3> QED
      BY <2>2, <3>1 DEF FetchedBefore, ByMonthAndPath
  <2>3. ASSUME NEW s \in T, NEW t \in T, s # t
        PROVE  FetchedBefore(s, t) \/ FetchedBefore(t, s)
    <3>1. /\ s.month \in Nat /\ t.month \in Nat
          /\ s.file \in Nat /\ t.file \in Nat
          /\ s.at \in Nat /\ t.at \in Nat
          /\ s.month = FileMonth[s.file] /\ t.month = FileMonth[t.file]
      BY <1>2
    <3>2. s.file # t.file \/ s.at # t.at
      BY <1>3, <2>3
    <3> QED
      BY <3>1, <3>2 DEF FetchedBefore, ByMonthAndPath
  <2> QED
    BY <2>1, <2>2, <2>3
<1>5. \A s, t \in T : FetchedBefore(s, t) => s.month <= t.month
  BY <1>2 DEF FetchedBefore, ByMonthAndPath
<1>6. /\ \A s \in T : ~ListedBefore(s, s)
      /\ \A s, t, u \in T :
             ListedBefore(s, t) /\ ListedBefore(t, u) => ListedBefore(s, u)
      /\ \A s, t \in T : s # t => ListedBefore(s, t) \/ ListedBefore(t, s)
  BY <1>2, <1>4 DEF ListedBefore
<1>7. StrictOrder(T, OrderOf(T, FetchedBefore))
  BY <1>4 DEF StrictOrder, OrderOf
<1>8. StrictOrder(T, OrderOf(T, ListedBefore))
  BY <1>6 DEF StrictOrder, OrderOf
<1> QED
  BY <1>7, <1>8 DEF T

(* An empty listing of a month: the snapshot holds no term of it.          *)
LEMMA EmptyMonth ==
    ASSUME NEW snap, ReadSnap(snap), NEW m, StoreListMonth(snap, m) = <<>>
    PROVE  \A f \in snap.files :
               FileMonth[f] = m => Content[f][snap.got[f]] = <<>>
<1> DEFINE M == {t \in TermsIn(snap) : t.month = m}
<1>1. IsFiniteSet(M)
  <2>1. M \subseteq TermsIn(snap)
    OBVIOUS
  <2> QED
    BY <2>1, TermFacts, FS_Subset
<1>2. M = {}
  BY <1>1, InOrderEmpty DEF StoreListMonth, SortedBy
<1>3. ASSUME NEW f \in snap.files, FileMonth[f] = m,
             Content[f][snap.got[f]] # <<>>
      PROVE  FALSE
  <2> DEFINE titles == Content[f][snap.got[f]]
             t == [id |-> <<FileMonth[f], titles[1]>>,
                   month |-> FileMonth[f], file |-> f,
                   version |-> snap.got[f], at |-> 1]
  <2>1. titles \in Seq(TermTitles) /\ titles # <<>>
    BY <1>3 DEF ReadSnap
  <2>2. 1 \in DOMAIN titles
    BY <2>1
  <2>3. t \in TermsOf(f, snap.got[f])
    BY <2>2 DEF TermsOf
  <2>4. t \in TermsIn(snap)
    BY <2>3 DEF TermsIn
  <2> QED
    BY <1>2, <1>3, <2>4
<1> QED
  BY <1>3

-----------------------------------------------------------------------------
(* What a sync knows of the files it has read, what the store holds, and   *)
(* how far a reader is behind it.                                          *)
SyncReads ==
    termPc = "fetch" =>
        \A f \in MonthFiles :
            IF f \in termListing
            THEN termGot[f] > 0 => Content[f][termGot[f]] # Absent
            ELSE termGot[f] > 0 /\ Content[f][termGot[f]] = Absent

StoreHolds ==
    /\ termSnap.files \subseteq MonthFiles
    /\ \A f \in MonthFiles :
           IF f \in termSnap.files
           THEN termSnap.got[f] > 0 /\ Content[f][termSnap.got[f]] # Absent
           ELSE ~Holds(f, termSnap.got[f])

ReaderBehind ==
    /\ reader.saw \in [MonthFiles -> Nat]
    /\ reader.at = "resolved" =>
           \A f \in MonthFiles : reader.saw[f] <= termSnap.got[f]

ReadsInv ==
    TermsInv /\ SyncReads /\ StoreHolds /\ ReaderBehind
      /\ OnlyUpstreamDropsAMonth

LEMMA ReadsInitInv == TermsInit => ReadsInv
  BY TermsInitInv
     DEF TermsInit, ReadsInv, SyncReads, StoreHolds, ReaderBehind,
         OnlyUpstreamDropsAMonth, IdleReader, EmptySnap, NoVersions, Holds

(* A step of the scheduler: a file that is listed was read when it was     *)
(* there, one that is not was read when it was not.                        *)
LEMMA SyncReadsStep ==
    ASSUME ReadsInv, TermsInv', [TermsNext]_termsVars
    PROVE  SyncReads'
<1> USE DEF ReadsInv, SyncReads, TermsInv, TermVersionsOK
<1>1. CASE ListMonths
  <2>1. UNCHANGED termSource
    BY <1>1 DEF ListMonths
  <2>2. CASE Locations = {}
    BY <1>1, <2>2 DEF ListMonths, SyncEnds
  <2>3. CASE Locations # {}
    <3>1. /\ termListing' = Locations
          /\ termGot' = [f \in MonthFiles |->
                             IF Exists(f) THEN 0 ELSE termSource[f]]
      BY <1>1, <2>3 DEF ListMonths
    <3> QED  BY <2>1, <3>1 DEF Locations, Exists
  <2> QED  BY <2>2, <2>3
<1>2. CASE FetchMonth
  <2>1. termPc = "fetch" /\ UNCHANGED termSource
    BY <1>2 DEF FetchMonth
  <2>2. PICK f \in ToFetch :
          IF Exists(f)
          THEN /\ termGot' = [termGot EXCEPT ![f] = termSource[f]]
               /\ UNCHANGED <<termPc, termListing>>
          ELSE SyncEnds
    BY <1>2 DEF FetchMonth
  <2>3. CASE SyncEnds
    BY <2>3 DEF SyncEnds
  <2>4. CASE /\ termGot' = [termGot EXCEPT ![f] = termSource[f]]
             /\ UNCHANGED <<termPc, termListing>> /\ Exists(f)
    BY <2>1, <2>4 DEF ToFetch, Exists
  <2> QED  BY <2>2, <2>3, <2>4
<1>3. CASE TermFault \/ ReplaceTerms \/ TermsMidnight \/ RestartTerms
  BY <1>3 DEF TermFault, ReplaceTerms, TermsMidnight, RestartTerms, SyncEnds
<1>4. CASE \/ ResolveMonth \/ ListTerms \/ NewReader \/ NextMonth
           \/ \E f \in MonthFiles : EditMonth(f)
           \/ UNCHANGED termsVars
  <2>1. UNCHANGED <<termPc, termListing, termGot>>
    BY <1>4 DEF ResolveMonth, ListTerms, NewReader, NextMonth, EditMonth,
                termsVars
  <2> QED  BY <2>1
<1> QED
  BY <1>1, <1>2, <1>3, <1>4 DEF TermsNext, TermsScheduler

LEMMA StoreHoldsStep ==
    ASSUME ReadsInv, TermsInv', [TermsNext]_termsVars
    PROVE  /\ StoreHolds'
           /\ \/ RestartTerms
              \/ \A f \in MonthFiles : termSnap.got[f] <= termSnap.got'[f]
<1> USE DEF ReadsInv, TermsInv, TermVersionsOK
<1>1. CASE ReplaceTerms
  <2>1. /\ termPc = "fetch" /\ ToFetch = {}
        /\ termSnap' = [files |-> termListing, got |-> termGot]
    BY <1>1 DEF ReplaceTerms
  <2>2. \A f \in MonthFiles : termSnap.got[f] <= termGot[f]
    <3>1. ASSUME NEW f \in MonthFiles PROVE termSnap.got[f] <= termGot[f]
      <4>1. termSnap.got[f] <= termFloor[f] /\ termFloor[f] <= termGot[f]
        BY <2>1 DEF ToFetch, TermsInOrder
      <4> QED  BY <4>1
    <3> QED  BY <3>1
  <2>3. StoreHolds'
    BY <2>1 DEF StoreHolds, SyncReads, ToFetch, Holds
  <2> QED  BY <2>1, <2>2, <2>3
<1>2. CASE RestartTerms
  BY <1>2 DEF RestartTerms, StoreHolds, EmptySnap, NoVersions, Holds
<1>3. CASE ~ReplaceTerms /\ ~RestartTerms
  <2>1. UNCHANGED termSnap
    BY <1>3 DEF TermsNext, TermsScheduler, ListMonths, FetchMonth, TermFault,
                TermsMidnight, ResolveMonth, ListTerms, NewReader, NextMonth,
                EditMonth, termsVars
  <2> QED  BY <2>1 DEF StoreHolds, Holds
<1> QED  BY <1>1, <1>2, <1>3

(* What the store holds are versions that were read.                       *)
LEMMA StoredWasRead ==
    ASSUME ReadsInv PROVE ReadSnap(termSnap)
<1> USE DEF ReadsInv, TermsInv, TermVersionsOK
<1>1. ASSUME NEW f \in termSnap.files
      PROVE  /\ termSnap.got[f] \in 1 .. Len(Content[f])
             /\ Content[f][termSnap.got[f]] \in Seq(TermTitles)
  <2>1. /\ f \in MonthFiles /\ termSnap.got[f] > 0
        /\ Content[f][termSnap.got[f]] # Absent
    BY DEF StoreHolds
  <2>2. /\ Len(Content[f]) \in Nat
        /\ Content[f] \in Seq({Absent} \cup Seq(TermTitles))
    BY <2>1, TermsAssumption DEF MonthFiles
  <2>3. /\ termSnap.got[f] <= termSource[f]
        /\ termSource[f] <= Len(Content[f])
        /\ termSnap.got[f] \in Nat /\ termSource[f] \in Nat
    BY <2>1 DEF TermsInOrder
  <2>4. termSnap.got[f] \in 1 .. Len(Content[f])
    BY <2>1, <2>2, <2>3
  <2>5. Content[f][termSnap.got[f]] \in {Absent} \cup Seq(TermTitles)
    BY <2>2, <2>4
  <2> QED
    BY <2>1, <2>4, <2>5
<1> QED  BY <1>1 DEF ReadSnap, StoreHolds

(* A listing that finds nothing of the month: what the store holds of each *)
(* of its files now is no term.                                            *)
LEMMA LostMonth ==
    ASSUME ReadsInv, ListTerms, reader'.at = "lost"
    PROVE  OnlyUpstreamDropsAMonth'
<1> USE DEF ReadsInv, TermsInv, TermVersionsOK
<1>1. /\ reader.at = "resolved" /\ UNCHANGED <<termSource, termSnap>>
      /\ StoreListMonth(termSnap, reader.month) = <<>>
      /\ reader'.month = reader.month /\ reader'.saw = reader.saw
  BY DEF ListTerms
<1>2. ReadSnap(termSnap)
  BY StoredWasRead
<1>3. ASSUME NEW f \in MonthFiles, FileMonth[f] = reader.month
      PROVE  /\ ~Holds(f, termSnap.got[f])
             /\ termSnap.got[f] \in reader.saw[f] .. termSource[f]
  <2>1. CASE f \in termSnap.files
    BY <1>1, <1>2, <1>3, <2>1, EmptyMonth
       DEF Holds, ReaderBehind, TermsInOrder
  <2>2. CASE f \notin termSnap.files
    BY <1>1, <2>2 DEF StoreHolds, ReaderBehind, TermsInOrder
  <2> QED  BY <2>1, <2>2
<1> QED
  BY <1>1, <1>3 DEF OnlyUpstreamDropsAMonth, Holds

LEMMA ReadsStepInv == ReadsInv /\ [TermsNext]_termsVars => ReadsInv'
<1> SUFFICES ASSUME ReadsInv, [TermsNext]_termsVars PROVE ReadsInv'
  OBVIOUS
<1>1. TermsInv'
  BY TermsStepInv DEF ReadsInv
<1>2. SyncReads'
  BY <1>1, SyncReadsStep
<1>3. /\ StoreHolds'
      /\ \/ RestartTerms
         \/ \A f \in MonthFiles : termSnap.got[f] <= termSnap.got'[f]
  BY <1>1, StoreHoldsStep
<1>4. ReaderBehind' /\ OnlyUpstreamDropsAMonth'
  <2> USE DEF ReadsInv, TermsInv, TermVersionsOK, ReaderBehind
  <2>1. CASE ResolveMonth
    <3>1. /\ reader'.at \in {"nothing", "resolved"}
          /\ reader'.saw = IF reader'.at = "resolved" THEN termSnap.got
                           ELSE NoVersions
          /\ UNCHANGED termSnap
      BY <2>1 DEF ResolveMonth, IdleReader
    <3>2. reader'.at # "lost"
      BY <3>1
    <3> QED
      BY <3>1, <3>2 DEF OnlyUpstreamDropsAMonth, NoVersions
  <2>2. CASE ListTerms
    <3>1. reader'.at \in {"lost", "answered"} /\ reader'.saw = reader.saw
      BY <2>2 DEF ListTerms
    <3> QED
      BY <2>2, <3>1, LostMonth DEF OnlyUpstreamDropsAMonth
  <2>3. CASE NewReader \/ RestartTerms
    <3>1. reader' = IdleReader
      BY <2>3 DEF NewReader, RestartTerms
    <3> QED
      BY <3>1 DEF IdleReader, NoVersions, OnlyUpstreamDropsAMonth
  <2>4. CASE ~(ResolveMonth \/ ListTerms \/ NewReader \/ RestartTerms)
    <3>1. UNCHANGED reader
      BY <2>4 DEF TermsNext, TermsScheduler, ListMonths, FetchMonth,
                  TermFault, ReplaceTerms, TermsMidnight, NextMonth,
                  EditMonth, termsVars
    <3>2. \A f \in MonthFiles : termSnap.got[f] <= termSnap.got'[f]
      BY <1>3, <2>4
    <3>3. ReaderBehind'
      BY <1>1, <3>1, <3>2
    <3>4. \A f \in MonthFiles : termSource[f] <= termSource'[f]
      <4>1. ASSUME NEW g \in MonthFiles, EditMonth(g)
            PROVE  \A f \in MonthFiles : termSource[f] <= termSource'[f]
        <5>1. termSource' = [termSource EXCEPT ![g] = @ + 1]
          BY <4>1 DEF EditMonth
        <5> QED  BY <5>1
      <4>2. CASE ~\E g \in MonthFiles : EditMonth(g)
        <5>1. UNCHANGED termSource
          BY <2>4, <4>2 DEF TermsNext, TermsScheduler, ListMonths,
             FetchMonth, TermFault, ReplaceTerms, TermsMidnight, NextMonth,
             termsVars
        <5> QED  BY <5>1
      <4> QED  BY <4>1, <4>2
    <3>5. OnlyUpstreamDropsAMonth'
      <4>1. SUFFICES ASSUME reader.at = "lost", NEW f \in MonthFiles,
                            FileMonth[f] = reader.month,
                            Holds(f, reader.saw[f])
                     PROVE  \E v \in reader.saw[f] .. termSource'[f] :
                                ~Holds(f, v)
        BY <3>1 DEF OnlyUpstreamDropsAMonth, Holds
      <4>2. PICK v \in reader.saw[f] .. termSource[f] : ~Holds(f, v)
        BY <4>1 DEF OnlyUpstreamDropsAMonth
      <4>3. v \in reader.saw[f] .. termSource'[f]
        BY <1>1, <3>4, <4>1, <4>2
      <4> QED  BY <4>2, <4>3
    <3> QED  BY <3>3, <3>5
  <2> QED  BY <2>1, <2>2, <2>3, <2>4
<1> QED
  BY <1>1, <1>2, <1>3, <1>4 DEF ReadsInv

LEMMA ReadsInvariant == TermsSpec => []ReadsInv
  BY ReadsInitInv, ReadsStepInv, PTL DEF TermsSpec

(* "a bad day upstream never blanks a month": whatever happens between the *)
(* two reads of a listing, a month they lose is one upstream dropped       *)
(* (List, service.go:123; Sync, service.go:177).                           *)
THEOREM MonthsAreDroppedUpstream == TermsSpec => []OnlyUpstreamDropsAMonth
  BY ReadsInvariant, PTL DEF ReadsInv

-----------------------------------------------------------------------------
(* The first listed of the terms of an id is the one the index keeps: the  *)
(* listing's order and the store's agree inside a month.                   *)
LEMMA IndexKeepsFirstListed ==
    ASSUME NEW snap, ReadSnap(snap), NEW i \in DOMAIN StoreListAll(snap),
           \A j \in 1 .. i - 1 :
               StoreListAll(snap)[j].id # StoreListAll(snap)[i].id
    PROVE  StoreGet(snap, StoreListAll(snap)[i].id) = StoreListAll(snap)[i]
<1> DEFINE T == TermsIn(snap)
           n == Cardinality(T)
           rows == StoreListAll(snap)
           terms == SnapshotTerms(snap)
           x == rows[i]
           id == x.id
           First(k) == /\ terms[k].id = id
                       /\ \A j \in 1 .. k - 1 : terms[j].id # id
<1>1. IsFiniteSet(T)
  BY TermFacts
<1>2. /\ DOMAIN rows = 1 .. n /\ n \in Nat
      /\ \A t \in T : \E k \in DOMAIN rows : rows[k] = t
      /\ \A k \in DOMAIN rows : rows[k] \in T
      /\ \A j, k \in DOMAIN rows :
             j < k => <<rows[j], rows[k]>> \in OrderOf(T, ListedBefore)
  BY <1>1, TermOrders, InOrderFacts DEF StoreListAll, SortedBy
<1>3. /\ DOMAIN terms = 1 .. n
      /\ \A t \in T : \E k \in DOMAIN terms : terms[k] = t
      /\ \A k \in DOMAIN terms : terms[k] \in T
      /\ \A j, k \in DOMAIN terms :
             j < k => <<terms[j], terms[k]>> \in OrderOf(T, FetchedBefore)
  BY <1>1, TermOrders, InOrderFacts DEF SnapshotTerms, SortedBy
<1>4. \A t \in T : t.id[1] = t.month
  BY TermFacts
<1>5. /\ \A s \in T : <<s, s>> \notin OrderOf(T, ListedBefore)
      /\ \A s, t, u \in T : /\ <<s, t>> \in OrderOf(T, ListedBefore)
                            /\ <<t, u>> \in OrderOf(T, ListedBefore)
                            => <<s, u>> \in OrderOf(T, ListedBefore)
  BY TermOrders DEF StrictOrder
<1>6. \A j \in 1 .. i - 1 : rows[j].id # id
  OBVIOUS
<1>7. i \in DOMAIN rows
  OBVIOUS
<1>8. StoreGet(snap, id) = terms[Index(snap)[id]]
  BY DEF StoreGet
<1>9. Index(snap) = [d \in {terms[k].id : k \in DOMAIN terms} |->
                        CHOOSE k \in DOMAIN terms :
                            /\ terms[k].id = d
                            /\ \A j \in 1 .. k - 1 : terms[j].id # d]
  BY DEF Index
<1> HIDE DEF T, n, rows, terms
<1>10. DOMAIN rows \subseteq Nat /\ DOMAIN terms \subseteq Nat
  <2>1. n \in Nat /\ DOMAIN rows = 1 .. n /\ DOMAIN terms = 1 .. n
    BY <1>2, <1>3
  <2> QED  BY <2>1
<1>11. x \in T
  BY <1>2, <1>7
<1>12. PICK k \in DOMAIN terms : terms[k] = x
  BY <1>3, <1>11
<1>13. \E j \in DOMAIN terms : First(j)
  <2> DEFINE Same == {j \in DOMAIN terms : terms[j].id = id}
  <2>1. Same \subseteq Nat /\ k \in Same
    BY <1>12, <1>10
  <2>2. PICK j \in Same : \A l \in Same : j <= l
    BY <2>1, LeastMember
  <2>3. \A l \in 1 .. j - 1 : terms[l].id # id
    <3>1. SUFFICES ASSUME NEW l \in 1 .. j - 1, terms[l].id = id PROVE FALSE
      OBVIOUS
    <3>2. l \in Same /\ j \in Nat /\ l < j
      BY <1>2, <1>3, <2>1, <3>1
    <3> QED  BY <2>1, <2>2, <3>2
  <2> QED  BY <2>3
<1>14. PICK f \in DOMAIN terms : f = Index(snap)[id] /\ First(f)
  <2>1. id \in {terms[l].id : l \in DOMAIN terms}
    BY <1>12
  <2>2. Index(snap)[id] = CHOOSE j \in DOMAIN terms : First(j)
    BY <1>9, <2>1
  <2> QED  BY <1>13, <2>2
<1>15. terms[f] = x
  <2>1. SUFFICES ASSUME terms[f] # x PROVE FALSE
    OBVIOUS
  <2>2. f < k
    <3>1. f \in Nat /\ k \in Nat /\ f # k
      BY <1>12, <1>10, <2>1
    <3>2. ~(k < f)
      <4>1. k \in 1 .. f - 1 => terms[k].id # id
        BY <1>14
      <4> QED  BY <1>2, <1>3, <1>12, <3>1, <4>1
    <3> QED  BY <3>1, <3>2
  <2> DEFINE y == terms[f]
  <2>3. y \in T /\ y.id = id /\ y.month = x.month
    BY <1>3, <1>4, <1>11, <1>14
  <2>4. FetchedBefore(y, x)
    BY <1>3, <1>12, <1>14, <2>2 DEF OrderOf
  <2>5. <<y, x>> \in OrderOf(T, ListedBefore)
    BY <1>11, <2>3, <2>4 DEF ListedBefore, OrderOf
  <2>6. PICK g \in DOMAIN rows : rows[g] = y
    BY <1>2, <2>3
  <2>7. ~(g < i)
    <3>1. g < i => g \in 1 .. i - 1
      BY <1>2, <1>7, <2>6
    <3> QED  BY <1>6, <2>3, <2>6, <3>1
  <2>8. g # i
    BY <2>1, <2>6
  <2>9. <<x, y>> \in OrderOf(T, ListedBefore)
    <3>1. i < g
      BY <1>7, <1>10, <2>6, <2>7, <2>8
    <3> QED  BY <1>2, <1>7, <2>6, <3>1
  <2> QED  BY <1>5, <1>11, <2>3, <2>5, <2>9
<1> QED
  BY <1>8, <1>14, <1>15 DEF rows

(* Where two files of a month use one id, Get finds the term that the      *)
(* listing shows first, whatever files the snapshot is made of             *)
(* (ReplaceAll, store_memory.go:23; Get, service.go:165).                  *)
THEOREM GetAgreesWithListing == TermsSpec => []GetFindsTheFirstListed
<1>1. ReadsInv => GetFindsTheFirstListed
  BY StoredWasRead, IndexKeepsFirstListed DEF GetFindsTheFirstListed
<1> QED
  BY <1>1, ReadsInvariant, PTL

-----------------------------------------------------------------------------
(* The tools catalog.                                                      *)

(* Versions only move forwards: the snapshot is not ahead of upstream, and *)
(* a sync in progress began after the snapshot was made and has read       *)
(* nothing older than its beginning; between syncs nothing is read.        *)
ToolsInOrder ==
    /\ \A c \in Categories : /\ toolSource[c] <= Len(Rows[c])
                              /\ toolSnap[c] <= toolSource[c]
    /\ \A c \in Categories : toolFloor[c] <= toolSource[c]
    /\ toolPc # "fetch" => toolGot = NoTools
    /\ toolPc = "fetch" =>
         \A c \in Categories :
             /\ toolSnap[c] <= toolFloor[c]
             /\ \/ toolGot[c] = 0
                \/ toolFloor[c] <= toolGot[c] /\ toolGot[c] <= toolSource[c]

(* What was read, and so what is served, has rows.                         *)
HaveRows ==
    /\ \A c \in Categories :
           toolGot[c] # 0 => Rows[c][toolGot[c]] # <<>>
    /\ toolSnap # NoTools =>
           \A c \in Categories :
               toolSnap[c] # 0 /\ Rows[c][toolSnap[c]] # <<>>

ToolsInv == ToolsTypeOK /\ ToolsInOrder /\ HaveRows

-----------------------------------------------------------------------------
LEMMA CategoryFacts ==
    ASSUME NEW c \in Categories
    PROVE  /\ c \in Nat /\ Len(Rows[c]) \in Nat \ {0}
           /\ DOMAIN Rows[c] = 1 .. Len(Rows[c])
           /\ \A v \in DOMAIN Rows[c] : /\ Rows[c][v] \in Seq(Tool)
                                       /\ Len(Rows[c][v]) <= MaxRows
<1>1. c \in Nat
  <2> DEFINE n == Cardinality(Categories)
  <2>1. n \in Nat /\ c \in 1 .. n
    BY ToolsAssumption, FS_CardinalityType
  <2> HIDE DEF n
  <2> QED  BY <2>1
<1>2. Rows[c] # <<>> /\ Rows[c] \in Seq(Seq(Tool))
  BY RowsAssumption
<1> QED
  BY <1>1, <1>2, RowsAssumption

LEMMA PageSizes ==
    /\ MaxPerPage \in Nat /\ DefaultPerPage \in Nat
    /\ DefaultPerPage > 0 /\ DefaultPerPage <= MaxPerPage
  BY ToolsAssumption

LEMMA ToolsInitInv == ToolsInit => ToolsInv
<1>1. ASSUME NEW c \in Categories PROVE Len(Rows[c]) \in Nat \ {0}
  BY CategoryFacts
<1> QED
  BY <1>1, ToolsAssumption
     DEF ToolsInit, ToolsInv, ToolsTypeOK, ToolsInOrder, HaveRows, NoTools

(* ToolsInv is inductive: one step per action.                             *)
LEMMA ToolsStepInv == ToolsInv /\ [ToolsNext]_toolsVars => ToolsInv'
<1> SUFFICES ASSUME ToolsInv, [ToolsNext]_toolsVars PROVE ToolsInv'
  OBVIOUS
<1> USE ToolsAssumption
        DEF ToolsInv, ToolsTypeOK, ToolsInOrder, HaveRows, NoTools, ToolSyncEnds
<1>1. CASE BeginToolSync
  BY <1>1 DEF BeginToolSync
<1>2. CASE FetchFile
  <2>1. PICK c \in Categories :
          IF Rows[c][toolSource[c]] = <<>> THEN ToolSyncEnds
          ELSE /\ toolGot' = [toolGot EXCEPT ![c] = toolSource[c]]
               /\ UNCHANGED toolPc
    BY <1>2 DEF FetchFile
  <2>2. /\ toolPc = "fetch"
        /\ UNCHANGED <<toolSource, toolSnap, toolFloor, toolFaults,
                       toolRestarts>>
    BY <1>2 DEF FetchFile
  <2>3. CASE ToolSyncEnds
    BY <2>2, <2>3
  <2>4. CASE /\ Rows[c][toolSource[c]] # <<>>
             /\ toolGot' = [toolGot EXCEPT ![c] = toolSource[c]]
             /\ UNCHANGED toolPc
    <3>1. /\ toolGot' \in [Categories -> Nat]
          /\ toolGot'[c] = toolSource[c]
          /\ \A d \in Categories \ {c} : toolGot'[d] = toolGot[d]
      BY <2>4
    <3>2. toolPc' = "fetch"
      BY <2>2, <2>4
    <3>3. ToolsTypeOK'
      BY <2>2, <3>1, <3>2
    <3>4. HaveRows'
      BY <2>2, <2>4, <3>1
    <3>5. ToolsInOrder'
      <4>1. toolFloor[c] <= toolSource[c] /\ toolSource[c] <= toolSource[c]
        BY <2>2
      <4> QED  BY <2>2, <3>1, <3>2, <4>1
    <3> QED  BY <3>3, <3>4, <3>5
  <2> QED  BY <2>1, <2>3, <2>4
<1>3. CASE ToolFault
  BY <1>3 DEF ToolFault
<1>4. CASE ReplaceTools
  BY <1>4 DEF ReplaceTools, FetchedAll
<1>5. CASE ToolsMidnight
  BY <1>5 DEF ToolsMidnight
<1>6. CASE StartWalk \/ GetPage \/ EndWalk
  BY <1>6 DEF StartWalk, GetPage, EndWalk
<1>7. ASSUME NEW c \in Categories, EditFile(c) PROVE ToolsInv'
  <2>1. Len(Rows[c]) \in Nat
    BY CategoryFacts
  <2> QED  BY <1>7, <2>1 DEF EditFile
<1>8. CASE RestartTools
  BY <1>8 DEF RestartTools
<1>9. CASE UNCHANGED toolsVars
  BY <1>9 DEF toolsVars
<1> QED
  BY <1>1, <1>2, <1>3, <1>4, <1>5, <1>6, <1>7, <1>8, <1>9
     DEF ToolsNext, ToolsScheduler

-----------------------------------------------------------------------------
LEMMA ToolsInvariant == ToolsSpec => []ToolsInv
  BY ToolsInitInv, ToolsStepInv, PTL DEF ToolsSpec

-----------------------------------------------------------------------------
LEMMA ToolsMirrorInit == ToolsInit => ToolsMirrorOf!Init
  BY DEF ToolsInit, ToolsMirrorOf!Init, ToolsMirrorOf!Nothing, NoTools

(* Every step is one of Mirror's or changes nothing it shows: ReplaceTools *)
(* is a publication, BeginToolSync notes where upstream stands.            *)
LEMMA ToolsMirrorStep ==
    ToolsInv /\ [ToolsNext]_toolsVars
      => [ToolsMirrorOf!Next]_(ToolsMirrorOf!vars)
<1> SUFFICES ASSUME ToolsInv, [ToolsNext]_toolsVars
             PROVE  [ToolsMirrorOf!Next]_(ToolsMirrorOf!vars)
  OBVIOUS
<1> USE DEF ToolsMirrorOf!Next, ToolsMirrorOf!vars
<1>1. CASE BeginToolSync
  BY <1>1 DEF BeginToolSync, ToolsMirrorOf!Begin
<1>2. CASE ReplaceTools
  <2>1. \A c \in Categories : /\ toolSnap'[c] \in toolFloor[c] .. toolSource[c]
                              /\ toolSnap'[c] > 0
                              /\ toolSnap'[c] >= toolSnap[c]
    BY <1>2 DEF ReplaceTools, FetchedAll, ToolsInv, ToolsTypeOK, ToolsInOrder
  <2>2. UNCHANGED <<toolSource, toolFloor>>
    BY <1>2 DEF ReplaceTools
  <2> QED  BY <2>1, <2>2 DEF ToolsMirrorOf!Publish
<1>3. ASSUME NEW c \in Categories, EditFile(c)
      PROVE  [ToolsMirrorOf!Next]_(ToolsMirrorOf!vars)
  BY <1>3 DEF EditFile, ToolsMirrorOf!Edit
<1>4. CASE RestartTools
  BY <1>4 DEF RestartTools, ToolsMirrorOf!Lose, ToolsMirrorOf!Nothing, NoTools
<1>5. CASE FetchFile \/ ToolFault \/ ToolsMidnight
  BY <1>5 DEF FetchFile, ToolFault, ToolsMidnight
<1>6. CASE StartWalk \/ GetPage \/ EndWalk \/ UNCHANGED toolsVars
  BY <1>6 DEF StartWalk, GetPage, EndWalk, toolsVars
<1> QED
  BY <1>1, <1>2, <1>3, <1>4, <1>5, <1>6 DEF ToolsNext, ToolsScheduler

(* The catalog is a mirror of the source files: it is replaced whole, with *)
(* files no older than when the sync began, and never goes back, however   *)
(* syncs fail and upstream changes (Sync, service.go:140).                 *)
THEOREM CatalogIsAMirror == ToolsSpec => ToolsMirror
  BY ToolsInvariant, ToolsMirrorInit, ToolsMirrorStep, PTL
     DEF ToolsSpec, ToolsMirror, ToolsMirrorOf!Spec

-----------------------------------------------------------------------------
(* A snapshot of file versions there are.                                  *)
RowsSnap(snap) ==
    /\ snap \in [Categories -> Nat]
    /\ \A c \in Categories : snap[c] <= Len(Rows[c])

LEMMA SnapIsOfRows == ToolsInv => RowsSnap(toolSnap)
<1>1. ASSUME NEW c \in Categories PROVE Len(Rows[c]) \in Nat
  BY CategoryFacts
<1> QED
  BY <1>1 DEF ToolsInv, ToolsTypeOK, ToolsInOrder, RowsSnap

(* Its rows, each known by its category and its place, are no more than    *)
(* an int can count.                                                       *)
LEMMA ToolFacts ==
    ASSUME NEW snap, RowsSnap(snap)
    PROVE  /\ \A t \in ToolsIn(snap) :
                  /\ t.category \in Categories /\ t.category \in Nat
                  /\ t.at \in Nat
                  /\ t.row.id \in Nat /\ t.row.name \in Nat
                  /\ t.row.updated \in Nat
                  /\ t = [row |-> Rows[t.category][snap[t.category]][t.at],
                          category |-> t.category, at |-> t.at]
           /\ IsFiniteSet(ToolsIn(snap))
           /\ Cardinality(ToolsIn(snap)) \in Nat
           /\ Cardinality(ToolsIn(snap)) + MaxPerPage <= MaxInt
<1> DEFINE T == ToolsIn(snap)
           P == Categories \X (1 .. MaxRows)
           place == [t \in T |-> <<t.category, t.at>>]
<1>1. ASSUME NEW t \in T
      PROVE  /\ t.category \in Categories /\ t.category \in Nat
             /\ t.at \in Nat /\ t.at \in 1 .. MaxRows
             /\ t.row.id \in Nat /\ t.row.name \in Nat
             /\ t.row.updated \in Nat
             /\ t = [row |-> Rows[t.category][snap[t.category]][t.at],
                     category |-> t.category, at |-> t.at]
  <2>1. PICK c \in Categories :
            /\ snap[c] # 0
            /\ \E i \in DOMAIN Rows[c][snap[c]] :
                   t = [row |-> Rows[c][snap[c]][i], category |-> c,
                        at |-> i]
    BY DEF ToolsIn
  <2>2. PICK i \in DOMAIN Rows[c][snap[c]] :
            t = [row |-> Rows[c][snap[c]][i], category |-> c, at |-> i]
    BY <2>1
  <2>3. snap[c] \in DOMAIN Rows[c]
    BY <2>1, CategoryFacts DEF RowsSnap
  <2>4. Rows[c][snap[c]] \in Seq(Tool) /\ Len(Rows[c][snap[c]]) <= MaxRows
    BY <2>3, CategoryFacts
  <2>5. i \in Nat /\ i \in 1 .. MaxRows /\ Rows[c][snap[c]][i] \in Tool
    BY <2>4, IntAssumption
  <2>6. c \in Nat
    BY CategoryFacts
  <2> QED
    BY <2>2, <2>5, <2>6 DEF Tool
<1>2. place \in Injection(T, P)
  <2>1. place \in [T -> P]
    BY <1>1
  <2>2. \A s, t \in T : place[s] = place[t] => s = t
    <3>1. ASSUME NEW s \in T, NEW t \in T, place[s] = place[t]
          PROVE  s = t
      <4>1. s.category = t.category /\ s.at = t.at
        BY <3>1
      <4> QED  BY <1>1, <4>1
    <3> QED  BY <3>1
  <2> QED  BY <2>1, <2>2 DEF Injection, IsInjective
<1>3. /\ IsFiniteSet(P)
      /\ Cardinality(P) = Cardinality(Categories) * MaxRows
  <2>1. IsFiniteSet(1 .. MaxRows) /\ Cardinality(1 .. MaxRows) = MaxRows
    <3>1. /\ IsFiniteSet(1 .. MaxRows)
          /\ Cardinality(1 .. MaxRows)
               = IF 1 > MaxRows THEN 0 ELSE MaxRows - 1 + 1
      BY IntAssumption, FS_Interval
    <3> QED  BY <3>1, IntAssumption
  <2> QED  BY <2>1, ToolsAssumption, FS_Product
<1>4. IsFiniteSet(T) /\ Cardinality(T) <= Cardinality(P)
  BY <1>2, <1>3, FS_Injection
<1>5. Cardinality(T) \in Nat /\ Cardinality(P) \in Nat
  BY <1>3, <1>4, FS_CardinalityType
<1> QED
  BY <1>1, <1>3, <1>4, <1>5, ToolsAssumption, IntAssumption

(* The order of the list a request asks for; whatever it sorts by, it is   *)
(* strict.                                                                 *)
ListOrder(snap, f) ==
    {p \in Matching(snap, f) \X Matching(snap, f) :
         ListedFirst(p[1], p[2], f)}

LEMMA ToolOrders ==
    ASSUME NEW snap, RowsSnap(snap), NEW f
    PROVE  /\ IsFiniteSet(Matching(snap, f))
           /\ StrictOrder(Matching(snap, f), ListOrder(snap, f))
           /\ StoreList(snap, f)
                = InOrderOf(Matching(snap, f), ListOrder(snap, f))
<1> DEFINE M == Matching(snap, f)
           First(s, t) == ListedFirst(s, t, f)
<1>1. ASSUME NEW t \in M
      PROVE  /\ t.category \in Nat /\ t.at \in Nat /\ t.row.id \in Nat
             /\ SortKey(t, f.sort) \in Nat
             /\ t \in ToolsIn(snap)
  BY ToolFacts DEF Matching, SortKey
<1>2. ASSUME NEW s \in M, NEW t \in M, s # t
      PROVE  s.category # t.category \/ s.at # t.at
  BY <1>1, <1>2, ToolFacts
<1>3. IsFiniteSet(M)
  <2>1. M \subseteq ToolsIn(snap)
    BY DEF Matching
  <2> QED  BY <2>1, ToolFacts, FS_Subset
<1> HIDE DEF M
<1>4. /\ \A s \in M : ~InCatalog(s, s)
      /\ \A s, t \in M : s # t => InCatalog(s, t) \/ InCatalog(t, s)
      /\ \A s, t, u \in M :
             InCatalog(s, t) /\ InCatalog(t, u) => InCatalog(s, u)
  <2>1. \A s \in M : ~InCatalog(s, s)
    BY <1>1 DEF InCatalog
  <2>2. ASSUME NEW s \in M, NEW t \in M, s # t
        PROVE  InCatalog(s, t) \/ InCatalog(t, s)
    <3>1. /\ s.category \in Nat /\ s.at \in Nat
          /\ t.category \in Nat /\ t.at \in Nat
          /\ s.category # t.category \/ s.at # t.at
      BY <1>1, <1>2, <2>2
    <3> QED  BY <3>1 DEF InCatalog
  <2>3. ASSUME NEW s \in M, NEW t \in M, NEW u \in M,
               InCatalog(s, t), InCatalog(t, u)
        PROVE  InCatalog(s, u)
    <3>1. /\ s.category \in Nat /\ s.at \in Nat
          /\ t.category \in Nat /\ t.at \in Nat
          /\ u.category \in Nat /\ u.at \in Nat
      BY <1>1
    <3> QED  BY <2>3, <3>1 DEF InCatalog
  <2> QED  BY <2>1, <2>2, <2>3
<1>5. /\ \A s \in M : ~Before(s, s, f)
      /\ \A s, t \in M : Before(s, t, f) => ~Before(t, s, f)
      /\ \A s, t, u \in M :
           /\ Before(s, t, f) /\ ~Before(u, t, f) => Before(s, u, f)
           /\ ~Before(t, s, f) /\ Before(t, u, f) => Before(s, u, f)
           /\ ~Before(t, s, f) /\ ~Before(u, t, f) => ~Before(u, s, f)
  <2>1. \A s \in M : ~Before(s, s, f)
    BY <1>1 DEF Before
  <2>2. ASSUME NEW s \in M, NEW t \in M, NEW u \in M
        PROVE  /\ Before(s, t, f) => ~Before(t, s, f)
               /\ Before(s, t, f) /\ ~Before(u, t, f) => Before(s, u, f)
               /\ ~Before(t, s, f) /\ Before(t, u, f) => Before(s, u, f)
               /\ ~Before(t, s, f) /\ ~Before(u, t, f) => ~Before(u, s, f)
    <3> DEFINE by(x) == SortKey(x, f.sort)
    <3>1. /\ by(s) \in Nat /\ by(t) \in Nat /\ by(u) \in Nat
          /\ s.row.id \in Nat /\ t.row.id \in Nat /\ u.row.id \in Nat
      BY <1>1
    <3>2. \A x, y \in {s, t, u} :
              Before(x, y, f) <=>
                  IF by(x) = by(y) THEN x.row.id < y.row.id
                  ELSE IF f.order = "desc" THEN by(x) > by(y)
                  ELSE by(x) < by(y)
      BY DEF Before
    <3> HIDE DEF by
    <3> QED  BY <3>1, <3>2
  <2> QED  BY <2>1, <2>2
<1>6. /\ \A s \in M : ~First(s, s)
      /\ \A s, t \in M : s # t => First(s, t) \/ First(t, s)
      /\ \A s, t, u \in M : First(s, t) /\ First(t, u) => First(s, u)
  <2>1. CASE f.sort = ""
    <3>1. \A s, t : First(s, t) <=> InCatalog(s, t)
      BY <2>1 DEF ListedFirst
    <3> HIDE DEF First
    <3> QED  BY <1>4, <3>1
  <2>2. CASE f.sort # ""
    <3>1. \A s, t : First(s, t) <=> \/ Before(s, t, f)
                                    \/ ~Before(t, s, f) /\ InCatalog(s, t)
      BY <2>2 DEF ListedFirst
    <3> HIDE DEF First
    <3>2. \A s \in M : ~First(s, s)
      BY <1>4, <1>5, <3>1
    <3>3. \A s, t \in M : s # t => First(s, t) \/ First(t, s)
      BY <1>4, <3>1
    <3>4. ASSUME NEW s \in M, NEW t \in M, NEW u \in M,
                 First(s, t), First(t, u)
          PROVE  First(s, u)
      BY <1>4, <1>5, <3>1, <3>4
    <3> QED  BY <3>2, <3>3, <3>4
  <2> QED  BY <2>1, <2>2
<1>7. ListOrder(snap, f) = {p \in M \X M : First(p[1], p[2])}
  BY DEF ListOrder, M
<1>8. StrictOrder(M, ListOrder(snap, f))
  <2> HIDE DEF First
  <2> QED  BY <1>6, <1>7 DEF StrictOrder
<1>9. StoreList(snap, f) = InOrderOf(M, ListOrder(snap, f))
  BY DEF StoreList, SortedBy, OrderOf, ListOrder, M
<1> QED
  BY <1>3, <1>8, <1>9 DEF M

(* From the first sync on every category is listed from a file version     *)
(* that had rows, whatever upstream makes of the file since (fetchFile,    *)
(* service.go:156).                                                        *)
THEOREM CategoriesKeepRows == ToolsSpec => []CategoriesNeverBlank
<1>1. ASSUME ToolsInv, toolSnap # NoTools, NEW c \in Categories
      PROVE  StoreList(toolSnap, [category |-> c, query |-> "", sort |-> ""])
               # <<>>
  <2> DEFINE f == [category |-> c, query |-> "", sort |-> ""]
             rows == Rows[c][toolSnap[c]]
             t == [row |-> rows[1], category |-> c, at |-> 1]
  <2>1. RowsSnap(toolSnap)
    BY <1>1, SnapIsOfRows
  <2>2. toolSnap[c] # 0 /\ rows # <<>>
    BY <1>1 DEF ToolsInv, HaveRows
  <2>3. 1 \in DOMAIN rows
    <3>1. toolSnap[c] \in DOMAIN Rows[c]
      BY <2>1, <2>2, CategoryFacts DEF RowsSnap
    <3>2. rows \in Seq(Tool)
      BY <3>1, CategoryFacts
    <3> QED  BY <2>2, <3>2
  <2>4. t \in ToolsIn(toolSnap)
    <3> DEFINE rowsOf(d) == {[row |-> Rows[d][toolSnap[d]][i],
                              category |-> d, at |-> i]
                             : i \in DOMAIN Rows[d][toolSnap[d]]}
    <3>1. t \in rowsOf(c)
      BY <2>3
    <3>2. c \in {d \in Categories : toolSnap[d] # 0}
      BY <2>2
    <3>3. ToolsIn(toolSnap)
            = UNION {rowsOf(d) : d \in {e \in Categories : toolSnap[e] # 0}}
      BY DEF ToolsIn
    <3> HIDE DEF rowsOf
    <3> QED  BY <3>1, <3>2, <3>3
  <2>5. t \in Matching(toolSnap, f)
    BY <2>4 DEF Matching, MatchesFilter
  <2>6. IsFiniteSet(Matching(toolSnap, f))
    BY <2>1, ToolOrders
  <2> QED
    BY <2>5, <2>6, InOrderEmpty DEF StoreList, SortedBy
<1>2. ToolsInv => CategoriesNeverBlank
  BY <1>1 DEF CategoriesNeverBlank
<1> QED
  BY <1>2, ToolsInvariant, PTL

-----------------------------------------------------------------------------
LEMMA DivFacts ==
    ASSUME NEW a \in Nat, NEW b \in Nat \ {0}
    PROVE  /\ a \div b \in Nat
           /\ (a \div b) * b <= a /\ a < (a \div b) * b + b
  OBVIOUS

LEMMA TimesGrows ==
    ASSUME NEW a \in Nat, NEW b \in Nat, a <= b, NEW k \in Nat
    PROVE  a * k \in Nat /\ b * k \in Nat /\ a * k <= b * k
  OBVIOUS

(* Within the range of an int nothing wraps.                               *)
LEMMA NoWrap == ASSUME NEW n \in 0 .. MaxInt PROVE Wrap(n) = n
<1> DEFINE a == n + MaxInt + 1
           m == 2 * (MaxInt + 1)
<1>1. a \in Nat /\ m \in Nat \ {0} /\ a < m
  BY IntAssumption
<1> HIDE DEF a, m
<1>2. a % m = a
  BY <1>1
<1> QED
  BY <1>2, IntAssumption DEF Wrap, a, m

(* What pageRows slices: nothing for a page past the end, else the rows of *)
(* the page, of which there is one at least.                               *)
LEMMA PageFacts ==
    ASSUME NEW total \in Nat, total + MaxPerPage <= MaxInt,
           NEW pnum \in Nat \ {0}, NEW perPage \in 1 .. MaxPerPage
    PROVE  LET pages == TotalPages(total, perPage)
               bounds == PageBounds(total, pnum, perPage)
           IN  /\ pnum <= pages => /\ (pnum - 1) * perPage < total
                                   /\ (pnum - 1) * perPage \in Nat
               /\ pnum >= pages => pnum * perPage >= total
               /\ pnum > pages => /\ (pnum - 1) * perPage >= total
                                  /\ bounds[1] = 0 /\ bounds[2] = 0
               /\ pnum <= pages =>
                      /\ bounds[1] = (pnum - 1) * perPage
                      /\ bounds[2] = IF pnum * perPage > total THEN total
                                     ELSE pnum * perPage
<1> DEFINE pages == TotalPages(total, perPage)
           a == total + perPage - 1
           q == a \div perPage
           first == (pnum - 1) * perPage
<1>1. /\ perPage \in Nat \ {0} /\ a \in Nat /\ a \in 0 .. MaxInt
      /\ MaxInt \in Nat /\ MaxPerPage \in Nat /\ pnum - 1 \in Nat
  BY ToolsAssumption, IntAssumption
<1>2. pages = q
  BY <1>1, NoWrap DEF TotalPages
<1>3. q \in Nat /\ q * perPage <= a /\ a < q * perPage + perPage
  BY <1>1, DivFacts
<1> HIDE DEF q, pages
<1>4. first \in Nat /\ pnum * perPage = first + perPage
  BY <1>1
<1>5. pnum <= q => first < total
  <2>1. pnum <= q => pnum * perPage <= q * perPage
    BY <1>1, <1>3, TimesGrows
  <2>2. q * perPage \in Nat /\ pnum * perPage \in Nat
    BY <1>1, <1>3
  <2> HIDE DEF first
  <2> QED  BY <1>1, <1>3, <1>4, <2>1, <2>2
<1>6. pnum >= q => pnum * perPage >= total
  <2>1. q <= pnum => q * perPage <= pnum * perPage
    BY <1>1, <1>3, TimesGrows
  <2>2. q * perPage \in Nat /\ pnum * perPage \in Nat
    BY <1>1, <1>3
  <2> QED  BY <1>1, <1>3, <2>1, <2>2
<1>7. pnum > q => first >= total
  <2>1. q <= pnum - 1 => q * perPage <= first
    BY <1>1, <1>3, TimesGrows
  <2>2. q * perPage \in Nat
    BY <1>1, <1>3
  <2> HIDE DEF first
  <2> QED  BY <1>1, <1>3, <1>4, <2>1, <2>2
<1>8. CASE pnum > pages
  <2>1. PageBounds(total, pnum, perPage) = <<0, 0>>
    BY <1>8 DEF PageBounds, pages
  <2>2. /\ PageBounds(total, pnum, perPage)[1] = 0
        /\ PageBounds(total, pnum, perPage)[2] = 0
    BY <2>1
  <2> QED
    BY <1>1, <1>2, <1>3, <1>4, <1>6, <1>7, <1>8, <2>2 DEF pages
<1>9. CASE pnum <= pages
  <2>1. first < total /\ first \in Nat
    BY <1>2, <1>4, <1>5, <1>9
  <2>2. pnum - 1 <= first
    BY <1>1
  <2>3. Wrap(pnum - 1) = pnum - 1
    BY <1>1, <2>1, <2>2, NoWrap
  <2>4. Wrap(first) = first /\ Wrap(first + perPage) = first + perPage
    <3> HIDE DEF first
    <3>1. first \in 0 .. MaxInt /\ first + perPage \in 0 .. MaxInt
      BY <1>1, <2>1
    <3> QED  BY <3>1, NoWrap
  <2>5. PageBounds(total, pnum, perPage)
          = <<first, IF first + perPage > total THEN total
                     ELSE first + perPage>>
    BY <1>1, <1>2, <1>3, <1>9, <2>3, <2>4 DEF PageBounds, pages
  <2>6. /\ PageBounds(total, pnum, perPage)[1] = first
        /\ PageBounds(total, pnum, perPage)[2]
             = IF first + perPage > total THEN total ELSE first + perPage
    BY <2>5
  <2> QED
    BY <1>1, <1>2, <1>3, <1>4, <1>6, <1>9, <2>1, <2>6 DEF pages
<1> QED
  BY <1>1, <1>2, <1>3, <1>8, <1>9

(* No page a request may ask for makes pageRows slice outside the rows,    *)
(* however many rows the files hold and however great the page number is   *)
(* (service.go:250).                                                       *)
THEOREM PagesStayInside == ToolsSpec => []NoPageOutOfRange
<1>1. ASSUME ToolsInv,
             NEW pnum \in 1 .. MaxInt, NEW perPage \in 1 .. MaxPerPage
      PROVE  LET total == Cardinality(ToolsIn(toolSnap))
                 b == PageBounds(total, pnum, perPage)
             IN  0 <= b[1] /\ b[1] <= b[2] /\ b[2] <= total
  <2> DEFINE total == Cardinality(ToolsIn(toolSnap))
             b == PageBounds(total, pnum, perPage)
             pages == TotalPages(total, perPage)
  <2>1. total \in Nat /\ total + MaxPerPage <= MaxInt
    BY <1>1, SnapIsOfRows, ToolFacts
  <2>2. pnum \in Nat \ {0} /\ perPage \in Nat /\ pnum * perPage \in Nat
    BY ToolsAssumption, IntAssumption
  <2>3. pnum * perPage = (pnum - 1) * perPage + perPage
    BY <2>2
  <2> HIDE DEF total
  <2>4. /\ pnum <= pages => /\ (pnum - 1) * perPage < total
                            /\ (pnum - 1) * perPage \in Nat
        /\ pnum > pages => b[1] = 0 /\ b[2] = 0
        /\ pnum <= pages =>
               /\ b[1] = (pnum - 1) * perPage
               /\ b[2] = IF pnum * perPage > total THEN total
                         ELSE pnum * perPage
    BY <2>1, <2>2, PageFacts
  <2>5. pages \in Int
    <3>1. total + perPage - 1 \in 0 .. MaxInt
      BY <2>1, <2>2, ToolsAssumption, IntAssumption
    <3>2. Wrap(total + perPage - 1) \in Nat
      BY <3>1, NoWrap, IntAssumption
    <3> QED  BY <2>2, <3>2 DEF TotalPages
  <2>6. 0 <= b[1] /\ b[1] <= b[2] /\ b[2] <= total
    <3> HIDE DEF b, pages
    <3> QED  BY <2>1, <2>2, <2>3, <2>4, <2>5
  <2> QED  BY <2>6 DEF total
<1>2. ToolsInv => NoPageOutOfRange
  BY <1>1 DEF NoPageOutOfRange
<1> QED
  BY <1>2, ToolsInvariant, PTL

-----------------------------------------------------------------------------
(* The list does not depend on the page that is asked for.                 *)
LEMMA ListOfAnyPage ==
    ASSUME NEW snap, RowsSnap(snap), NEW f, NEW g,
           g.category = f.category, g.query = f.query,
           g.sort = f.sort, g.order = f.order
    PROVE  StoreList(snap, g) = StoreList(snap, f)
<1>1. Matching(snap, g) = Matching(snap, f)
  BY DEF Matching, MatchesFilter
<1>2. \A s, t : ListedFirst(s, t, g) <=> ListedFirst(s, t, f)
  BY DEF ListedFirst, Before
<1>3. ListOrder(snap, g) = ListOrder(snap, f)
  BY <1>1, <1>2 DEF ListOrder
<1> QED
  BY <1>1, <1>3, ToolOrders

LEMMA ListFacts ==
    ASSUME NEW snap, RowsSnap(snap), NEW f
    PROVE  LET M == Matching(snap, f)
               all == StoreList(snap, f)
           IN  /\ all \in Seq(M) /\ Len(all) = Cardinality(M)
               /\ Len(all) + MaxPerPage <= MaxInt
               /\ {all[i] : i \in DOMAIN all} = M
               /\ \A i, j \in DOMAIN all :
                      i < j => ListedFirst(all[i], all[j], f)
<1> DEFINE M == Matching(snap, f)
           R == ListOrder(snap, f)
           all == StoreList(snap, f)
<1>1. IsFiniteSet(M) /\ StrictOrder(M, R) /\ all = InOrderOf(M, R)
  BY ToolOrders
<1>2. Cardinality(M) <= Cardinality(ToolsIn(snap))
  <2>1. M \subseteq ToolsIn(snap)
    BY DEF Matching
  <2> QED  BY <2>1, ToolFacts, FS_Subset
<1>3. \A s, t : <<s, t>> \in R => ListedFirst(s, t, f)
  BY DEF ListOrder
<1> HIDE DEF M, R, all
<1>4. /\ all \in Seq(M) /\ Len(all) = Cardinality(M)
      /\ Cardinality(M) \in Nat
      /\ \A x \in M : \E k \in DOMAIN all : all[k] = x
      /\ \A k \in DOMAIN all : all[k] \in M
      /\ \A i, j \in DOMAIN all : i < j => <<all[i], all[j]>> \in R
  BY <1>1, InOrderFacts
<1>5. {all[i] : i \in DOMAIN all} = M
  BY <1>4
<1>6. Len(all) + MaxPerPage <= MaxInt
  BY <1>2, <1>4, ToolFacts, ToolsAssumption, IntAssumption
<1>7. \A i, j \in DOMAIN all : i < j => ListedFirst(all[i], all[j], f)
  BY <1>3, <1>4
<1> QED
  BY <1>4, <1>5, <1>6, <1>7 DEF M, all

(* One more page is the next piece of the list; the last of them ends it.  *)
LEMMA PrefixJoins ==
    ASSUME NEW S, NEW all \in Seq(S), NEW n \in Nat, n = Len(all),
           NEW had \in Nat, NEW end \in Nat, had <= end, end <= n
    PROVE  SubSeq(all, 1, had) \o SubSeq(all, had + 1, end)
             = SubSeq(all, 1, end)
<1>1. end <= Len(all)
  OBVIOUS
<1> QED
  BY <1>1, PrefixGrows

LEMMA PieceJoins ==
    ASSUME NEW S, NEW all \in Seq(S), NEW n \in Nat, n = Len(all),
           NEW p \in Nat, NEW pages \in Nat, NEW had \in Nat, NEW end \in Nat,
           had <= n, had <= end,
           p >= pages => end >= n, p > pages => had >= n,
           p < pages => end < n,
           NEW lo \in Nat, NEW hi \in Nat,
           p > pages => lo = 0 /\ hi = 0,
           p <= pages => lo = had /\ hi = IF end > n THEN n ELSE end
    PROVE  LET rows == SubSeq(all, 1, had) \o SubSeq(all, lo + 1, hi)
           IN  IF p >= pages THEN rows = all
               ELSE end <= n /\ rows = SubSeq(all, 1, end)
<1>1. CASE p > pages
  <2>1. had = n /\ lo = 0 /\ hi = 0
    BY <1>1
  <2>2. SubSeq(all, lo + 1, hi) = <<>>
    BY <2>1
  <2>3. SubSeq(all, 1, had) = all
    BY <2>1, PrefixGrows
  <2> QED  BY <1>1, <2>2, <2>3
<1>2. CASE p <= pages
  <2>1. lo = had /\ hi <= n /\ had <= hi
    BY <1>2
  <2>2. SubSeq(all, 1, had) \o SubSeq(all, lo + 1, hi) = SubSeq(all, 1, hi)
    BY <2>1, PrefixJoins
  <2>3. p >= pages => hi = n
    BY <1>2
  <2>4. p < pages => hi = end /\ end <= n
    BY <1>2
  <2>5. hi = n => SubSeq(all, 1, hi) = all
    BY PrefixGrows
  <2> QED  BY <2>2, <2>3, <2>4, <2>5
<1> QED  BY <1>1, <1>2

LEMMA NextPiece ==
    ASSUME NEW S, NEW all \in Seq(S), NEW n \in Nat, n = Len(all),
           n + MaxPerPage <= MaxInt,
           NEW p \in Nat \ {0}, NEW k \in 1 .. MaxPerPage,
           NEW had \in Nat, had = (p - 1) * k, had <= n
    PROVE  LET rows == SubSeq(all, 1, had) \o PageRows(all, p, k)
           IN  IF p >= TotalPages(n, k) THEN rows = all
               ELSE p * k <= n /\ rows = SubSeq(all, 1, p * k)
<1>1. k \in Nat /\ p * k \in Nat /\ p * k = had + k
  BY PageSizes
<1>2. TotalPages(n, k) \in Nat
  <2>1. n + k - 1 \in 0 .. MaxInt
    BY <1>1, PageSizes, IntAssumption
  <2>2. Wrap(n + k - 1) \in Nat
    BY <2>1, NoWrap, IntAssumption
  <2> QED  BY <2>2, DivFacts DEF TotalPages
<1>3. PICK pages \in Nat : pages = TotalPages(n, k)
  BY <1>2
<1>4. PICK end \in Nat : end = p * k /\ had <= end
  BY <1>1
<1>5. PICK lo, hi \in Nat :
          /\ lo = PageBounds(n, p, k)[1] /\ hi = PageBounds(n, p, k)[2]
          /\ p >= pages => end >= n
          /\ p > pages => had >= n /\ lo = 0 /\ hi = 0
          /\ p <= pages => lo = had /\ hi = IF end > n THEN n ELSE end
  <2>1. PICK a, b : /\ a = PageBounds(n, p, k)[1]
                    /\ b = PageBounds(n, p, k)[2]
    OBVIOUS
  <2>2. /\ p >= pages => end >= n
        /\ p > pages => had >= n /\ a = 0 /\ b = 0
        /\ p <= pages => a = had /\ b = IF end > n THEN n ELSE end
    BY <1>3, <1>4, <2>1, PageFacts
  <2>3. a \in Nat /\ b \in Nat
    BY <2>2
  <2> QED  BY <2>1, <2>2, <2>3
<1>6. /\ p >= pages => end >= n
      /\ p > pages => had >= n /\ lo = 0 /\ hi = 0
      /\ p <= pages => lo = had /\ hi = IF end > n THEN n ELSE end
  BY <1>5
<1>7. p < pages => end < n
  <2>1. p + 1 <= pages => (p + 1 - 1) * k < n
    BY <1>3, PageFacts
  <2> QED  BY <1>3, <1>4, <2>1
<1>8. PageRows(all, p, k) = SubSeq(all, lo + 1, hi)
  BY <1>5 DEF PageRows
<1>9. IF p >= pages
      THEN SubSeq(all, 1, had) \o SubSeq(all, lo + 1, hi) = all
      ELSE /\ end <= n
           /\ SubSeq(all, 1, had) \o SubSeq(all, lo + 1, hi)
                = SubSeq(all, 1, end)
  BY <1>4, <1>6, <1>7, PieceJoins
<1> QED
  BY <1>3, <1>4, <1>8, <1>9

(* What a client that walks the pages has had so far, while the snapshot   *)
(* stays as it was: the pages before the next one.                         *)
PageOK(f) == f.page \in Nat \ {0} /\ f.perPage \in 1 .. MaxPerPage

SortOK(f) == f.sort # "" => f.order \in {"asc", "desc"}

FilterOK(f) ==
    /\ f = [category |-> f.category, query |-> f.query, sort |-> f.sort,
            order |-> f.order, page |-> f.page, perPage |-> f.perPage]
    /\ PageOK(f) /\ SortOK(f)

Walked ==
    LET f == walk.filter
        all == StoreList(toolSnap, f)
        had == (f.page - 1) * f.perPage
    IN  /\ FilterOK(f)
        /\ IF walk.at = "done" THEN walk.rows = all
           ELSE had <= Len(all) /\ walk.rows = SubSeq(all, 1, had)

WalkInv ==
    /\ walk = [at |-> walk.at, rows |-> walk.rows,
               replaced |-> walk.replaced, filter |-> walk.filter]
    /\ walk.replaced \in BOOLEAN
    /\ walk.at \in {"idle", "page", "done"}
    /\ walk.at # "idle" /\ ~walk.replaced => Walked

LEMMA WalkInitInv == ToolsInit => WalkInv
  BY DEF ToolsInit, NoWalk, WalkInv

(* normalizeListOptions lets only these through.                           *)
LEMMA NormalizedFacts ==
    ASSUME NEW raw \in ToolRequests, NEW f \in Normalized(raw)
    PROVE  FilterOK(f) /\ f.page = 1
<1>1. PICK category, text, by, o, p, k :
          /\ p \in Int /\ k \in Int
          /\ raw = [category |-> category, query |-> text, sort |-> by,
                    order |-> o, page |-> p, perPage |-> k]
          /\ p <= 1
  BY RequestsAssumption DEF ListFilter
<1>2. /\ raw.sort = by /\ raw.order = o
      /\ raw.page = p /\ raw.perPage = k
  BY <1>1
<1>3. /\ by # "" => o \in {"", "asc", "desc"}
      /\ ~(p < 0) /\ ~(k < 0) /\ ~(k > MaxPerPage)
      /\ f = [raw EXCEPT !.order = CASE by = "" -> ""
                                     [] o = "" -> "asc"
                                     [] OTHER -> o,
                         !.page = IF p = 0 THEN 1 ELSE p,
                         !.perPage = IF k = 0 THEN DefaultPerPage ELSE k]
  BY <1>2 DEF Normalized
<1>4. PICK pnum : pnum = (IF p = 0 THEN 1 ELSE p) /\ pnum = 1
  <2>1. ~(p < 0)
    BY <1>3
  <2>2. p \in Int /\ p <= 1
    BY <1>1
  <2> QED  BY <2>1, <2>2
<1>5. PICK perPage :
          /\ perPage = (IF k = 0 THEN DefaultPerPage ELSE k)
          /\ perPage \in 1 .. MaxPerPage
  <2>1. ~(k < 0) /\ ~(k > MaxPerPage)
    BY <1>3
  <2>2. k \in Int
    BY <1>1
  <2> QED  BY <2>1, <2>2, PageSizes
<1>6. PICK dir :
          /\ dir = (CASE by = "" -> "" [] o = "" -> "asc" [] OTHER -> o)
          /\ by # "" => dir \in {"asc", "desc"}
  BY <1>3
<1>7. f = [category |-> category, query |-> text, sort |-> by,
           order |-> dir, page |-> pnum, perPage |-> perPage]
  <2>1. PICK ordered : ordered = [raw EXCEPT !.order = dir]
    OBVIOUS
  <2>2. PICK paged : paged = [ordered EXCEPT !.page = pnum]
    OBVIOUS
  <2>3. f = [paged EXCEPT !.perPage = perPage]
    <3>1. f = [raw EXCEPT !.order = dir, !.page = pnum,
                          !.perPage = perPage]
      BY <1>3, <1>4, <1>5, <1>6
    <3> QED  BY <2>1, <2>2, <3>1, Zenon
  <2>4. raw = [category |-> category, query |-> text, sort |-> by,
               order |-> o, page |-> p, perPage |-> k]
    BY <1>1
  <2>5. ordered = [category |-> category, query |-> text, sort |-> by,
                   order |-> dir, page |-> p, perPage |-> k]
    BY <2>1, <2>4
  <2>6. paged = [category |-> category, query |-> text, sort |-> by,
                 order |-> dir, page |-> pnum, perPage |-> k]
    BY <2>2, <2>5
  <2> QED  BY <2>3, <2>6
<1>8. /\ f.page = pnum /\ f.perPage = perPage /\ f.sort = by
      /\ f.order = dir /\ f.category = category /\ f.query = text
  BY <1>7
<1>9. PageOK(f) /\ f.page = 1
  BY <1>4, <1>5, <1>8 DEF PageOK
<1>10. SortOK(f)
  BY <1>6, <1>8 DEF SortOK
<1>11. f = [category |-> f.category, query |-> f.query, sort |-> f.sort,
            order |-> f.order, page |-> f.page, perPage |-> f.perPage]
  BY <1>7
<1> QED
  BY <1>9, <1>10, <1>11 DEF FilterOK

LEMMA NextPage ==
    ASSUME ToolsInv, WalkInv, ~walk.replaced, GetPage
    PROVE  WalkInv'
<1>1. PICK f, all, p, k, rows :
        /\ f = walk.filter /\ all = StoreList(toolSnap, f)
        /\ p = f.page /\ k = f.perPage /\ rows = walk.rows
  OBVIOUS
<1>2. walk.at = "page" /\ Walked
  BY DEF GetPage, WalkInv
<1>3. PICK category, text, by, dir :
          f = [category |-> category, query |-> text, sort |-> by,
               order |-> dir, page |-> p, perPage |-> k]
  BY <1>1, <1>2 DEF Walked, FilterOK
<1>4. FilterOK(f)
  BY <1>1, <1>2 DEF Walked
<1>5. p \in Nat \ {0} /\ k \in 1 .. MaxPerPage
  BY <1>1, <1>4 DEF FilterOK, PageOK
<1>6. k \in Nat
  BY <1>5, PageSizes
<1>7. (p - 1) * k <= Len(all) /\ rows = SubSeq(all, 1, (p - 1) * k)
  BY <1>1, <1>2 DEF Walked
<1>8. RowsSnap(toolSnap) /\ UNCHANGED toolSnap
  BY SnapIsOfRows DEF GetPage
<1>9. /\ all \in Seq(Matching(toolSnap, f)) /\ Len(all) \in Nat
      /\ Len(all) + MaxPerPage <= MaxInt
  BY <1>1, <1>8, ListFacts
<1>10. PICK next \in Nat \ {0} : next = p + 1 /\ next - 1 = p
  BY <1>5
<1>11. PICK upTo, at, g :
        /\ upTo = rows \o PageRows(all, p, k)
        /\ at = (IF p >= TotalPages(Len(all), k) THEN "done" ELSE "page")
        /\ g = [category |-> category, query |-> text, sort |-> by,
                order |-> dir, page |-> next, perPage |-> k]
  OBVIOUS
<1>12. walk' = [at |-> at, rows |-> upTo, replaced |-> FALSE, filter |-> g]
  <2>1. PICK was : walk = [at |-> was, rows |-> rows, replaced |-> FALSE,
                           filter |-> f]
    BY <1>1 DEF WalkInv
  <2>2. PICK upToPage : upToPage = [f EXCEPT !.page = next] /\ upToPage = g
    BY <1>3, <1>11
  <2>3. walk' = [walk EXCEPT !.rows = upTo, !.filter = upToPage, !.at = at]
    BY <1>1, <1>10, <1>11, <2>2 DEF GetPage
  <2>4. walk' = [at |-> at, rows |-> upTo, replaced |-> FALSE,
                 filter |-> upToPage]
    BY <2>1, <2>3
  <2> QED  BY <2>2, <2>4
<1>13. FilterOK(g) /\ StoreList(toolSnap, g) = all
  <2>1. /\ g.category = f.category /\ g.query = f.query
        /\ g.sort = f.sort /\ g.order = f.order
        /\ g.page = next /\ g.perPage = k
    BY <1>3, <1>11
  <2>2. PageOK(g)
    BY <1>5, <2>1 DEF PageOK
  <2>3. SortOK(g)
    BY <1>4, <2>1 DEF FilterOK, SortOK
  <2>4. g = [category |-> g.category, query |-> g.query, sort |-> g.sort,
             order |-> g.order, page |-> g.page, perPage |-> g.perPage]
    BY <1>11
  <2>5. FilterOK(g)
    BY <2>2, <2>3, <2>4 DEF FilterOK
  <2> QED  BY <1>1, <1>8, <2>1, <2>5, ListOfAnyPage
<1>14. PICK had, end \in Nat : had = (p - 1) * k /\ end = p * k
  BY <1>5, <1>6
<1>15. IF p >= TotalPages(Len(all), k) THEN upTo = all
       ELSE end <= Len(all) /\ upTo = SubSeq(all, 1, end)
  <2>1. PICK n \in Nat : n = Len(all)
    BY <1>9
  <2>2. rows = SubSeq(all, 1, had) /\ had <= n /\ n + MaxPerPage <= MaxInt
    BY <1>7, <1>9, <1>14, <2>1
  <2>3. LET piece == SubSeq(all, 1, had) \o PageRows(all, p, k)
        IN  IF p >= TotalPages(n, k) THEN piece = all
            ELSE p * k <= n /\ piece = SubSeq(all, 1, p * k)
    <3>1. had \in Nat /\ had = (p - 1) * k /\ had <= n
      BY <1>14, <2>2
    <3>2. n = Len(all) /\ n + MaxPerPage <= MaxInt
      BY <2>1, <2>2
    <3>3. all \in Seq(Matching(toolSnap, f))
      BY <1>9
    <3> HIDE <1>1, <1>11
    <3> QED  BY <1>5, <3>1, <3>2, <3>3, NextPiece
  <2>4. upTo = SubSeq(all, 1, had) \o PageRows(all, p, k)
    BY <1>11, <2>2
  <2> QED  BY <1>14, <2>1, <2>3, <2>4
<1>16. Walked'
  <2>1. /\ walk'.filter = g /\ walk'.at = at /\ walk'.rows = upTo
        /\ StoreList(toolSnap', g) = all
    BY <1>8, <1>12, <1>13
  <2>2. (g.page - 1) * g.perPage = end
    <3>1. g.page = next /\ g.perPage = k
      BY <1>11
    <3> QED  BY <1>10, <1>14, <3>1
  <2>3. IF at = "done" THEN upTo = all
        ELSE end <= Len(all) /\ upTo = SubSeq(all, 1, end)
    <3>1. at = "done" => p >= TotalPages(Len(all), k)
      BY <1>11
    <3>2. at # "done" => ~(p >= TotalPages(Len(all), k))
      BY <1>11
    <3> QED  BY <1>15, <3>1, <3>2
  <2> QED  BY <1>13, <2>1, <2>2, <2>3, Zenon DEF Walked
<1> QED
  BY <1>11, <1>12, <1>16 DEF WalkInv

LEMMA WalkStepInv == ToolsInv /\ WalkInv /\ [ToolsNext]_toolsVars => WalkInv'
<1> SUFFICES ASSUME ToolsInv, WalkInv, [ToolsNext]_toolsVars PROVE WalkInv'
  OBVIOUS
<1>1. CASE StartWalk
  <2>1. PICK raw \in ToolRequests : \E f \in Normalized(raw) :
            walk' = [at |-> "page", rows |-> <<>>, replaced |-> FALSE,
                     filter |-> f]
    BY <1>1 DEF StartWalk
  <2>2. PICK f \in Normalized(raw) :
            walk' = [at |-> "page", rows |-> <<>>, replaced |-> FALSE,
                     filter |-> f]
    BY <2>1
  <2>3. FilterOK(f) /\ f.page = 1
    BY NormalizedFacts
  <2>4. UNCHANGED toolSnap
    BY <1>1 DEF StartWalk
  <2>5. /\ Len(StoreList(toolSnap, f)) \in Nat
        /\ SubSeq(StoreList(toolSnap, f), 1, 0) = <<>>
    <3>1. StoreList(toolSnap, f) \in Seq(Matching(toolSnap, f))
      BY SnapIsOfRows, ListFacts
    <3> QED  BY <3>1
  <2>6. (f.page - 1) * f.perPage = 0
    <3>1. f.perPage \in 1 .. MaxPerPage
      BY <2>3 DEF FilterOK, PageOK
    <3>2. PICK k \in Nat : k = f.perPage
      BY <3>1, PageSizes
    <3>3. (1 - 1) * k = 0
      OBVIOUS
    <3> QED  BY <2>3, <3>2, <3>3
  <2>7. Walked'
    BY <2>2, <2>3, <2>4, <2>5, <2>6 DEF Walked
  <2> QED  BY <2>2, <2>7 DEF WalkInv
<1>2. CASE GetPage
  <2>1. CASE walk.replaced
    <3>1. /\ walk'.replaced /\ walk'.at \in {"done", "page"}
          /\ walk' = [at |-> walk'.at, rows |-> walk'.rows,
                      replaced |-> walk'.replaced, filter |-> walk'.filter]
      BY <1>2, <2>1 DEF GetPage, WalkInv
    <3> QED  BY <3>1 DEF WalkInv
  <2> QED  BY <1>2, <2>1, NextPage
<1>3. CASE EndWalk
  BY <1>3 DEF EndWalk, NoWalk, WalkInv
<1>4. CASE ReplaceTools \/ RestartTools
  <2>1. walk' = [walk EXCEPT !.replaced = TRUE]
    BY <1>4 DEF ReplaceTools, RestartTools
  <2> QED  BY <2>1 DEF WalkInv
<1>5. CASE ~(\/ StartWalk \/ GetPage \/ EndWalk \/ ReplaceTools
             \/ RestartTools)
  <2>1. UNCHANGED <<walk, toolSnap>>
    BY <1>5 DEF ToolsNext, ToolsScheduler, BeginToolSync, FetchFile,
                ToolFault, ToolsMidnight, EditFile, toolsVars
  <2> QED  BY <2>1 DEF WalkInv, Walked
<1> QED  BY <1>1, <1>2, <1>3, <1>4, <1>5

(* A client that walks the pages while no sync replaces the snapshot has   *)
(* every matching row once, in the order it asked for, whatever it         *)
(* filters and sorts by and however many rows a page has (pageRows,        *)
(* service.go:240; sortTools, store_memory.go:75).                         *)
THEOREM WalksAreComplete == ToolsSpec => []WalkIsComplete
<1>1. ToolsSpec => []WalkInv
  BY WalkInitInv, WalkStepInv, ToolsInvariant, PTL DEF ToolsSpec
<1>2. ASSUME ToolsInv, WalkInv PROVE WalkIsComplete
  <2> SUFFICES ASSUME walk.at = "done", ~walk.replaced
               PROVE  WalkIsComplete
    BY DEF WalkIsComplete
  <2> DEFINE f == walk.filter
             M == Matching(toolSnap, f)
             rows == walk.rows
             key(i) == SortKey(rows[i], f.sort)
  <2>1. /\ rows = StoreList(toolSnap, f)
        /\ f.sort # "" => f.order \in {"asc", "desc"}
    BY <1>2 DEF WalkInv, Walked, FilterOK, SortOK
  <2>2. /\ rows \in Seq(M) /\ Len(rows) = Cardinality(M)
        /\ {rows[i] : i \in DOMAIN rows} = M
        /\ \A i, j \in DOMAIN rows : i < j => ListedFirst(rows[i], rows[j], f)
    <3>1. RowsSnap(toolSnap)
      BY <1>2, SnapIsOfRows
    <3>2. PICK snap, g, all : /\ snap = toolSnap /\ g = f
                              /\ all = StoreList(snap, g)
      OBVIOUS
    <3>3. /\ all \in Seq(Matching(snap, g))
          /\ Len(all) = Cardinality(Matching(snap, g))
          /\ {all[i] : i \in DOMAIN all} = Matching(snap, g)
          /\ \A i, j \in DOMAIN all : i < j => ListedFirst(all[i], all[j], g)
      BY <3>1, <3>2, ListFacts
    <3> QED  BY <2>1, <3>2, <3>3
  <2>3. ASSUME f.sort # "", NEW i \in 1 .. Len(rows) - 1
        PROVE  \/ f.order = "asc" /\ key(i) < key(i + 1)
               \/ f.order = "desc" /\ key(i) > key(i + 1)
               \/ /\ key(i) = key(i + 1)
                  /\ rows[i].row.id <= rows[i + 1].row.id
    <3>1. i \in DOMAIN rows /\ i + 1 \in DOMAIN rows /\ i < i + 1
      BY <2>2
    <3>2. rows[i] \in ToolsIn(toolSnap) /\ rows[i + 1] \in ToolsIn(toolSnap)
      BY <2>2, <3>1 DEF Matching
    <3>3. /\ key(i) \in Nat /\ key(i + 1) \in Nat
          /\ rows[i].row.id \in Nat /\ rows[i + 1].row.id \in Nat
      BY <1>2, <3>2, SnapIsOfRows, ToolFacts DEF SortKey
    <3>4. ListedFirst(rows[i], rows[i + 1], f)
      BY <2>2, <3>1
    <3>5. \/ Before(rows[i], rows[i + 1], f)
          \/ ~Before(rows[i + 1], rows[i], f)
      BY <2>3, <3>4 DEF ListedFirst
    <3>6. f.order \in {"asc", "desc"}
      BY <2>1, <2>3
    <3> QED  BY <3>3, <3>5, <3>6 DEF Before
  <2> QED  BY <2>2, <2>3 DEF WalkIsComplete
<1> QED
  BY <1>1, <1>2, ToolsInvariant, PTL
=============================================================================
