# Verification of sweg-ai-lists-backend

TLA+ specifications of the backend's protocols, the TLC runs that check them on
small instances, and TLAPS proofs of their main properties for every instance.
Every definition is translated from the Go code and the migrations;
`PROJECT.json` maps definitions to source lines.

## 1. The system

One Go process serves HTTP in front of Postgres. Handlers run concurrently, and
several processes may share a database, so the unit of atomicity is one SQL
statement, or one transaction where the code opens one (only when a post is
created). Three background goroutines pull content from upstream sites.

| Component | State | Operations | Interacts with | What makes it correct |
| --- | --- | --- | --- | --- |
| Refresh sessions (`internal/auth`) | `refresh_tokens` rows; signed tokens | Login, Refresh, Logout, RevokeAllForUser | users (password check), the password-change hook of `app.go` | a token is exchanged once; a line of sessions never forks; a reuse or a password change ends the sessions it should |
| Magic links (`auth/magic.go`) | `magic_links` rows | Request, Verify, VerifyCode | users, mailer, refresh sessions | a link opens at most one session; a newer link replaces an older one; hourly limit; attempt cap |
| Users (`internal/user`) | `users` rows, or the slice of the memory store | Register, Authenticate, UpdatePassword, List | sessions (hook) | one account per name and address; an old password opens nothing that lasts |
| Posts and categories (`internal/post`) | `posts`, `categories`, links and items, or their copy in memory | Create, Delete, Get, List, CreateCategory | wanted list (foreign key) | slugs are unique; nobody deletes another's post; no partial post; two category levels |
| Wanted list (`internal/wanted`) | `wanted_posts` | Add, Delete, List | posts | no row without its post; List agrees with both tables |
| News sync (`internal/news`) | `news` rows | Sync (at start and at midnight), List | upstream site | an interrupted sync is completed by the next |
| Tools and daily terms (`internal/tools`, `internal/dailyterm`) | an in-memory snapshot | Sync, List | upstream files | readers see one snapshot; a failed sync keeps the old one; the next one catches up |
| Mailer (`platform/mailer`) | one SMTP session per send | Send | mail server | every send returns; success means the server took the message |
| Health, platform, wiring | none of their own | ping, start, stop | all | - |

Where it is hard: requests interleave between any two SQL statements (several
operations take two or three); a client that goes away cancels the context of
its request, so any suffix of a handler may be missing, and a crash does the
same; links and tokens expire between a check and its use; errors of some calls
are deliberately ignored; upstream files change, lose their content or stop
answering in the middle of a sync; every Postgres store has a twin in memory
that repeats its SQL in Go. The complete list, with lines, is `hazards` in
`PROJECT.json`.

## 2. Modules

| Module | Models |
| --- | --- |
| `SessionLines` | abstract specification: a login opens a *line* of sessions that moves from token to token and, once dead, stays dead |
| `Sessions` | login, refresh, logout and password change, one database call per action |
| `SessionsProofs` | theorems about `Sessions` |
| `MagicLinks` | request, redemption by link and by code, one SQL statement per action |
| `MagicLinksProofs` | theorems about `MagicLinks` |
| `Posts` | creation and deletion of posts together with the wanted list that marks them |
| `PostsProofs` | theorems about `Posts` |
| `Mirror` | abstract specification: a copy of a changing source, replaced whole, never by something older than the sync that fetched it |
| `DailyTerms` | the journal of terms: scheduler, sync by file, snapshot, readers |
| `Tools` | the tools catalog: the same, and filter, order, paging |
| `News` | the digest list in Postgres: scheduler, upserts one by one |
| `Mailer` | the SMTP session of `Send` with its deadline |
| `OutboundProofs` | theorems about `DailyTerms`, `Tools`, `News` and `Mailer` |
| `TermParser`, `TableParser` | the parsers of month files and of tool tables, one line per step |
| `ParserProofs` | theorems about the parsers |
| `PostStores` | categories, posts and their reads on both stores, requests in slots |
| `PostStoresProofs` | theorems about `PostStores` |
| `AuthStores` | both stores of links and of refresh tokens, given the same calls |
| `Users` | accounts on both stores, password changes in slots |
| `AccountsProofs` | theorems about `Users` and `AuthStores` |
| `Ordering` | `ORDER BY` and package sort: a member of a set comes at the place that the number of members before it says |
| `OrderingProofs` | lemmas about ranks, sorted sequences, least and greatest members |
| `MCSessions`, `MCMagicLinks`, `MCPosts` | symmetry sets for the runs |
| `MCOutbound` | the three mirrors and the mailer side by side |
| `MCServices` | the parsers and the stores side by side |

`MCOutbound` and `MCServices` are sums: a variable `part` chooses once which of
the specifications a behaviour is one of, and the others keep their initial
state. The parts share nothing in the code either (each has its own tables,
snapshot or connection), so nothing is lost against checking them one by one.

Conventions. A request in progress is a slot `r` with a program counter `pc[r]`
that names the call it makes next and registers for what it has read so far
(`who`, `tok`, `link`, `found`...). Each action is one call together with the
local work that follows it (hashing, signing, parsing). A request that fails a
check with nothing written changes no state and is not an action. `Abort` ends
a request before any of its calls: an error of the call, a cancelled context or
a crash. Time is a counter of ticks; the bounds `MaxTime`, `MaxChanges` and
`MaxMisses` cap what would grow for ever. Some variables are history: they are
written and never read by the actions, and exist for the properties to speak of
the past. A definition that a comment calls a *seeded fault* is not part of the
specification: it is a plausible bug, put in the place of the definition it
follows to see that a property notices.

### Sessions

The tables are `hash` (users) and `saved`, `revoked` (refresh_tokens); a token
is its jti. `Authenticate` is a login whose password matched, or the end of a
magic link; `Consume` is the conditional `UPDATE ... RETURNING` of
`PostgresRefreshStore.Consume` followed by `Tokens.Issue`, `ConsumeMiss` and
`Classify` its slow path, `Save` the insert, `Answer` the response that hands the
token to the client. `RevokeAllForUser` serves both the reuse detection and the
hook of the password change; an `Abort` just before it is the hook that fails
and is only logged. History: `parent`, `line` and `born` give each token its
descent, `swept`, `escaped` and `lost` record what sweeps did.

### MagicLinks

The table columns are functions of the link. `CountRecent`, `Supersede`,
`Insert`, `Prune` and `Mail` are the five calls of `Magic.Request`;
`Consume` and `IssuePair` those of `Verify`; `ConsumeCode` or `ConsumeCodeMiss`
followed by `CountAttempt` those of `VerifyCode`. `created` is the database's
clock at the insert, `expires` counts from the start of the request, as in the
code. Codes are drawn from a small set, so two links may have the same one. The
session that a redemption opens is a counter here; `Sessions` has the rest of
its life.

### Posts

A slug is a base and a suffix; an explicit slug may be any of them, so explicit
and generated slugs collide. `Insert` is the transaction of
`PostgresStore.Create`. `FindForDelete` and `DeleteBySlug` are the two calls of
`Service.Delete`; `Find` with `Want` or `Unwant` those of the wanted list.
Everything that reaches a row by id goes through the foreign key of
`wanted_posts` (`Cascade`).

### DailyTerms and Tools

Upstream is a version per file (`termSource`, `toolSource`), and what a version
contains is a constant. `ListMonths`, `FetchMonth` and `ReplaceTerms`
(`BeginToolSync`, `FetchFile` and `ReplaceTools`) are the steps of `Sync`, and
the source may move between any two of them. `TermFault` and `ToolFault` are a
call that fails: the sync ends and the snapshot stays. The midnight timer is
`TermsMidnight`, `ToolsMidnight`; a restart empties the store and syncs at once.
The floor (history) is what the source was when the sync began.

The snapshot is kept as the versions it was built from; what readers see
(`StoreListMonth`, `Index`, `StoreGet`, `StoreList`, `PageRows`) is computed from
it as the code computes it. `ResolveMonth` and `ListTerms` are the two reads of
`Service.List` of the terms. A client that walks the pages of the catalog is
`StartWalk`, `GetPage`, `EndWalk`; an int of the page arithmetic
that grows beyond `MaxInt` wraps to a negative one.

### News

`Entries` is what the parser keeps of a page, `StoreEntry` the conditional
upsert, and `Upsert` one iteration of the loop of `Sync`, so that a failure or a
restart may come between any two. `news` is the table: the body of every digest;
`touched` counts how often its `updated_at` was set after the insert.

### Mailer

`Command` sends the command of the stage, `Answer` reads the reply and goes on
to the stage `After`; the stages are the dial, the greeting, AUTH, MAIL, RCPT,
DATA, the message and QUIT, in the order of the code. The server may accept, refuse or
stay silent, and the connection may break. `Deadline` is the passing of the
context's deadline, which `Send` puts on the connection.

### TermParser and TableParser

A file is read one line per step, and a line is its kind (a rule, a heading, a
title, a label, a fence, text...). The state variables are the local variables
of `parseMonth` and `parseTable`; the property compares what the parser holds
after every line with a definition of what it should, over the whole prefix. So
one run covers every file of at most `MaxLines` (`MaxTableLines`) lines.

### PostStores, AuthStores, Users

Each keeps the Postgres tables and the data of the memory store side by side,
and every call acts on both. The agreement properties compare the reads of
the two stores, with the same arguments, and the last answers: posts with their
categories and, where the read has them, their items and positions; the account
found by id, address or identifier, with its hash; the list of accounts without
it, as Postgres never selects it there (section 5). Not compared, because not
modelled, are the author of a post, the ids of its items and the time of a last
update. Ids and times are drawn by the caller, so that both stores get
the same ones. Requests in slots interleave where a
service makes two calls: `CheckParent` before `PgCreateCategory`, `ChooseCategory`
before the insert of a post, `StartGet` before `GetItems` (post and items are two
queries), `FindAndCompare` before `UpdatePasswordHash`. The slices of
`post.MemoryStore` are sets here, because every read of them sorts.

A post is created with a sequence of items: `ItemsAllowed` is what
`normalizeItems` lets through (1 to `MaxItems`, each with the fields of its kind
and no other), `NormalizeItems` gives every item its place as its position, and
Postgres keeps one row per item, which `FindItems` puts in order again. A read
in progress carries `sent` (history), the items its post was created with, as
the memory store has them; `ReadsAreWholeOrDeleted` compares the answer with
that list and not with what the table says when the read begins.

In `AuthStores` a counter at the limit of its smallint makes the `UPDATE` fail;
its error is dropped, so the count stays (`CountMiss`). That it wraps instead is
the seeded fault.

## 3. Runs

| Run | Instance | Shows |
| --- | --- | --- |
| `sessions` | 1 user, 3 tokens, 3 requests | types; `RotatedOnce`; `OneLivePerLine`; `SweptUnlessMoving`; `OldSessionsEnd` |
| `sessions_refinement` | 2 users, 3 tokens, 2 requests | `Sessions` implements `SessionLines` |
| `change_revokes_every_session` | 1 user, 3 tokens, 2 requests, no aborts | **violated**: a session authorised under the old password outlives the change |
| `reuse_kills_family` | same | **violated**: a rotation in progress outlives the sweep of a reuse |
| `magic_links` | 1 address, 3 links, 2 codes, 2 requests, limit 1 | types; `RedeemedOnce`; `SupersededIsDead`; `TwoUnusedOnlyIfRacing`; `PruneSparesRecent`; `RateBounded` |
| `magic_codes` | 2 links, 2 codes, 2 requests, cap 1, 3 wrong codes | `LockedButForRaces` |
| `only_newest_usable` | 2 links, 2 requests, no aborts | **violated**: two racing requests leave two usable links |
| `attempt_cap_is_atomic` | 2 links, 2 requests, no aborts | **violated**: concurrent wrong codes overrun the cap |
| `posts` | 2 users, 3 posts, 2 slugs, 3 requests | types; `WantedExist`; `StraysOnlyAfterReuse` |
| `only_author_deletes` | same with 2 requests | **violated**: a delete removes the post that took over the slug |
| `outbound` | 4 listed files with 2 versions each, 3 of them month files of 2 months; 2 tool files, 3 and 2 versions; 4 versions of the news page; 2 mails; 1 or 2 faults and 1 restart per mirror | `TermsMirror`, `ToolsMirror` (refinement of `Mirror`); `OnlyUpstreamDropsAMonth`; `GetFindsTheFirstListed`; `CategoriesNeverBlank`; `WalkIsComplete`; `NoPageOutOfRange`; `UpdatedOnlyByTheSource`; `NewsOnlyGrows`; `SuccessMeansAccepted`; and, under fairness, `TermsCatchUp`, `ToolsCatchUp`, `NewsCatchUp`, `MailReturns` (87 thousand states) |
| `services` | files of 5 lines, tables of 6; 4 category requests, 3 posts of one, two and three items and 4 that are refused, 2 slots; 2 links, addresses, codes and tokens, clock to 5; 2 accounts, 2 password changes | `TitlesAndDays`; `BodiesKeepEveryLine`; `TextIsShown`; `FirstDataTableIsRead`; `SameAnswers`; `CategoriesTwoDeep`; `ReadsAreWholeOrDeleted`; `AuthStoresAgree`; `UserStoresAgree`; `OverwritesOnlyIfRacing` (700 thousand states) |

Each violated property is what a comment of the code says; next to it stands the
weaker property that does hold, so a reader sees exactly how far the promise
goes. `findings` quotes the comments.

Why the bounds are enough. A race on one row needs two requests, a race with a
bystander three. Three tokens give a line two rotations, or a second login next
to a rotation; three links give two racing requests and a later one; three posts
give a slug two successive owners and a bystander. Lifetimes of one tick make
every expiry happen between any two calls. In `magic_links` the clock runs to 3
so that rows become stale and a request may outlive the link it is writing. The
limits (`RateLimit`, `MaxAttempts`, `MaxSlugAttempts`) are at most two because
what matters is one step below, at and above them. One user suffices in
`sessions`, since no action touches two users' rows; the refinement run has two
so that a sweep that reached the other's would show.

In `outbound`, one month file comes after another in the listing though its
month is older, one repeats an id, one is no month file, one version is absent
and one has no lines; the tool rows have ties in name and in date and one
version without rows; a card is listed twice, goes and comes back; clients ask
for the pages -1, 0 and 1 with sizes below, on and above the limit, while
`NoPageOutOfRange` tries every page number an int has: `MaxInt` is 31, so a
product of page and size overflows. Five lines hold a rule, a day, a title and the first
two lines of a body, or an open fence with what must not count inside it; six
table lines hold a note, a header, dashes, two rows and the line after. Three
password values let a second change follow one that raced. `MaxItems` is 3 where
the code has 20: a list of three has proper parts of one and two items, and one
more or one less than the limit is tried. Items that get through are a text, a
link and files with and without a media type (a markdown item is checked as a
text is); those refused have an empty field, or one too many.

`CHECK_DEADLOCK` is off: a bounded instance runs out of tokens, links or ticks,
of lines to read, of mails to send, of accounts to register.

Fairness. Requests owe nobody their next call, so `Sessions`, `MagicLinks`,
`Posts` and `services` assume none. `outbound` assumes weak fairness of four
things: each of the three scheduler goroutines, and the client that sends mail.
The code justifies it: a scheduler's next step is always a local computation, an
HTTP call whose client has a timeout, a database call with the scheduler's
context, or a timer (`scheduler.go`); a send waits on a connection with a deadline
(`smtp.go:132`). One condition covers a whole goroutine, since its step is the one
its program counter names. Source, faults, restarts, servers and readers have no
fairness: a source may stop changing and a server never answer. Faults and
restarts are bounded by `Max...Faults` and `Max...Restarts`, which is what "if
upstream comes back" means in `TermsCatchUp`, `ToolsCatchUp` and `NewsCatchUp`: a
source that fails for ever is followed by nobody.

## 4. Proofs

The theorems hold for every value of the constants that the assumptions of the
modules allow: any number of users, tokens, links, posts, files, rows, versions
and requests, any lifetimes and limits. What is assumed:

- `ConstantsAssumption` of `Sessions`, `MagicLinks` and `Posts`: bounds and
  lifetimes are numbers, `RateWindow <= StaleAge` (one hour and 24 hours in the
  code), and the values that stand for "none" are no members. `NoneIsNoSlug`
  (`Posts`) says the last of slugs; `RequestsAssumption` (`MagicLinks`): some,
  finitely many requests run at once.
- `TermsAssumption`, `RowsAssumption`, `NewsAssumption`: upstream has at least
  one version of every file and of the page. `RowsAssumption` bounds the rows of
  a file by `MaxRows`, which the code does with `maxFileBytes`, and
  `IntAssumption` says that an int counts all rows and one page more, as 64 bits
  do. `RequestsAssumption` of `Tools`: a client that walks the catalog asks for
  the first page first. `ToolsAssumption`: categories are numbered in their
  fixed order, and the default page size is a legal one.
- `MailsAssumption`: there is a mail. `LinesAssumption`, `TableLinesAssumption`:
  the bounds of the runs are numbers, of any size.
- `AuthStoresAssumption`: lifetimes and the attempt cap are positive, and the cap
  fits the smallint column. `PostStoresAssumption`: ids and times are numbers,
  slugs and categories given by a client are not empty (the service refuses
  those).

The arguments, component by component:

- **Ordering.** A list sorted by a strict total order is a function of the set
  of its members: the rank of a member is its place, ranks are distinct, and
  every place is taken (`OrderingProofs`). All that is proved of lists rests on
  this, and on its consequence that a one-to-one map which keeps the order maps
  the sorted list of one set onto that of the other. Where a proof on paper would
  go by induction over a list, these take the least number that breaks the claim
  (`LeastMember`).
- **Sessions.** `RowsInv` says what a request knows at each step: a token about
  to be saved has no row, belongs to one request, and its line to one user.
  `OneLivePerLine` alone is not inductive, because between `Consume` and `Save`
  a line has no live row at all and something must keep a second one from
  appearing. The invariant therefore speaks of *holders*: live rows and tokens
  about to be saved. A line has at most one (`OneHolderPerLine`); `Consume`
  replaces one by another in one step, and a sweep removes all but those in
  flight, which is why these are what `SweptUnlessMoving` and `OldSessionsEnd`
  except. `HandlersImplementLines` is the refinement of `SessionLines`: a line's
  phase, owner and deadline are read off its one holder (`LinesView`), so a step
  that leaves the holders alone is a stutter (`AllLinesStay`), and there is one
  lemma for each step that moves a line: a login, the save of a login, a
  rotation, a logout or a refused refresh, a sweep.
- **MagicLinks.** A redeemed link and a superseded link are both *spent* (used,
  or deleted after), and both actions require an unused row: `SpentInv` turns
  this into single use and into the exclusion of the two. `SawInv` keeps, for
  each request, that the rows of its address it saw when it superseded are
  spent, which gives `TwoUnusedOnlyIfRacing`. `PruneSparesRecent` needs
  `created <= usedAt` and `RateWindow <= StaleAge`. `RateHolds` and `LockHolds`
  bound what the races can exceed. Neither bound is inductive alone, as the
  count and the write it allows are two steps. `RateInv` counts the recent rows
  of an address together with the requests between their count and their
  insert: an insert moves one from the second set to the first. `LockInv` says
  the same of a link's tries: at most its counter, the misses about to be
  counted, and the lost counts.
- **Posts.** `PostsInv` keeps the unique index and what a request remembers of
  the post it found: slug and author of an id never change, so a stranger under
  the same slug is another id and the found one must be gone.
- **DailyTerms, Tools.** `JournalIsAMirror` and `CatalogIsAMirror` are
  refinements of `Mirror`. The invariant (`TermsInv`, `ToolsInv`) orders four
  versions of each file: served, the floor of the running sync, what the sync
  has read, and the source. It needs the case of a sync that ended early, whose
  readings must not count any more, and of a file that is absent from the
  listing.
- **Readers of the journal.** `OnlyUpstreamDropsAMonth` speaks of a reader that
  was told a month and then found it gone. It is not inductive: the months a
  reader was told are those of an older snapshot, and why one is missing now was
  decided when the sync listed the files. `ReadsInv` adds what the sync has read
  of a listed and of an unlisted file (`SyncReads`), that the store holds what a
  sync read (`StoreHolds`), and that what a reader saw is not newer than what the store has
  (`ReaderBehind`). `GetAgreesWithListing` is about the operators alone: for
  every snapshot a sync can have read, the index keeps, of the terms with one
  id, the one the listing has first (`IndexKeepsFirstListed`).
- **Pages of the catalog.** `CategoriesKeepRows` is in the invariant itself
  (`HaveRows`). `PagesStayInside` shows that a page up to the last one is
  computed without a wrap, by `IntAssumption`, and that beyond it the bounds
  test answers instead. `WalkInv` says of a client whose
  snapshot was not replaced that the rows it has are those of the list before
  its next page; the last page then completes the list (`WalksAreComplete`).
- **News.** `NewsInv` says that what a sync is about to store was a card of the
  page with the body it carries; then every stored body was once upstream
  (`NewsTypes`) and no step removes an entry (`ListOnlyGrows`).
  `SourceMovesUpdatedAt` counts: `updated_at` of a digest moves at most once for
  every time upstream changed its body. A sync may skip versions, so the
  invariant (`SourceInv`) ties each stored body to some version not newer than
  the one last fetched, and counts changes up to that version.
- **Mailer.** `MailInv` ties the stage of a session to what the server has
  decided: the message is accepted from the reply to its end on, and only a
  session past that point answers nil, which gives `ResultIsTrue`.
- **Parsers.** `ParserInv` relates the local variables of the loop to the whole
  prefix read: `MarkerInv` what `previous` and `day` say of it, `OpenTerm` what
  the fence flag and the section say of the term being read (an odd number of
  fences since its title; the last label outside fences). With these, one more
  line keeps `TitlesAndDays` and `BodiesKeepEveryLine`. `TextIsShown` is a fact about
  trimming bodies of any shape. `TableInv` says where the block of table lines that ends the
  prefix begins and that it has no data row yet, or that the first data row was
  found. The bounds on lines are constants, so this holds of files of any length.
- **Users.** `UsersInv` keeps the rows and the slice equal as sets with one
  account per id and per name, the slice in the order of `created_at`, and, for
  every change that has compared, that the hash it saw is the stored one unless
  another change was stored since. Accounts are never deleted, and an id is
  never given twice. `UserStoresMirror` then compares the lists up to the hash
  (`ListsAgree`) and the lookups with it (`LookupsByIdAgree`, `LookupsAgree`).
- **AuthStores.** The two link stores are not equal: Postgres goes on
  counting misses of a locked code, memory does not. `AuthInv` pairs
  each row with a record that is equal but for counts that both are at or above
  the cap (`Alike`), with unique tokens and at most one unused link per address;
  no read can tell such a pair apart, and every call keeps it (`AuthStoresMirror`).
  The refresh tokens are equal outright (`TokensInv`).
- **PostStores.** That a category has at most two levels, and that both stores
  answer an insert alike, rests on a lookup an earlier call made. `StoresInv`
  therefore says what a request still holds of what it read: the parent it
  checked is still a top-level category, the categories it chose are still rows
  (categories are never deleted), and the post a reader found is gone or has the
  items its author sent, all of them at their positions (`GoodRequests`;
  `ItemsAgree` shows that the rows of a post, by position, are the list that was
  sent, of whatever length). With it stand the shape of the tree
  (`GoodCategories`: memory is the image of the table) and of the posts
  (`GoodPosts`: links at most two deep, the same posts with the same items on
  both sides). `TreeIsTwoDeep`, `ReadsWholeOrDeleted` and `StoresAnswerAlike`
  follow from it; the last also needs that names, slugs and pages come out of
  both stores in one order, which is where `Ordering` is used most.

Only model-checked: liveness (`TermsCatchUp`, `ToolsCatchUp`, `NewsCatchUp`,
`MailReturns`), which the prover cannot reach, and of course the five properties
that do not hold.

The proofs about mirrors, parsers and stores are of each component's own
specification (`TermsSpec`, `ToolsSpec`, `NewsSpec`, `MailSpec`, `ParserSpec`,
`TableSpec`, `UsersSpec`, `AuthSpec`, `StoresSpec`): `outbound` and `services` run
the same actions and check the same properties.

## 5. Where code and comments part, without a run

Met while modelling, kept in the models as the code has them:

- An upstream month file that exists but has no usable terms replaces a good
  month by nothing: `parseMonth` answers no error for it
  (`dailyterm/parser.go:120`), while a failed fetch keeps the old month.
  `OnlyUpstreamDropsAMonth` allows exactly this case.
- Two files that claim one month are both kept, in path order
  (`dailyterm/service.go:278`), though its comment says a month is kept once: duplicates are removed by file,
  not by month.
- The comment that an empty line kind stands for any run of blank lines
  (`dailyterm/parser.go:72`) describes no step of the parser.
- A URL that the news page lists twice with different bodies would move
  `updated_at` at every sync; the instance has no such page, as
  `UpdatedOnlyByTheSource` speaks of pages without it.
- `PostgresStore.List` of the users "never selects password_hash"
  (`user/store_postgres.go:99`) and answers it empty; `MemoryStore.List`
  (`user/store_memory.go:83`) copies the whole `User`. `UserStoresAgree` compares
  the two lists without the hash (`WithoutHash`), and the hashes where both
  return them, in the lookups. The field "never leaves the server"
  (`user/user.go:9`).
- "When a label is present the preamble only introduces what the definition
  repeats, so it is dropped" (`dailyterm/parser.go:241`): `finish` looks at the
  definition section alone. With a label whose section is empty, the preamble is
  shown as the definition. `TextIsShown` is of the code: a term with any text
  above its examples shows some.
- A user name may be another account's address. Postgres then returns any of the
  two rows of an identifier, memory the first (`user/store_postgres.go:52`);
  `UserStoresAgree` asks that memory's answer is one Postgres may give.
- Postgres goes on counting misses of a locked code, memory does not; the reads
  cannot tell, which `AuthStoresAgree` shows.

## 6. Not modelled, and why

- Cryptography, password hashing, JSON, status codes, mail text: data the
  properties do not tell apart.
- The memory store of the wanted list, which has no foreign key, and
  `wanted.Service.List`, which changes nothing and joins two reads without
  promising a snapshot.
- `FindByEmail` is folded into the call before it: accounts are never deleted
  and their addresses never change, so nothing can happen in between that
  matters. Requests for unregistered addresses leave no trace.
- The moment between reading the clock and using it. `Refresh`
  (`auth/service.go:47`), `Verify` and `VerifyCode` (`auth/magic.go:204`, `:223`)
  pass a `time.Now()` of the process to the `UPDATE` that consumes a token, a
  link or a code, and the statement compares expiry with that argument. The
  models judge it at the statement. A call that waits for a connection across the
  expiry is thus accepted by the code a little later than by the model: "not
  after its deadline" in `SessionLines` is to be read as of the moment the
  request asked.
- Physical effects of Postgres isolation: each statement is atomic, which READ
  COMMITTED gives for single-row conditional updates and unique indexes.
- The collation of Postgres is taken to order names as Go does, and `created_at`
  of accounts to rise with every insert.
- The digits and letters inside a line, a URL or a name; HTML parsing of the news
  page; what is left is which lines and cards the parsers keep.
- The connection pool, the HTTP server, CORS, configuration, migrations, health
  and logging: I/O or wiring with no protocol of their own.

## 7. Plan

Done: sessions with their abstract specification; magic links; posts with the
wanted list; the mirrors with theirs; the mailer; the parsers; both
implementations of every store except the wanted list's.

Every safety property that a run checks and finds to hold is also a theorem.

What is left, in order of what it would add: the memory store of the wanted list
and its List; the hazards of `PROJECT.json` that no property covers yet (the
answer of a refresh that is lost, a redemption that fails after it spent its
link, a mail that fails after the link was saved, an upstream file without
terms).
