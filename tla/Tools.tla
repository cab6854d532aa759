------------------------------- MODULE Tools --------------------------------
(***************************************************************************)
(* The catalog of tools (internal/tools: service.go, scheduler.go,         *)
(* store_memory.go): the scheduler mirrors one source file per category,   *)
(* and clients page through the snapshot, one GET /tools per action.       *)
(*                                                                         *)
(* A row is a record of what the requests tell apart: its id, name, date,  *)
(* and the queries its text contains, with ids, names and dates numbered   *)
(* in their order.  What a file holds is a function of its version         *)
(* (TableParser.tla models how it is read).                                *)
(***************************************************************************)
EXTENDS Integers, Sequences, FiniteSets, Ordering

CONSTANTS
    Categories,        \* the source files, 1 .. n in the order of the table
    Rows,              \* Rows[c][v]: the usable rows in version v of file c;
                       \* their number bounds the edits upstream
    MaxRows,           \* the rows maxFileBytes leaves room for in a file
    ToolRequests,      \* bound: the filters clients send
    DefaultPerPage, MaxPerPage,
    MaxInt,            \* the greatest int
    MaxToolFaults,     \* bound: HTTP calls that fail
    MaxToolRestarts    \* bound: restarts of the process

(* What the requests tell apart of a row; see the introduction.            *)
Tool == [id : Nat, name : Nat, updated : Nat, text : SUBSET STRING]

ASSUME ToolsAssumption ==
    /\ Categories # {} /\ IsFiniteSet(Categories)
    /\ Categories = 1 .. Cardinality(Categories)
    /\ MaxPerPage \in Nat /\ DefaultPerPage \in 1 .. MaxPerPage
    /\ MaxToolFaults \in Nat /\ MaxToolRestarts \in Nat

ASSUME RowsAssumption ==
    \A c \in Categories :
        /\ Rows[c] # <<>> /\ Rows[c] \in Seq(Seq(Tool))
        /\ \A v \in DOMAIN Rows[c] : Len(Rows[c][v]) <= MaxRows

(* An int counts every row, and a page more (maxFileBytes is 1 << 20).     *)
ASSUME IntAssumption ==
    /\ MaxInt \in Nat /\ MaxRows \in Nat
    /\ Cardinality(Categories) * MaxRows + MaxPerPage <= MaxInt

(* A client that pages begins with the first page.                         *)
ListFilter == [category : Nat, query : STRING, sort : STRING, order : STRING,
               page : Int, perPage : Int]

ASSUME RequestsAssumption ==
    ToolRequests \subseteq {f \in ListFilter : f.page <= 1}

VARIABLES
    toolSource,    \* the version of every file upstream
    toolPc,        \* what the scheduler does next
    toolGot,       \* versions read so far by this sync; 0 is not yet
    toolSnap,      \* versions the snapshot was made of; 0 before any
    walk,          \* a client that asks for one page after the other
    (* history *)
    toolFloor,     \* toolSource when this sync began
    toolFaults, toolRestarts

toolsVars == <<toolSource, toolPc, toolGot, toolSnap, walk, toolFloor,
               toolFaults, toolRestarts>>

NoTools == [c \in Categories |-> 0]

-----------------------------------------------------------------------------
(* The rows of the snapshot; a row knows its category and its place there. *)
ToolsIn(snap) ==
    UNION {{[row |-> Rows[c][snap[c]][i], category |-> c, at |-> i]
            : i \in DOMAIN Rows[c][snap[c]]}
           : c \in {d \in Categories : snap[d] # 0}}

InCatalog(s, t) == \/ s.category < t.category
                   \/ s.category = t.category /\ s.at < t.at

(* toolMatchesQuery, and the category filter; 0 and "" do not filter.      *)
MatchesFilter(t, f) ==
    /\ f.category \in {0, t.category}
    /\ f.query = "" \/ f.query \in t.row.text

(* compareToolKey                                                          *)
SortKey(t, by) == IF by = "updated" THEN t.row.updated ELSE t.row.name

(* The less function of sortTools: ties are ordered by id both ways.       *)
Before(s, t, f) ==
    LET a == SortKey(s, f.sort)
        b == SortKey(t, f.sort)
    IN  IF a = b THEN s.row.id < t.row.id
        ELSE IF f.order = "desc" THEN a > b ELSE a < b

(* sortTools: a stable sort, so rows neither of which is before the other  *)
(* stay in catalog order, as all do without a key.                         *)
ListedFirst(s, t, f) ==
    IF f.sort = "" THEN InCatalog(s, t)
    ELSE \/ Before(s, t, f)
         \/ ~Before(t, s, f) /\ InCatalog(s, t)

Matching(snap, f) == {t \in ToolsIn(snap) : MatchesFilter(t, f)}

StoreList(snap, f) ==
    LET First(s, t) == ListedFirst(s, t, f)
    IN  SortedBy(Matching(snap, f), First)

(* normalizeListOptions: what a request asks for, or none if it is refused *)
(* with ErrInvalidInput.                                                   *)
Normalized(f) ==
    IF \/ f.sort \notin {"", "name", "updated"}
       \/ f.sort # "" /\ f.order \notin {"", "asc", "desc"}
       \/ f.page < 0 \/ f.perPage < 0 \/ f.perPage > MaxPerPage
    THEN {}
    ELSE {[f EXCEPT !.order = CASE f.sort = "" -> ""
                                [] f.order = "" -> "asc"
                                [] OTHER -> f.order,
                    !.page = IF f.page = 0 THEN 1 ELSE f.page,
                    !.perPage = IF f.perPage = 0 THEN DefaultPerPage
                                ELSE f.perPage]}

-----------------------------------------------------------------------------
(* pageRows, in the arithmetic of a machine integer.                       *)
Wrap(n) == ((n + MaxInt + 1) % (2 * (MaxInt + 1))) - MaxInt - 1

TotalPages(total, perPage) == Wrap(total + perPage - 1) \div perPage

(* The seeded fault: no early return for a page past the end.              *)
PageBoundsUnguarded(total, page, perPage) ==
    LET start == Wrap(Wrap(page - 1) * perPage)
        end == Wrap(start + perPage)
    IN  <<start, IF end > total THEN total ELSE end>>

(* The seeded fault: pages counted from zero.                              *)
PageBoundsFromZero(total, page, perPage) ==
    LET start == Wrap(page * perPage)
        end == Wrap(start + perPage)
    IN  IF page > TotalPages(total, perPage) \/ start > total THEN <<0, 0>>
        ELSE <<start, IF end > total THEN total ELSE end>>

(* The slice rows[start:end] of a page; <<0, 0>> is the empty early return *)
PageBounds(total, page, perPage) ==
    LET start == Wrap(Wrap(page - 1) * perPage)
        end == Wrap(start + perPage)
    IN  IF page > TotalPages(total, perPage) THEN <<0, 0>>
        ELSE <<start, IF end > total THEN total ELSE end>>

PageRows(rows, page, perPage) ==
    LET b == PageBounds(Len(rows), page, perPage)
    IN  SubSeq(rows, b[1] + 1, b[2])

-----------------------------------------------------------------------------
(* The sync: fetchFile for each category in order, then ReplaceAll.        *)
ToolSyncEnds == toolPc' = "wait" /\ toolGot' = NoTools

BeginToolSync ==
    /\ toolPc = "start"
    /\ toolPc' = "fetch"
    /\ toolFloor' = toolSource
    /\ UNCHANGED <<toolSource, toolGot, toolSnap, walk, toolFaults,
                   toolRestarts>>

(* The seeded fault: a file whose table has no usable row is accepted.     *)
FetchFileAcceptsEmpty ==
    /\ toolPc = "fetch"
    /\ \E c \in Categories :
        /\ toolGot[c] = 0 /\ \A d \in 1 .. c - 1 : toolGot[d] # 0
        /\ toolGot' = [toolGot EXCEPT ![c] = toolSource[c]]
        /\ UNCHANGED toolPc
    /\ UNCHANGED <<toolSource, toolSnap, walk, toolFloor, toolFaults,
                   toolRestarts>>

(* The next file, as it is now; without a usable row it is an error.       *)
FetchFile ==
    /\ toolPc = "fetch"
    /\ \E c \in Categories :
        /\ toolGot[c] = 0 /\ \A d \in 1 .. c - 1 : toolGot[d] # 0
        /\ IF Rows[c][toolSource[c]] = <<>> THEN ToolSyncEnds
           ELSE /\ toolGot' = [toolGot EXCEPT ![c] = toolSource[c]]
                /\ UNCHANGED toolPc
    /\ UNCHANGED <<toolSource, toolSnap, walk, toolFloor, toolFaults,
                   toolRestarts>>

FetchedAll == \A c \in Categories : toolGot[c] # 0

(* A fetch fails: no connection, a status other than 200, a body that is   *)
(* cut off or too large.                                                   *)
ToolFault ==
    /\ toolPc = "fetch" /\ ~FetchedAll
    /\ toolFaults < MaxToolFaults
    /\ toolFaults' = toolFaults + 1
    /\ ToolSyncEnds
    /\ UNCHANGED <<toolSource, toolSnap, walk, toolFloor, toolRestarts>>

(* The seeded fault: the rows are stored file by file as they arrive.      *)
ReplaceToolsEarly ==
    /\ toolPc = "fetch" /\ \E c \in Categories : toolGot[c] # 0
    /\ toolSnap' = [c \in Categories |-> IF toolGot[c] # 0 THEN toolGot[c]
                                         ELSE toolSnap[c]]
    /\ walk' = [walk EXCEPT !.replaced = TRUE]
    /\ IF FetchedAll THEN ToolSyncEnds ELSE UNCHANGED <<toolPc, toolGot>>
    /\ UNCHANGED <<toolSource, toolFloor, toolFaults, toolRestarts>>

ReplaceTools ==
    /\ toolPc = "fetch" /\ FetchedAll
    /\ toolSnap' = toolGot
    /\ walk' = [walk EXCEPT !.replaced = TRUE]
    /\ ToolSyncEnds
    /\ UNCHANGED <<toolSource, toolFloor, toolFaults, toolRestarts>>

(* The seeded fault: the scheduler returns after a failed sync.            *)
ToolsMidnightOnce ==
    /\ toolPc = "wait" /\ toolFaults = 0
    /\ toolPc' = "start"
    /\ UNCHANGED <<toolSource, toolGot, toolSnap, walk, toolFloor,
                   toolFaults, toolRestarts>>

(* The timer fires.  What the last sync came to does not matter.           *)
ToolsMidnight ==
    /\ toolPc = "wait"
    /\ toolPc' = "start"
    /\ UNCHANGED <<toolSource, toolGot, toolSnap, walk, toolFloor,
                   toolFaults, toolRestarts>>

ToolsScheduler == BeginToolSync \/ FetchFile \/ ToolFault \/ ReplaceTools
                    \/ ToolsMidnight

-----------------------------------------------------------------------------
(* A client asks for the first page of some filter, then for the next page *)
(* until it has had as many as the metadata says there are.                *)
NoWalk == [at |-> "idle", rows |-> <<>>, replaced |-> FALSE, filter |-> 0]

StartWalk ==
    /\ walk.at = "idle"
    /\ \E raw \in ToolRequests : \E f \in Normalized(raw) :
        walk' = [at |-> "page", rows |-> <<>>, replaced |-> FALSE,
                 filter |-> f]
    /\ UNCHANGED <<toolSource, toolPc, toolGot, toolSnap, toolFloor,
                   toolFaults, toolRestarts>>

GetPage ==
    /\ walk.at = "page"
    /\ LET f == walk.filter
           rows == StoreList(toolSnap, f)
       IN  walk' = [walk EXCEPT
               !.rows = @ \o PageRows(rows, f.page, f.perPage),
               !.filter = [f EXCEPT !.page = @ + 1],
               !.at = IF f.page >= TotalPages(Len(rows), f.perPage)
                      THEN "done" ELSE "page"]
    /\ UNCHANGED <<toolSource, toolPc, toolGot, toolSnap, toolFloor,
                   toolFaults, toolRestarts>>

EndWalk ==
    /\ walk.at = "done"
    /\ walk' = NoWalk
    /\ UNCHANGED <<toolSource, toolPc, toolGot, toolSnap, toolFloor,
                   toolFaults, toolRestarts>>

-----------------------------------------------------------------------------
EditFile(c) ==
    /\ toolSource[c] < Len(Rows[c])
    /\ toolSource' = [toolSource EXCEPT ![c] = @ + 1]
    /\ UNCHANGED <<toolPc, toolGot, toolSnap, walk, toolFloor, toolFaults,
                   toolRestarts>>

RestartTools ==
    /\ toolRestarts < MaxToolRestarts
    /\ toolRestarts' = toolRestarts + 1
    /\ toolPc' = "start" /\ toolGot' = NoTools /\ toolSnap' = NoTools
    /\ walk' = [walk EXCEPT !.replaced = TRUE]
    /\ UNCHANGED <<toolSource, toolFloor, toolFaults>>

ToolsInit ==
    /\ toolSource = [c \in Categories |-> 1]
    /\ toolPc = "start" /\ toolGot = NoTools /\ toolSnap = NoTools
    /\ walk = NoWalk
    /\ toolFloor = NoTools
    /\ toolFaults = 0 /\ toolRestarts = 0

ToolsNext ==
    \/ ToolsScheduler
    \/ StartWalk \/ GetPage \/ EndWalk
    \/ \E c \in Categories : EditFile(c)
    \/ RestartTools

(* As in DailyTerms: only the scheduler's goroutine must go on.            *)
ToolsSpec == ToolsInit /\ [][ToolsNext]_toolsVars
               /\ WF_toolsVars(ToolsScheduler)

-----------------------------------------------------------------------------
(* The shape of the variables (types of Service, Scheduler, MemoryStore).  *)
ToolsTypeOK ==
    /\ toolSource \in [Categories -> Nat \ {0}]
    /\ toolPc \in {"start", "fetch", "wait"}
    /\ toolGot \in [Categories -> Nat]
    /\ toolSnap \in [Categories -> Nat]
    /\ toolFloor \in [Categories -> Nat]
    /\ toolFaults \in 0 .. MaxToolFaults
    /\ toolRestarts \in 0 .. MaxToolRestarts

(* The catalog is a mirror of the source files (Sync, service.go:140):     *)
(* replaced whole, never older than upstream was when the sync began.      *)
ToolsMirrorOf == INSTANCE Mirror WITH
    Files <- Categories, source <- toolSource, floor <- toolFloor,
    served <- toolSnap

ToolsMirror == ToolsMirrorOf!Spec

(* "a missing file never blanks a category": from the first sync on every  *)
(* category shows rows, whatever upstream makes of its file (Sync,         *)
(* service.go:140; parseTools, parser.go:72).                              *)
CategoriesNeverBlank ==
    toolSnap # NoTools =>
        \A c \in Categories :
            StoreList(toolSnap, [category |-> c, query |-> "", sort |-> ""])
              # <<>>

(* A client that walks the pages while no sync replaces the snapshot has   *)
(* every matching row once, in the order it asked for, ties by id in both  *)
(* directions (pageRows, service.go:240; sortTools, store_memory.go:75).   *)
WalkIsComplete ==
    walk.at = "done" /\ ~walk.replaced =>
        LET rows == walk.rows
            f == walk.filter
            all == Matching(toolSnap, f)
            key(i) == SortKey(rows[i], f.sort)
        IN  /\ Len(rows) = Cardinality(all)
            /\ {rows[i] : i \in DOMAIN rows} = all
            /\ f.sort # "" =>
                 \A i \in 1 .. Len(rows) - 1 :
                     \/ f.order = "asc" /\ key(i) < key(i + 1)
                     \/ f.order = "desc" /\ key(i) > key(i + 1)
                     \/ /\ key(i) = key(i + 1)
                        /\ rows[i].row.id <= rows[i + 1].row.id

(* No page a request may ask for makes pageRows slice outside the rows,    *)
(* the page numbers whose offset overflows included (service.go:250).      *)
NoPageOutOfRange ==
    LET total == Cardinality(ToolsIn(toolSnap))
    IN  \A page \in 1 .. MaxInt, perPage \in 1 .. MaxPerPage :
            LET b == PageBounds(total, page, perPage)
            IN  0 <= b[1] /\ b[1] <= b[2] /\ b[2] <= total

(* Once upstream rests with a usable table in every file, the catalog      *)
(* catches up with it and stays (Run, scheduler.go).                       *)
ToolsFollow ==
    <>[](\A c \in Categories : Rows[c][toolSource[c]] # <<>>) =>
        <>[](toolSnap = toolSource)
=============================================================================
