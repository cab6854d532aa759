----------------------------- MODULE DailyTerms -----------------------------
(***************************************************************************)
(* The journal of daily terms (internal/dailyterm: service.go,             *)
(* scheduler.go, store_memory.go): the scheduler's goroutine mirrors the   *)
(* month files of an upstream repository, one HTTP call per action, while  *)
(* upstream changes and readers list the snapshot.                         *)
(*                                                                         *)
(* What a file holds is a function of its version (TermParser.tla models   *)
(* how it is read); the snapshot keeps the files and their versions, which *)
(* fix its terms and their order, and the store's answers are computed     *)
(* from them.  Month m stands for the m-th month of the calendar.          *)
(***************************************************************************)
EXTENDS Naturals, Sequences, FiniteSets, Ordering

CONSTANTS
    TermFiles,         \* paths of the upstream tree, numbered in path order
    FileMonth,         \* the month of every path that is a month file
    TermTitles,
    Content,           \* Content[f][v]: the titles in version v of file f;
                       \* their number bounds the edits upstream
    Absent,            \* instead of titles: version v has no such file
    MaxTermFaults,     \* bound: HTTP calls that fail
    MaxTermRestarts    \* bound: restarts of the process

ASSUME TermsAssumption ==
    /\ TermFiles \subseteq Nat /\ IsFiniteSet(TermFiles)
    /\ DOMAIN FileMonth \subseteq TermFiles
    /\ \A f \in DOMAIN FileMonth : FileMonth[f] \in Nat \ {0}
    /\ \A f \in DOMAIN FileMonth :
           /\ Content[f] # <<>>
           /\ Content[f] \in Seq({Absent} \cup Seq(TermTitles))
    /\ Absent \notin Seq(TermTitles)
    /\ MaxTermFaults \in Nat /\ MaxTermRestarts \in Nat

MonthFiles == DOMAIN FileMonth
Months == {FileMonth[f] : f \in MonthFiles}

VARIABLES
    termSource,    \* the version of every month file upstream
    termPc,        \* what the scheduler does next
    termListing,   \* locations: the month files this sync is about
    termGot,       \* versions read so far by this sync; 0 is not yet
    termSnap,      \* the store: [files, got] of the last ReplaceAll
    today,         \* the current month
    reader,        \* a GET /daily-terms with no month
    (* history *)
    termFloor,     \* termSource when this sync began
    termFaults, termRestarts

termsVars == <<termSource, termPc, termListing, termGot, termSnap, today,
               reader, termFloor, termFaults, termRestarts>>

NoVersions == [f \in MonthFiles |-> 0]
EmptySnap == [files |-> {}, got |-> NoVersions]
IdleReader == [at |-> "idle", month |-> 0, rows |-> <<>>, saw |-> NoVersions]

-----------------------------------------------------------------------------
(* The terms of version v of file f, and those of a snapshot.              *)
TermsOf(f, v) ==
    {[id |-> <<FileMonth[f], Content[f][v][i]>>,
      month |-> FileMonth[f], file |-> f, version |-> v, at |-> i]
     : i \in DOMAIN Content[f][v]}

TermsIn(snap) == UNION {TermsOf(f, snap.got[f]) : f \in snap.files}

(* Files are fetched by month, then by path.                               *)
ByMonthAndPath(f, g) == \/ FileMonth[f] < FileMonth[g]
                        \/ FileMonth[f] = FileMonth[g] /\ f < g

FetchedBefore(s, t) == \/ ByMonthAndPath(s.file, t.file)
                       \/ s.file = t.file /\ s.at < t.at

(* The order of every month: the sort by month is stable.                  *)
ListedBefore(s, t) == \/ s.month > t.month
                      \/ s.month = t.month /\ FetchedBefore(s, t)

(* The slice ReplaceAll keeps, and MemoryStore.List: of one month in that  *)
(* order, of every month with the newest first.                            *)
SnapshotTerms(snap) == SortedBy(TermsIn(snap), FetchedBefore)

StoreListMonth(snap, m) ==
    SortedBy({t \in TermsIn(snap) : t.month = m}, FetchedBefore)

StoreListAll(snap) == SortedBy(TermsIn(snap), ListedBefore)

(* The seeded fault: a later term of the same id replaces the one kept.    *)
IndexLast(snap) ==
    LET terms == SnapshotTerms(snap)
    IN  [id \in {terms[i].id : i \in DOMAIN terms} |->
            CHOOSE i \in DOMAIN terms :
                /\ terms[i].id = id
                /\ \A j \in i + 1 .. Len(terms) : terms[j].id # id]

(* The index ReplaceAll builds: the first term of an id is the one kept.   *)
Index(snap) ==
    LET terms == SnapshotTerms(snap)
    IN  [id \in {terms[i].id : i \in DOMAIN terms} |->
            CHOOSE i \in DOMAIN terms :
                /\ terms[i].id = id
                /\ \A j \in 1 .. i - 1 : terms[j].id # id]

StoreGet(snap, id) == SnapshotTerms(snap)[Index(snap)[id]]

(* Months: every month of the snapshot, newest first, with its count.      *)
Summaries(snap) ==
    LET held == SortedBy({t.month : t \in TermsIn(snap)}, >)
    IN  [k \in DOMAIN held |->
            [month |-> held[k], count |-> Len(StoreListMonth(snap, held[k]))]]

(* resolveMonth of an empty request: the current month if there is one,    *)
(* else the newest; 0 is ErrNotFound.                                      *)
DefaultMonth(snap) ==
    LET months == Summaries(snap)
    IN  IF months = <<>> THEN 0
        ELSE IF \E k \in DOMAIN months : months[k].month = today THEN today
        ELSE months[1].month

-----------------------------------------------------------------------------
(* The sync: listMonths, fetchMonth, ReplaceAll.                           *)
Exists(f) == Content[f][termSource[f]] # Absent

Locations == {f \in MonthFiles : Exists(f)}

SyncEnds == /\ termPc' = "wait"
            /\ termListing' = {} /\ termGot' = NoVersions

(* The listing names every month file; none at all ends the sync.  A file  *)
(* that is not listed has been read, in effect: it is absent.              *)
ListMonths ==
    /\ termPc = "list"
    /\ termFloor' = termSource
    /\ IF Locations = {} THEN SyncEnds
       ELSE /\ termPc' = "fetch"
            /\ termListing' = Locations
            /\ termGot' = [f \in MonthFiles |->
                               IF Exists(f) THEN 0 ELSE termSource[f]]
    /\ UNCHANGED <<termSource, termSnap, today, reader, termFaults,
                   termRestarts>>

ToFetch == {f \in termListing : termGot[f] = 0}

IsNext(f) == \A g \in ToFetch \ {f} : ByMonthAndPath(f, g)

(* The next file, as it is now; one that is gone by now answers 404.       *)
FetchMonth ==
    /\ termPc = "fetch"
    /\ \E f \in ToFetch :
        /\ IsNext(f)
        /\ IF Exists(f)
           THEN /\ termGot' = [termGot EXCEPT ![f] = termSource[f]]
                /\ UNCHANGED <<termPc, termListing>>
           ELSE SyncEnds
    /\ UNCHANGED <<termSource, termSnap, today, reader, termFloor,
                   termFaults, termRestarts>>

(* The seeded fault: a month that cannot be fetched is skipped.            *)
FaultSkipsFile ==
    /\ termPc = "fetch"
    /\ termFaults < MaxTermFaults
    /\ termFaults' = termFaults + 1
    /\ \E f \in ToFetch : IsNext(f) /\ termListing' = termListing \ {f}
    /\ UNCHANGED <<termSource, termPc, termGot, termSnap, today, reader,
                   termFloor, termRestarts>>

(* A call fails: no connection, a status that is not 200, a body that is   *)
(* cut off or too large, or a listing that says it is truncated.           *)
TermFault ==
    /\ termPc = "list" \/ (termPc = "fetch" /\ ToFetch # {})
    /\ termFaults < MaxTermFaults
    /\ termFaults' = termFaults + 1
    /\ SyncEnds
    /\ UNCHANGED <<termSource, termSnap, today, reader, termFloor,
                   termRestarts>>

ReplaceTerms ==
    /\ termPc = "fetch" /\ ToFetch = {}
    /\ termSnap' = [files |-> termListing, got |-> termGot]
    /\ SyncEnds
    /\ UNCHANGED <<termSource, today, reader, termFloor, termFaults,
                   termRestarts>>

(* The seeded fault: the scheduler returns after a failed sync.            *)
MidnightOnce ==
    /\ termPc = "wait" /\ termFaults = 0
    /\ termPc' = "list"
    /\ UNCHANGED <<termSource, termListing, termGot, termSnap, today,
                   reader, termFloor, termFaults, termRestarts>>

(* The timer fires.  What the last sync came to does not matter.           *)
TermsMidnight ==
    /\ termPc = "wait"
    /\ termPc' = "list"
    /\ UNCHANGED <<termSource, termListing, termGot, termSnap, today,
                   reader, termFloor, termFaults, termRestarts>>

TermsScheduler == ListMonths \/ FetchMonth \/ TermFault \/ ReplaceTerms
                    \/ TermsMidnight

-----------------------------------------------------------------------------
(* A reader that names no month reads the snapshot twice.                  *)
ResolveMonth ==
    /\ reader.at = "idle"
    /\ LET m == DefaultMonth(termSnap)
       IN  reader' = IF m = 0
                     THEN [IdleReader EXCEPT !.at = "nothing"]
                     ELSE [IdleReader EXCEPT !.at = "resolved", !.month = m,
                                             !.saw = termSnap.got]
    /\ UNCHANGED <<termSource, termPc, termListing, termGot, termSnap, today,
                   termFloor, termFaults, termRestarts>>

ListTerms ==
    /\ reader.at = "resolved"
    /\ LET rows == StoreListMonth(termSnap, reader.month)
       IN  reader' = [reader EXCEPT
                         !.at = IF rows = <<>> THEN "lost" ELSE "answered",
                         !.rows = rows]
    /\ UNCHANGED <<termSource, termPc, termListing, termGot, termSnap, today,
                   termFloor, termFaults, termRestarts>>

NewReader ==
    /\ reader.at \in {"answered", "lost", "nothing"}
    /\ reader' = IdleReader
    /\ UNCHANGED <<termSource, termPc, termListing, termGot, termSnap, today,
                   termFloor, termFaults, termRestarts>>

-----------------------------------------------------------------------------
(* The environment: commits upstream, the calendar, restarts.              *)
EditMonth(f) ==
    /\ termSource[f] < Len(Content[f])
    /\ termSource' = [termSource EXCEPT ![f] = @ + 1]
    /\ UNCHANGED <<termPc, termListing, termGot, termSnap, today, reader,
                   termFloor, termFaults, termRestarts>>

NextMonth ==
    /\ \E m \in Months : m > today
    /\ today' = today + 1
    /\ UNCHANGED <<termSource, termPc, termListing, termGot, termSnap,
                   reader, termFloor, termFaults, termRestarts>>

RestartTerms ==
    /\ termRestarts < MaxTermRestarts
    /\ termRestarts' = termRestarts + 1
    /\ termPc' = "list" /\ termListing' = {} /\ termGot' = NoVersions
    /\ termSnap' = EmptySnap /\ reader' = IdleReader
    /\ UNCHANGED <<termSource, today, termFloor, termFaults>>

TermsInit ==
    /\ termSource = [f \in MonthFiles |-> 1]
    /\ termPc = "list" /\ termListing = {} /\ termGot = NoVersions
    /\ termSnap = EmptySnap
    /\ today = 1
    /\ reader = IdleReader
    /\ termFloor = NoVersions
    /\ termFaults = 0 /\ termRestarts = 0

TermsNext ==
    \/ TermsScheduler
    \/ ResolveMonth \/ ListTerms \/ NewReader
    \/ \E f \in MonthFiles : EditMonth(f)
    \/ NextMonth \/ RestartTerms

(* The scheduler's goroutine is the only one that must go on: an HTTP call *)
(* ends by its timeout and the timer of the next midnight fires.           *)
TermsSpec == TermsInit /\ [][TermsNext]_termsVars
               /\ WF_termsVars(TermsScheduler)

-----------------------------------------------------------------------------
(* The journal is a mirror of the upstream files (Sync, service.go:177):   *)
(* replaced whole, never older than upstream was when the sync began.      *)
TermsMirrorOf == INSTANCE Mirror WITH
    Files <- MonthFiles, source <- termSource, floor <- termFloor,
    served <- termSnap.got

TermsMirror == TermsMirrorOf!Spec

(* Whether version v of file f holds any term.                             *)
Holds(f, v) == v > 0 /\ Content[f][v] # Absent /\ Content[f][v] # <<>>

(* "a bad day upstream never blanks a month": when the second read of a    *)
(* listing finds nothing of the month the first one found, upstream itself *)
(* removed or emptied, since, every file that held the month's terms       *)
(* (List, service.go:123; Sync, service.go:177).                           *)
OnlyUpstreamDropsAMonth ==
    reader.at = "lost" =>
        \A f \in MonthFiles :
            FileMonth[f] = reader.month /\ Holds(f, reader.saw[f]) =>
                \E v \in reader.saw[f] .. termSource[f] : ~Holds(f, v)

(* A term shown by the listing is found by its id, and where two files of  *)
(* a month use one id, Get finds the first that the listing shows          *)
(* (ReplaceAll, store_memory.go:23; Get, service.go:165).                  *)
GetFindsTheFirstListed ==
    LET rows == StoreListAll(termSnap)
    IN  \A i \in DOMAIN rows :
            (\A j \in 1 .. i - 1 : rows[j].id # rows[i].id)
                => StoreGet(termSnap, rows[i].id) = rows[i]

(* Once upstream rests, and lists any month, the journal catches up with   *)
(* it and stays: no failure stops the scheduler (Run, scheduler.go:31).    *)
TermsFollow ==
    <>[](Locations # {}) =>
        <>[](\A f \in MonthFiles : termSnap.got[f] = termSource[f])
=============================================================================
