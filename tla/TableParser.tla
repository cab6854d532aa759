---------------------------- MODULE TableParser -----------------------------
(***************************************************************************)
(* How a source file of the catalog is read (internal/tools/parser.go):    *)
(* parseTable takes one line per step, parseTools keeps the usable rows of *)
(* the table it finds.  A line is its kind:                                *)
(*                                                                         *)
(*   header    a row with an ID cell        dashes   a separator row       *)
(*   other     a row that is neither        prose    a line without "|"    *)
(*   r1, r2    a usable row with that id, which may come again             *)
(***************************************************************************)
EXTENDS Naturals, Sequences, FiniteSets, SequencesExt

CONSTANT MaxTableLines     \* bound: lines of a file

ASSUME TableLinesAssumption == MaxTableLines \in Nat

RowKinds == {"header", "dashes", "other", "r1", "r2"}
TableLineKinds == RowKinds \cup {"prose"}

VARIABLES
    tableLines,    \* the lines read so far
    block,         \* the run of table lines being read
    table,         \* the data rows of the data table, once it is found
    found          \* whether it is

tableVars == <<tableLines, block, table, found>>

Rest(b) == SubSeq(b, 3, Len(b))

(* The seeded fault: any block of rows with an id is a data table.         *)
AnyBlockWithId(b) == Len(b) >= 2 /\ b[1] = "header"

(* tableFromBlock: header, separator, and at least one data row.           *)
DataTable(b) == Len(b) >= 3 /\ b[1] = "header" /\ b[2] = "dashes"

ReadTableLine(k) ==
    /\ ~found
    /\ tableLines' = Append(tableLines, k)
    /\ IF k \in RowKinds
       THEN block' = Append(block, k) /\ UNCHANGED <<table, found>>
       ELSE /\ block' = <<>>
            /\ found' = DataTable(block)
            /\ table' = IF DataTable(block) THEN Rest(block) ELSE table

TableInit ==
    /\ tableLines = <<>> /\ block = <<>> /\ table = <<>>
    /\ found = FALSE

TableNext ==
    /\ Len(tableLines) < MaxTableLines
    /\ \E k \in TableLineKinds : ReadTableLine(k)

TableSpec == TableInit /\ [][TableNext]_tableVars

(* The end of the file ends a block.                                       *)
TableRows == IF found THEN table
             ELSE IF DataTable(block) THEN Rest(block) ELSE <<>>

(* parseTools: positions of the rows with an id and a name, the first of   *)
(* every id (toolFromRow); no such row is an error.                        *)
UsableRows(rows) ==
    {i \in DOMAIN rows : /\ rows[i] \in {"r1", "r2"}
                         /\ \A j \in 1 .. i - 1 : rows[j] # rows[i]}

-----------------------------------------------------------------------------
(* Without an automaton: lines i to j of a file are a run of table lines,  *)
(* and it is a data table, one header with an ID and dashes below.         *)
Run(ls, i, j) == /\ \A k \in i .. j : ls[k] # "prose"
                 /\ i = 1 \/ ls[i - 1] = "prose"
                 /\ j = Len(ls) \/ ls[j + 1] = "prose"

DataRun(ls, i, j) == /\ i + 2 <= j /\ Run(ls, i, j)
                     /\ ls[i] = "header" /\ ls[i + 1] = "dashes"

(* If the file ended here, the rows are those of the first run of table    *)
(* lines that is a data table, up to the next line of prose; legends and   *)
(* notes above it do not count, nothing below it does, and a bad row hides *)
(* no good one (parseTools, parser.go:57; parseTable, parser.go:81).       *)
FirstDataTableIsRead ==
    LET at == DOMAIN tableLines
        rows == TableRows
    IN  /\ \/ /\ \A i, j \in at : ~DataRun(tableLines, i, j)
              /\ rows = <<>>
           \/ \E i, j \in at :
                 /\ DataRun(tableLines, i, j)
                 /\ \A a, b \in at : DataRun(tableLines, a, b) => i <= a
                 /\ rows = SubSeq(tableLines, i + 2, j)
        /\ \A id \in ToSet(rows) \cap {"r1", "r2"} :
               Cardinality({i \in UsableRows(rows) : rows[i] = id}) = 1
=============================================================================
