----------------------------- MODULE TermParser -----------------------------
(***************************************************************************)
(* How a month file is read (internal/dailyterm/parser.go): parseMonth as  *)
(* an automaton that takes one line per step.  A line is its kind; which   *)
(* text has which kind is the business of the regular expressions.         *)
(*                                                                         *)
(*   rule      a horizontal rule         day       "day - N"               *)
(*   badday    a day marker whose number does not fit an int               *)
(*   heading   an H2 or H3, not a label  fence     a code fence            *)
(*   definition, example   the labels    text, blank                       *)
(***************************************************************************)
EXTENDS Naturals, Sequences, FiniteSets, SequencesExt

CONSTANT MaxLines     \* bound: lines of a file

ASSUME LinesAssumption == MaxLines \in Nat

LineKinds == {"rule", "day", "badday", "heading", "fence", "definition",
              "example", "text", "blank"}
Sections == {"top", "definition", "example"}

VARIABLES
    lines,       \* the lines read so far
    previous,    \* kind of the last significant line
    day,         \* line of the day marker in force; 0 is none
    where,       \* section of the open term
    terms        \* the terms so far: the line of the title and of the day,
                 \* the body lines of every section, whether a fence is open

parserVars == <<lines, previous, day, where, terms>>

NewTerm(n) == [title |-> n, day |-> day, inFence |-> FALSE,
               body |-> [s \in Sections |-> <<>>]]

This == Len(lines) + 1

ReadRule ==
    /\ lines' = Append(lines, "rule")
    /\ previous' = "rule" /\ day' = 0
    /\ UNCHANGED <<where, terms>>

(* The number is kept when Atoi takes it.                                  *)
ReadDay(k) ==
    /\ k \in {"day", "badday"}
    /\ lines' = Append(lines, k)
    /\ previous' = "day"
    /\ day' = IF k = "day" THEN This ELSE day
    /\ UNCHANGED <<where, terms>>

(* The seeded fault: a heading below a label opens a term as well.         *)
AnchoredAfterLabel(k) ==
    /\ k = "heading"
    /\ previous \in {"empty", "rule", "day"} \/ where # "top"

(* A heading is a title below a rule, a day marker or the top of the file. *)
Anchored(k) == k = "heading" /\ previous \in {"empty", "rule", "day"}

ReadTitle(k) ==
    /\ Anchored(k)
    /\ lines' = Append(lines, k)
    /\ terms' = Append(terms, NewTerm(This))
    /\ where' = "top" /\ previous' = "heading"
    /\ UNCHANGED day

Significant(k) == IF k = "blank" THEN previous ELSE "text"

(* A line above the first title is dropped.                                *)
SkipLine(k) ==
    /\ k \notin {"rule", "day", "badday"} /\ ~Anchored(k)
    /\ terms = <<>>
    /\ lines' = Append(lines, k)
    /\ previous' = Significant(k)
    /\ UNCHANGED <<day, where, terms>>

(* The seeded fault: toggleFence keeps no state, only the fence line itself*)
(* is protected.                                                           *)
FencedLineOnly(k) == k = "fence"

(* toggleFence: a fence line, or a line inside an open fence.              *)
Fenced(k) == k = "fence" \/ Last(terms).inFence

WithLine(t, k) ==
    [t EXCEPT !.body = [t.body EXCEPT ![where] = Append(@, This)],
              !.inFence = (k = "fence") # t.inFence]

(* A body line: a label outside a fence turns to its section and is        *)
(* dropped, any other line goes to the section of the last term.           *)
ReadBody(k) ==
    /\ k \notin {"rule", "day", "badday"} /\ ~Anchored(k)
    /\ terms # <<>>
    /\ lines' = Append(lines, k)
    /\ previous' = Significant(k)
    /\ IF k \in {"definition", "example"} /\ ~Fenced(k)
       THEN where' = k /\ UNCHANGED terms
       ELSE /\ terms' = [terms EXCEPT ![Len(terms)] = WithLine(@, k)]
            /\ UNCHANGED where
    /\ UNCHANGED day

ParserInit ==
    /\ lines = <<>> /\ previous = "empty" /\ day = 0
    /\ where = "top" /\ terms = <<>>

ParserNext ==
    /\ Len(lines) < MaxLines
    /\ \/ ReadRule
       \/ \E k \in LineKinds : ReadDay(k) \/ ReadTitle(k) \/ SkipLine(k)
                                 \/ ReadBody(k)

ParserSpec == ParserInit /\ [][ParserNext]_parserVars

(* trimBlankLines: the lines of a section without the blank ones at its    *)
(* ends.                                                                   *)
TrimBlankLines(body) ==
    LET full == {i \in DOMAIN body : lines[body[i]] # "blank"}
    IN  IF full = {} THEN <<>> ELSE SubSeq(body, Min(full), Max(full))

(* The seeded fault: an empty definition is left empty.                    *)
DefinitionAsLabelled(t) == TrimBlankLines(t.body["definition"])

(* finish: what a term shows as its definition.                            *)
Definition(t) ==
    LET labelled == TrimBlankLines(t.body["definition"])
    IN  IF labelled = <<>> THEN TrimBlankLines(t.body["top"]) ELSE labelled

Example(t) == TrimBlankLines(t.body["example"])

-----------------------------------------------------------------------------
(* What a file says without an automaton, of ls, its lines.  Line n is a   *)
(* title if the nearest line above it that is not blank is a rule or a day *)
(* marker, or there is none.                                               *)
Nearest(ls, i, n) == /\ ls[i] # "blank"
                     /\ \A j \in i + 1 .. n - 1 : ls[j] = "blank"

BelowMarker(ls, n) ==
    \A i \in 1 .. n - 1 :
        Nearest(ls, i, n) => ls[i] \in {"rule", "day", "badday"}

TitleLine(ls, n) == ls[n] = "heading" /\ BelowMarker(ls, n)

(* Line d is the last day marker above line n, unless a rule is in         *)
(* between; 0 is none.                                                     *)
DayAbove(ls, n, d) ==
    IF d = 0
    THEN \A i \in 1 .. n - 1 : ls[i] = "day" =>
             \E j \in i + 1 .. n - 1 : ls[j] = "rule"
    ELSE /\ d \in 1 .. n - 1 /\ ls[d] = "day"
         /\ \A j \in d + 1 .. n - 1 : ls[j] \notin {"rule", "day"}

(* The titles of the file are those of the terms, in order, each with the  *)
(* day above it (parseMonth, parser.go:141, :146, :164).                   *)
TitlesAndDays ==
    /\ {terms[k].title : k \in DOMAIN terms}
           = {n \in DOMAIN lines : TitleLine(lines, n)}
    /\ \A k \in DOMAIN terms :
           /\ k > 1 => terms[k - 1].title < terms[k].title
           /\ DayAbove(lines, terms[k].title, terms[k].day)

(* Of a term whose body begins at line first: a label is one outside a     *)
(* fence, and a line belongs to the section of the last label above it.    *)
Fences(ls, first, n) ==
    Cardinality({i \in first .. n - 1 : ls[i] = "fence"})

Label(ls, first, n) == /\ ls[n] \in {"definition", "example"}
                       /\ Fences(ls, first, n) % 2 = 0

InSection(ls, first, n, s) ==
    IF s = "top" THEN \A i \in first .. n - 1 : ~Label(ls, first, i)
    ELSE \E i \in first .. n - 1 :
             /\ ls[i] = s /\ Label(ls, first, i)
             /\ \A j \in i + 1 .. n - 1 : ~Label(ls, first, j)

Kept(ls, first, end, s) ==
    {n \in first .. end : /\ ls[n] \notin {"rule", "day", "badday"}
                          /\ ~Label(ls, first, n)
                          /\ InSection(ls, first, n, s)}

Enumerates(body, S) ==
    /\ {body[i] : i \in DOMAIN body} = S
    /\ \A i, j \in DOMAIN body : i < j => body[i] < body[j]

LastLine(k) == IF k = Len(terms) THEN Len(lines) ELSE terms[k + 1].title - 1

(* Every line below a title that is no marker, rule or label is kept, once *)
(* and in order, by the last term above it, in the section that the last   *)
(* label of that term outside a fence opened ("nothing a client could need *)
(* is dropped", parser.go:96; toggleFence, parser.go:231).                 *)
BodiesKeepEveryLine ==
    \A k \in DOMAIN terms, s \in Sections :
        Enumerates(terms[k].body[s],
                   Kept(lines, terms[k].title + 1, LastLine(k), s))

(* A term whose body has any text outside its example shows a definition,  *)
(* whatever labels it lacks, and what is shown neither begins nor ends     *)
(* with a blank line (finish, parser.go:244).                              *)
TextIsShown ==
    \A k \in DOMAIN terms :
        LET t == terms[k]
            text(s) == {i \in DOMAIN t.body[s] :
                           lines[t.body[s][i]] # "blank"}
        IN  /\ text("top") \cup text("definition") # {}
                   => Definition(t) # <<>>
            /\ text("example") # {} => Example(t) # <<>>
            /\ \A shown \in {Definition(t), Example(t)} : shown # <<>> =>
                   "blank" \notin {lines[Head(shown)], lines[Last(shown)]}
=============================================================================
