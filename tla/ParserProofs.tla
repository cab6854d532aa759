---------------------------- MODULE ParserProofs ----------------------------
(***************************************************************************)
(* Proofs about how upstream files are read (TermParser, TableParser).     *)
(* What the automaton knows after a line is compared with what the lines   *)
(* themselves say; a line that comes later changes none of it.             *)
(***************************************************************************)
EXTENDS TermParser, TableParser, OrderingProofs

Previous == {"empty", "rule", "day", "heading", "text"}
TermRecord == [title : Nat, day : Nat, inFence : BOOLEAN,
               body : [Sections -> Seq(Nat)]]

(* The shape of the variables (parseMonth, bodyParts).                     *)
ParserShape ==
    /\ lines \in Seq(LineKinds) /\ previous \in Previous /\ day \in Nat
    /\ where \in Sections /\ terms \in Seq(TermRecord)

LEMMA ShapeInit == ParserInit => ParserShape
  BY DEF ParserInit, ParserShape, Previous, Sections

LEMMA TermFields ==
    ASSUME NEW t \in TermRecord
    PROVE  /\ t.title \in Nat /\ t.day \in Nat /\ t.inFence \in BOOLEAN
           /\ t.body \in [Sections -> Seq(Nat)]
           /\ \A s \in Sections : t.body[s] \in Seq(Nat)
  BY DEF TermRecord

(* A body line goes to the last term, and nothing else of a term changes.  *)
BodyLine(k) == terms' = [terms EXCEPT ![Len(terms)] = WithLine(@, k)]

LEMMA BodyLineFacts ==
    ASSUME ParserShape, terms # <<>>, NEW k \in LineKinds, BodyLine(k)
    PROVE  LET n == Len(terms)
           IN  /\ terms' \in Seq(TermRecord) /\ Len(terms') = n
               /\ n \in DOMAIN terms
               /\ \A i \in DOMAIN terms : i # n => terms'[i] = terms[i]
               /\ terms'[n].title = terms[n].title
               /\ terms'[n].day = terms[n].day
               /\ terms'[n].inFence = ((k = "fence") # terms[n].inFence)
               /\ \A s \in Sections : s # where =>
                      terms'[n].body[s] = terms[n].body[s]
               /\ terms'[n].body[where] = Append(terms[n].body[where], This)
<1> DEFINE n == Len(terms)
<1>1. /\ terms \in Seq(TermRecord) /\ lines \in Seq(LineKinds)
      /\ where \in Sections
  BY DEF ParserShape
<1>2. n \in Nat /\ n # 0 /\ n \in DOMAIN terms
  BY <1>1
<1>3. PICK t \in TermRecord : t = terms[n]
  BY <1>1, <1>2
<1>4. PICK title, d, fence, body :
          /\ t = [title |-> title, day |-> d, inFence |-> fence,
                  body |-> body]
          /\ title \in Nat /\ d \in Nat /\ fence \in BOOLEAN
          /\ body \in [Sections -> Seq(Nat)]
  BY DEF TermRecord
<1>5. PICK now : now = [body EXCEPT ![where] = Append(@, This)]
  OBVIOUS
<1>6. This \in Nat
  BY <1>1 DEF This
<1>7. /\ now \in [Sections -> Seq(Nat)]
      /\ now[where] = Append(body[where], This)
      /\ \A s \in Sections : s # where => now[s] = body[s]
  BY <1>1, <1>4, <1>5, <1>6
<1>8. PICK open : open = ((k = "fence") # fence) /\ open \in BOOLEAN
  OBVIOUS
<1>9. PICK new : new = [title |-> title, day |-> d, inFence |-> open,
                        body |-> now]
  OBVIOUS
<1>10. new \in TermRecord
  BY <1>4, <1>7, <1>8, <1>9 DEF TermRecord
<1>11. terms' = [terms EXCEPT ![n] = new]
  <2>1. terms' = [terms EXCEPT ![n] = WithLine(t, k)]
    BY <1>2, <1>3 DEF BodyLine
  <2>2. WithLine(t, k) = [t EXCEPT !.body = now, !.inFence = open]
    <3>1. WithLine(t, k)
            = [t EXCEPT !.body = [t.body EXCEPT ![where] = Append(@, This)],
                        !.inFence = (k = "fence") # t.inFence]
      BY Zenon DEF WithLine
    <3>2. t.body = body /\ t.inFence = fence
      BY <1>4
    <3> QED  BY <1>5, <1>8, <3>1, <3>2, Zenon
  <2>3. WithLine(t, k) = new
    BY <1>4, <1>9, <2>2
  <2> QED  BY <2>1, <2>3
<1>12. /\ terms' \in Seq(TermRecord) /\ Len(terms') = n
       /\ terms'[n] = new
       /\ \A i \in DOMAIN terms : i # n => terms'[i] = terms[i]
  BY <1>1, <1>2, <1>10, <1>11
<1>13. /\ new.title = title /\ new.day = d /\ new.inFence = open
       /\ new.body = now
       /\ t.title = title /\ t.day = d /\ t.inFence = fence /\ t.body = body
  BY <1>4, <1>9
<1> QED
  BY <1>2, <1>3, <1>7, <1>8, <1>12, <1>13

LEMMA ShapeStep == ParserShape /\ [ParserNext]_parserVars => ParserShape'
<1> SUFFICES ASSUME ParserShape, [ParserNext]_parserVars PROVE ParserShape'
  OBVIOUS
<1>1. /\ lines \in Seq(LineKinds) /\ previous \in Previous /\ day \in Nat
      /\ where \in Sections /\ terms \in Seq(TermRecord)
  BY DEF ParserShape
<1>2. This \in Nat
  BY <1>1 DEF This
<1>3. CASE ReadRule
  BY <1>1, <1>3 DEF ReadRule, ParserShape, LineKinds, Previous
<1>4. ASSUME NEW k \in LineKinds, ReadDay(k) PROVE ParserShape'
  BY <1>1, <1>2, <1>4 DEF ReadDay, ParserShape, LineKinds, Previous
<1>5. ASSUME NEW k \in LineKinds, ReadTitle(k) PROVE ParserShape'
  <2>1. NewTerm(This) \in TermRecord
    <3>1. [s \in Sections |-> <<>>] \in [Sections -> Seq(Nat)]
      OBVIOUS
    <3> QED  BY <1>1, <1>2, <3>1 DEF NewTerm, TermRecord
  <2>2. terms' \in Seq(TermRecord)
    BY <1>1, <1>5, <2>1 DEF ReadTitle
  <2>3. lines' \in Seq(LineKinds) /\ day' = day
    BY <1>1, <1>5 DEF ReadTitle
  <2>4. where' \in Sections /\ previous' \in Previous
    BY <1>5 DEF ReadTitle, Sections, Previous
  <2> QED  BY <1>1, <2>2, <2>3, <2>4 DEF ParserShape
<1>6. ASSUME NEW k \in LineKinds, SkipLine(k) PROVE ParserShape'
  BY <1>1, <1>6 DEF SkipLine, Significant, ParserShape, Previous
<1>7. ASSUME NEW k \in LineKinds, ReadBody(k) PROVE ParserShape'
  <2>1. lines' \in Seq(LineKinds) /\ previous' \in Previous /\ day' \in Nat
    BY <1>1, <1>7 DEF ReadBody, Significant, Previous
  <2>2. CASE k \in {"definition", "example"} /\ ~Fenced(k)
    <3>1. where' \in Sections /\ terms' = terms
      BY <1>7, <2>2 DEF ReadBody, Sections
    <3> QED  BY <1>1, <2>1, <3>1 DEF ParserShape
  <2>3. CASE ~(k \in {"definition", "example"} /\ ~Fenced(k))
    <3>1. BodyLine(k) /\ terms # <<>> /\ where' = where
      BY <1>7, <2>3 DEF ReadBody, BodyLine
    <3>2. terms' \in Seq(TermRecord)
      BY <3>1, BodyLineFacts
    <3> QED  BY <1>1, <2>1, <3>1, <3>2 DEF ParserShape
  <2> QED  BY <2>2, <2>3
<1>8. CASE UNCHANGED parserVars
  BY <1>1, <1>8 DEF parserVars, ParserShape
<1> QED
  BY <1>3, <1>4, <1>5, <1>6, <1>7, <1>8 DEF ParserNext

-----------------------------------------------------------------------------
(* What the first n lines say does not depend on those below them.         *)
LEMMA BelowMarkerStays ==
    ASSUME NEW ls, NEW more, NEW n \in Nat, \A i \in 1 .. n : more[i] = ls[i],
           NEW m \in 1 .. n + 1
    PROVE  /\ BelowMarker(more, m) <=> BelowMarker(ls, m)
           /\ m <= n => (TitleLine(more, m) <=> TitleLine(ls, m))
<1>1. \A i \in 1 .. m - 1 : Nearest(more, i, m) <=> Nearest(ls, i, m)
  BY DEF Nearest
<1>2. \A i \in 1 .. m - 1 : more[i] = ls[i]
  OBVIOUS
<1>3. BelowMarker(more, m) <=> BelowMarker(ls, m)
  BY <1>1, <1>2 DEF BelowMarker
<1> QED
  BY <1>3 DEF TitleLine

LEMMA DayAboveStays ==
    ASSUME NEW ls, NEW more, NEW n \in Nat, \A i \in 1 .. n : more[i] = ls[i],
           NEW m \in 1 .. n + 1, NEW d \in Nat
    PROVE  DayAbove(more, m, d) <=> DayAbove(ls, m, d)
<1>1. \A i \in 1 .. m - 1 : more[i] = ls[i]
  OBVIOUS
<1> QED
  BY <1>1 DEF DayAbove

LEMMA FencesStay ==
    ASSUME NEW ls, NEW more, NEW n \in Nat, \A i \in 1 .. n : more[i] = ls[i],
           NEW first \in Nat \ {0}, NEW m \in 1 .. n + 1
    PROVE  /\ Fences(more, first, m) = Fences(ls, first, m)
           /\ m <= n => (Label(more, first, m) <=> Label(ls, first, m))
<1>1. \A i \in first .. m - 1 : more[i] = ls[i]
  OBVIOUS
<1>2. {i \in first .. m - 1 : more[i] = "fence"}
        = {i \in first .. m - 1 : ls[i] = "fence"}
  BY <1>1
<1>3. Fences(more, first, m) = Fences(ls, first, m)
  BY <1>2 DEF Fences
<1> QED
  BY <1>3 DEF Label

LEMMA SectionStays ==
    ASSUME NEW ls, NEW more, NEW n \in Nat, \A i \in 1 .. n : more[i] = ls[i],
           NEW first \in Nat \ {0}, NEW m \in 1 .. n + 1, NEW s
    PROVE  InSection(more, first, m, s) <=> InSection(ls, first, m, s)
<1>1. \A i \in first .. m - 1 : i \in 1 .. n + 1 /\ i <= n /\ more[i] = ls[i]
  OBVIOUS
<1>2. \A i \in first .. m - 1 : Label(more, first, i) <=> Label(ls, first, i)
  BY <1>1, FencesStay
<1> QED
  BY <1>1, <1>2 DEF InSection

LEMMA KeptStays ==
    ASSUME NEW ls, NEW more, NEW n \in Nat, \A i \in 1 .. n : more[i] = ls[i],
           NEW first \in Nat \ {0}, NEW m \in 0 .. n, NEW s
    PROVE  Kept(more, first, m, s) = Kept(ls, first, m, s)
<1>1. \A i \in first .. m : i \in 1 .. n + 1 /\ i <= n /\ more[i] = ls[i]
  OBVIOUS
<1>2. \A i \in first .. m : Label(more, first, i) <=> Label(ls, first, i)
  BY <1>1, FencesStay
<1>3. \A i \in first .. m :
          InSection(more, first, i, s) <=> InSection(ls, first, i, s)
  BY <1>1, SectionStays
<1> QED
  BY <1>1, <1>2, <1>3 DEF Kept

-----------------------------------------------------------------------------
(* What one more line k changes.                                           *)
OneMore(ls, more, n, k) ==
    /\ \A i \in 1 .. n : more[i] = ls[i]
    /\ more[n + 1] = k

LEMMA LineAppended ==
    ASSUME ParserShape, NEW k \in LineKinds, lines' = Append(lines, k)
    PROVE  /\ Len(lines) \in Nat /\ Len(lines') = Len(lines) + 1
           /\ OneMore(lines, lines', Len(lines), k)
  BY DEF ParserShape, OneMore

LEMMA BelowMarkerGrows ==
    ASSUME NEW ls, NEW more, NEW n \in Nat, NEW k, OneMore(ls, more, n, k)
    PROVE  BelowMarker(more, n + 2) <=>
             IF k = "blank" THEN BelowMarker(ls, n + 1)
             ELSE k \in {"rule", "day", "badday"}
<1>1. /\ \A i \in 1 .. n : more[i] = ls[i]
      /\ more[n + 1] = k
  BY DEF OneMore
<1>2. CASE k = "blank"
  <2>1. \A i \in 1 .. n : Nearest(more, i, n + 2) <=> Nearest(ls, i, n + 1)
    <3> TAKE i \in 1 .. n
    <3>1. \A j \in i + 1 .. n : more[j] = ls[j]
      BY <1>1
    <3>2. i + 1 .. n + 2 - 1 = (i + 1 .. n) \cup {n + 1}
      OBVIOUS
    <3>3. i + 1 .. n + 1 - 1 = i + 1 .. n
      OBVIOUS
    <3>4. /\ Nearest(more, i, n + 2) <=>
               more[i] # "blank" /\ \A j \in i + 1 .. n : more[j] = "blank"
          /\ Nearest(ls, i, n + 1) <=>
               ls[i] # "blank" /\ \A j \in i + 1 .. n : ls[j] = "blank"
      BY <1>1, <1>2, <3>2, <3>3 DEF Nearest
    <3> QED  BY <1>1, <3>1, <3>4
  <2>2. ~Nearest(more, n + 1, n + 2)
    BY <1>1, <1>2 DEF Nearest
  <2>3. 1 .. n + 2 - 1 = (1 .. n) \cup {n + 1} /\ 1 .. n + 1 - 1 = 1 .. n
    OBVIOUS
  <2> QED
    BY <1>1, <1>2, <2>1, <2>2, <2>3 DEF BelowMarker
<1>3. CASE k # "blank"
  <2>1. \A i \in 1 .. n : ~Nearest(more, i, n + 2)
    BY <1>1, <1>3 DEF Nearest
  <2>2. Nearest(more, n + 1, n + 2)
    BY <1>1, <1>3 DEF Nearest
  <2>3. 1 .. n + 2 - 1 = (1 .. n) \cup {n + 1}
    OBVIOUS
  <2> QED
    BY <1>1, <1>3, <2>1, <2>2, <2>3 DEF BelowMarker
<1> QED
  BY <1>2, <1>3

LEMMA DayAboveGrows ==
    ASSUME NEW ls, NEW more, NEW n \in Nat, NEW k, OneMore(ls, more, n, k),
           NEW d \in Nat, DayAbove(ls, n + 1, d)
    PROVE  DayAbove(more, n + 2, IF k = "day" THEN n + 1
                                 ELSE IF k = "rule" THEN 0 ELSE d)
<1>1. /\ \A i \in 1 .. n : more[i] = ls[i]
      /\ more[n + 1] = k
  BY DEF OneMore
<1>2. /\ 1 .. n + 2 - 1 = (1 .. n) \cup {n + 1} /\ 1 .. n + 1 - 1 = 1 .. n
      /\ \A i \in 0 .. n : i + 1 .. n + 2 - 1 = (i + 1 .. n) \cup {n + 1}
  OBVIOUS
<1>3. CASE k = "day"
  BY <1>1, <1>3 DEF DayAbove
<1>4. CASE k = "rule"
  BY <1>1, <1>2, <1>4 DEF DayAbove
<1>5. CASE k # "day" /\ k # "rule"
  <2>1. CASE d = 0
    <3>1. \A i \in 1 .. n : ls[i] = "day" =>
              \E j \in i + 1 .. n : ls[j] = "rule"
      BY <2>1 DEF DayAbove
    <3>2. ASSUME NEW i \in 1 .. n + 2 - 1, more[i] = "day"
          PROVE  \E j \in i + 1 .. n + 2 - 1 : more[j] = "rule"
      <4>1. i \in 1 .. n /\ ls[i] = "day"
        BY <1>1, <1>2, <1>5, <3>2
      <4>2. PICK j \in i + 1 .. n : ls[j] = "rule"
        BY <3>1, <4>1
      <4> QED  BY <1>1, <1>2, <4>1, <4>2
    <3> QED  BY <1>5, <2>1, <3>2 DEF DayAbove
  <2>2. CASE d # 0
    <3>1. /\ d \in 1 .. n /\ ls[d] = "day"
          /\ \A j \in d + 1 .. n : ls[j] \notin {"rule", "day"}
      BY <2>2 DEF DayAbove
    <3>2. \A j \in d + 1 .. n + 2 - 1 : more[j] \notin {"rule", "day"}
      BY <1>1, <1>2, <1>5, <3>1
    <3> QED  BY <1>1, <1>5, <2>2, <3>1, <3>2 DEF DayAbove
  <2> QED  BY <2>1, <2>2
<1> QED
  BY <1>3, <1>4, <1>5

-----------------------------------------------------------------------------
(* What previous and day say of the lines read so far.                     *)
MarkerInv ==
    /\ previous \in {"empty", "rule", "day"}
         <=> BelowMarker(lines, Len(lines) + 1)
    /\ DayAbove(lines, Len(lines) + 1, day)

LEMMA MarkerInit == ParserInit => MarkerInv
<1> SUFFICES ASSUME ParserInit PROVE MarkerInv
  OBVIOUS
<1>1. lines = <<>> /\ previous = "empty" /\ day = 0 /\ Len(lines) = 0
  BY DEF ParserInit
<1>2. BelowMarker(lines, 1)
  BY DEF BelowMarker
<1>3. DayAbove(lines, 1, 0)
  BY DEF DayAbove
<1> QED
  BY <1>1, <1>2, <1>3 DEF MarkerInv

(* How a line moves previous and day, whatever else it does.               *)
MovesOn(k) ==
    /\ lines' = Append(lines, k)
    /\ previous' = IF k = "blank" THEN previous
                   ELSE IF k = "rule" THEN "rule"
                   ELSE IF k \in {"day", "badday"} THEN "day"
                   ELSE IF Anchored(k) THEN "heading" ELSE "text"
    /\ day' = IF k = "day" THEN This ELSE IF k = "rule" THEN 0 ELSE day

LEMMA AnyLineMovesOn ==
    ASSUME NEW k \in LineKinds,
           \/ ReadRule /\ k = "rule"
           \/ ReadDay(k) \/ ReadTitle(k) \/ SkipLine(k) \/ ReadBody(k)
    PROVE  MovesOn(k)
  BY DEF ReadRule, ReadDay, ReadTitle, SkipLine, ReadBody, MovesOn, Anchored,
         Significant

LEMMA MarkerStep ==
    ASSUME ParserShape, MarkerInv, NEW k \in LineKinds, MovesOn(k)
    PROVE  MarkerInv'
<1> DEFINE n == Len(lines)
<1>1. /\ n \in Nat /\ Len(lines') = n + 1 /\ OneMore(lines, lines', n, k)
  BY LineAppended DEF MovesOn
<1>2. /\ previous \in {"empty", "rule", "day"} <=> BelowMarker(lines, n + 1)
      /\ DayAbove(lines, n + 1, day) /\ day \in Nat
  BY DEF MarkerInv, ParserShape
<1> HIDE DEF n
<1>3. previous' \in {"empty", "rule", "day"} <=> BelowMarker(lines', n + 2)
  <2>1. BelowMarker(lines', n + 2) <=>
          IF k = "blank" THEN BelowMarker(lines, n + 1)
          ELSE k \in {"rule", "day", "badday"}
    BY <1>1, BelowMarkerGrows
  <2>2. k = "blank" => previous' = previous
    BY DEF MovesOn
  <2>3. k # "blank" => (previous' \in {"empty", "rule", "day"}
                          <=> k \in {"rule", "day", "badday"})
    BY DEF MovesOn, LineKinds
  <2> QED  BY <1>2, <2>1, <2>2, <2>3
<1>4. DayAbove(lines', n + 2, day')
  <2>1. day' = IF k = "day" THEN n + 1 ELSE IF k = "rule" THEN 0 ELSE day
    BY DEF MovesOn, This, n
  <2>2. DayAbove(lines', n + 2, IF k = "day" THEN n + 1
                                ELSE IF k = "rule" THEN 0 ELSE day)
    BY <1>1, <1>2, DayAboveGrows
  <2> QED  BY <2>1, <2>2, Zenon
<1>5. Len(lines') + 1 = n + 2
  BY <1>1
<1> QED
  BY <1>3, <1>4, <1>5, Zenon DEF MarkerInv

(* A line that is no title leaves the titles, one that is adds one.        *)
SameTitles ==
    /\ Len(terms') = Len(terms)
    /\ \A i \in DOMAIN terms : /\ terms'[i].title = terms[i].title
                               /\ terms'[i].day = terms[i].day

LEMMA TitlesStay ==
    ASSUME ParserShape, ParserShape', MarkerInv, TitlesAndDays,
           NEW k \in LineKinds, MovesOn(k), ~Anchored(k), SameTitles
    PROVE  TitlesAndDays'
<1> DEFINE n == Len(lines)
<1>1. /\ n \in Nat /\ Len(lines') = n + 1
      /\ \A i \in 1 .. n : lines'[i] = lines[i]
      /\ lines'[n + 1] = k
  BY LineAppended DEF MovesOn, OneMore
<1> HIDE DEF n
<1>2. /\ \A m \in 1 .. n + 1 :
             BelowMarker(lines', m) <=> BelowMarker(lines, m)
      /\ \A m \in 1 .. n + 1, d \in Nat :
             DayAbove(lines', m, d) <=> DayAbove(lines, m, d)
  BY <1>1, BelowMarkerStays, DayAboveStays
<1>3. DOMAIN lines = 1 .. n /\ DOMAIN lines' = (1 .. n) \cup {n + 1}
      /\ DOMAIN terms' = DOMAIN terms /\ DOMAIN terms = 1 .. Len(terms)
      /\ Len(terms) \in Nat
  BY <1>1 DEF ParserShape, SameTitles, n
<1>4. ~TitleLine(lines', n + 1)
  <2>1. BelowMarker(lines', n + 1) <=> BelowMarker(lines, n + 1)
    BY <1>1, <1>2
  <2> QED  BY <1>1, <2>1 DEF TitleLine, MarkerInv, Anchored, n
<1>5. \A m \in 1 .. n : TitleLine(lines', m) <=> TitleLine(lines, m)
  BY <1>1, BelowMarkerStays
<1>6. {m \in DOMAIN lines' : TitleLine(lines', m)}
        = {m \in DOMAIN lines : TitleLine(lines, m)}
  BY <1>3, <1>4, <1>5
<1>7. {terms'[i].title : i \in DOMAIN terms'}
        = {terms[i].title : i \in DOMAIN terms}
  BY <1>3 DEF SameTitles
<1>8. ASSUME NEW i \in DOMAIN terms'
      PROVE  /\ i > 1 => terms'[i - 1].title < terms'[i].title
             /\ DayAbove(lines', terms'[i].title, terms'[i].day)
  <2>1. i \in DOMAIN terms /\ (i > 1 => i - 1 \in DOMAIN terms)
    BY <1>3
  <2>2. terms[i].title \in 1 .. n
    BY <1>3, <2>1 DEF TitlesAndDays
  <2>3. terms[i].day \in Nat
    BY <2>1, TermFields DEF ParserShape
  <2>4. DayAbove(lines', terms[i].title, terms[i].day)
    BY <1>1, <1>2, <2>1, <2>2, <2>3 DEF TitlesAndDays
  <2>5. i > 1 => terms[i - 1].title < terms[i].title
    BY <2>1 DEF TitlesAndDays
  <2> QED  BY <2>1, <2>4, <2>5 DEF SameTitles
<1>9. {terms'[i].title : i \in DOMAIN terms'}
        = {m \in DOMAIN lines' : TitleLine(lines', m)}
  BY <1>6, <1>7 DEF TitlesAndDays
<1> QED
  BY <1>8, <1>9 DEF TitlesAndDays

LEMMA TitleAdded ==
    ASSUME ParserShape, ParserShape', MarkerInv, TitlesAndDays,
           NEW k \in LineKinds, ReadTitle(k)
    PROVE  TitlesAndDays'
<1> DEFINE n == Len(lines)
           m == Len(terms)
<1>1. /\ n \in Nat /\ Len(lines') = n + 1
      /\ \A i \in 1 .. n : lines'[i] = lines[i]
      /\ lines'[n + 1] = k
  BY LineAppended DEF ReadTitle, OneMore
<1> HIDE DEF n
<1>2. /\ \A i \in 1 .. n + 1 :
             BelowMarker(lines', i) <=> BelowMarker(lines, i)
      /\ \A i \in 1 .. n + 1, d \in Nat :
             DayAbove(lines', i, d) <=> DayAbove(lines, i, d)
  BY <1>1, BelowMarkerStays, DayAboveStays
<1>3. DOMAIN lines = 1 .. n /\ DOMAIN lines' = (1 .. n) \cup {n + 1}
  BY <1>1 DEF ParserShape, n
<1>4. /\ m \in Nat /\ DOMAIN terms = 1 .. m
      /\ DOMAIN terms' = (1 .. m) \cup {m + 1}
      /\ \A i \in 1 .. m : terms'[i] = terms[i]
      /\ terms'[m + 1] = NewTerm(This)
  BY DEF ReadTitle, ParserShape
<1>5. NewTerm(This).title = n + 1 /\ NewTerm(This).day = day
  BY DEF NewTerm, This, n
<1>6. TitleLine(lines', n + 1)
  <2>1. BelowMarker(lines', n + 1) <=> BelowMarker(lines, n + 1)
    BY <1>1, <1>2
  <2> QED  BY <1>1, <2>1 DEF TitleLine, MarkerInv, Anchored, ReadTitle, n
<1>7. \A i \in 1 .. n : TitleLine(lines', i) <=> TitleLine(lines, i)
  BY <1>1, BelowMarkerStays
<1>8. {i \in DOMAIN lines' : TitleLine(lines', i)}
        = {i \in DOMAIN lines : TitleLine(lines, i)} \cup {n + 1}
  BY <1>3, <1>6, <1>7
<1>9. {terms'[i].title : i \in DOMAIN terms'}
        = {terms[i].title : i \in DOMAIN terms} \cup {n + 1}
  BY <1>4, <1>5
<1>10. ASSUME NEW i \in DOMAIN terms
       PROVE  terms[i].title \in 1 .. n /\ terms[i].day \in Nat
  <2>1. terms[i].title \in 1 .. n
    BY <1>3 DEF TitlesAndDays
  <2>2. terms[i].day \in Nat
    BY TermFields DEF ParserShape
  <2> QED  BY <2>1, <2>2
<1>11. ASSUME NEW i \in DOMAIN terms'
       PROVE  /\ i > 1 => terms'[i - 1].title < terms'[i].title
              /\ DayAbove(lines', terms'[i].title, terms'[i].day)
  <2>1. CASE i = m + 1
    <3>1. terms'[i].title = n + 1 /\ terms'[i].day = day /\ day \in Nat
      BY <1>4, <1>5, <2>1 DEF ParserShape
    <3>2. DayAbove(lines', n + 1, day)
      BY <1>1, <1>2, <3>1 DEF MarkerInv, n
    <3>3. i > 1 => terms'[i - 1].title < n + 1
      <4> SUFFICES ASSUME i > 1 PROVE terms'[i - 1].title < n + 1
        OBVIOUS
      <4>1. i - 1 = m /\ m \in DOMAIN terms
        BY <1>4, <2>1
      <4>2. terms'[i - 1] = terms[m]
        BY <1>4, <4>1
      <4> QED  BY <1>1, <1>10, <4>1, <4>2
    <3> QED  BY <3>1, <3>2, <3>3
  <2>2. CASE i # m + 1
    <3>1. i \in 1 .. m /\ i \in DOMAIN terms
      BY <1>4, <2>2
    <3>2. terms'[i] = terms[i]
      BY <1>4, <3>1
    <3>3. DayAbove(lines', terms[i].title, terms[i].day)
      BY <1>1, <1>10, <1>2, <3>1 DEF TitlesAndDays
    <3>4. i > 1 => terms[i - 1].title < terms[i].title
      BY <3>1 DEF TitlesAndDays
    <3>5. i > 1 => terms'[i - 1] = terms[i - 1]
      BY <1>4, <3>1
    <3> QED  BY <3>2, <3>3, <3>4, <3>5
  <2> QED  BY <2>1, <2>2
<1>12. {terms'[i].title : i \in DOMAIN terms'}
         = {i \in DOMAIN lines' : TitleLine(lines', i)}
  BY <1>8, <1>9 DEF TitlesAndDays
<1> QED
  BY <1>11, <1>12 DEF TitlesAndDays

-----------------------------------------------------------------------------
LEMMA Parity ==
    ASSUME NEW x \in Nat
    PROVE  x % 2 \in {0, 1} /\ ((x + 1) % 2 = 0 <=> x % 2 = 1)
  OBVIOUS

LEMMA FencesGrow ==
    ASSUME NEW ls, NEW more, NEW n \in Nat, NEW k, OneMore(ls, more, n, k),
           NEW first \in 1 .. n + 1
    PROVE  /\ Fences(ls, first, n + 1) \in Nat
           /\ Fences(more, first, n + 2)
                = Fences(ls, first, n + 1) + IF k = "fence" THEN 1 ELSE 0
<1> DEFINE F == {i \in first .. n + 1 - 1 : ls[i] = "fence"}
           G == {i \in first .. n + 2 - 1 : more[i] = "fence"}
<1>1. /\ \A i \in 1 .. n : more[i] = ls[i]
      /\ more[n + 1] = k
  BY DEF OneMore
<1>2. /\ first .. n + 1 - 1 = first .. n
      /\ first .. n + 2 - 1 = (first .. n) \cup {n + 1}
      /\ n + 1 \notin first .. n
  OBVIOUS
<1>3. G = F \cup (IF k = "fence" THEN {n + 1} ELSE {})
  BY <1>1, <1>2
<1>4. IsFiniteSet(F) /\ n + 1 \notin F
  <2>1. IsFiniteSet(first .. n)
    BY FS_Interval
  <2> QED  BY <1>2, <2>1, FS_Subset
<1>5. Cardinality(F) \in Nat
  BY <1>4, FS_CardinalityType
<1>6. Cardinality(F \cup {n + 1}) = Cardinality(F) + 1
  BY <1>4, FS_AddElement
<1>7. Cardinality(G) = Cardinality(F) + IF k = "fence" THEN 1 ELSE 0
  BY <1>3, <1>5, <1>6
<1> QED
  BY <1>5, <1>7 DEF Fences

LEMMA SectionGrows ==
    ASSUME NEW ls, NEW more, NEW n \in Nat, NEW k, OneMore(ls, more, n, k),
           NEW first \in 1 .. n + 1, NEW s \in Sections,
           InSection(ls, first, n + 1, s)
    PROVE  InSection(more, first, n + 2,
                     IF Label(more, first, n + 1) THEN k ELSE s)
<1>1. /\ \A i \in 1 .. n : more[i] = ls[i]
      /\ more[n + 1] = k
  BY DEF OneMore
<1>2. /\ first .. n + 1 - 1 = first .. n
      /\ first .. n + 2 - 1 = (first .. n) \cup {n + 1}
      /\ n + 1 + 1 .. n + 2 - 1 = {}
      /\ \A i \in first .. n :
            /\ i + 1 .. n + 2 - 1 = (i + 1 .. n) \cup {n + 1}
            /\ i + 1 .. n + 1 - 1 = i + 1 .. n
            /\ i \in 1 .. n /\ i + 1 .. n \subseteq first .. n
  OBVIOUS
<1>3. \A i \in first .. n : Label(more, first, i) <=> Label(ls, first, i)
  BY <1>1, FencesStay
<1>4. CASE Label(more, first, n + 1)
  <2>1. k \in {"definition", "example"} /\ k # "top"
    BY <1>1, <1>4 DEF Label
  <2>2. n + 1 \in first .. n + 2 - 1 /\ more[n + 1] = k
    BY <1>1
  <2> QED  BY <1>2, <1>4, <2>1, <2>2 DEF InSection
<1>5. CASE ~Label(more, first, n + 1)
  <2>1. CASE s = "top"
    <3>1. \A i \in first .. n : ~Label(more, first, i)
      BY <1>2, <1>3, <2>1 DEF InSection
    <3> QED  BY <1>2, <1>5, <2>1, <3>1 DEF InSection
  <2>2. CASE s # "top"
    <3>1. PICK i \in first .. n : /\ ls[i] = s /\ Label(ls, first, i)
                                  /\ \A j \in i + 1 .. n : ~Label(ls, first, j)
      BY <1>2, <2>2 DEF InSection
    <3>2. more[i] = s /\ Label(more, first, i)
      BY <1>1, <1>2, <1>3, <3>1
    <3>3. \A j \in i + 1 .. n + 2 - 1 : ~Label(more, first, j)
      BY <1>2, <1>3, <1>5, <3>1
    <3> QED  BY <1>2, <1>5, <2>2, <3>2, <3>3 DEF InSection
  <2> QED  BY <2>1, <2>2
<1> QED
  BY <1>4, <1>5

(* A line is in one section.                                               *)
LEMMA OneSection ==
    ASSUME NEW ls, NEW n \in Nat, NEW first \in Nat, NEW s, NEW r,
           InSection(ls, first, n, s), InSection(ls, first, n, r)
    PROVE  s = r
<1>1. CASE s = "top" \/ r = "top"
  BY <1>1 DEF InSection
<1>2. CASE s # "top" /\ r # "top"
  <2>1. PICK i \in first .. n - 1 :
            /\ ls[i] = s /\ Label(ls, first, i)
            /\ \A j \in i + 1 .. n - 1 : ~Label(ls, first, j)
    BY <1>2 DEF InSection
  <2>2. PICK m \in first .. n - 1 :
            /\ ls[m] = r /\ Label(ls, first, m)
            /\ \A j \in m + 1 .. n - 1 : ~Label(ls, first, j)
    BY <1>2 DEF InSection
  <2>3. ~(i < m) /\ ~(m < i)
    BY <2>1, <2>2
  <2> QED  BY <2>1, <2>2, <2>3
<1> QED
  BY <1>1, <1>2

(* What the sections of a term keep of one more line.                      *)
LEMMA KeptGrows ==
    ASSUME NEW ls, NEW more, NEW n \in Nat, NEW k, OneMore(ls, more, n, k),
           NEW first \in 1 .. n + 1, NEW open \in Sections, NEW s \in Sections,
           InSection(ls, first, n + 1, open)
    PROVE  Kept(more, first, n + 1, s)
             = Kept(ls, first, n, s)
                 \cup (IF /\ s = open /\ k \notin {"rule", "day", "badday"}
                          /\ ~Label(more, first, n + 1)
                       THEN {n + 1} ELSE {})
<1>1. /\ \A i \in 1 .. n : more[i] = ls[i]
      /\ more[n + 1] = k
  BY DEF OneMore
<1>2. Kept(more, first, n, s) = Kept(ls, first, n, s)
  BY <1>1, KeptStays
<1>3. InSection(more, first, n + 1, s) <=> s = open
  <2>1. InSection(more, first, n + 1, s) <=> InSection(ls, first, n + 1, s)
    BY <1>1, SectionStays
  <2>2. InSection(ls, first, n + 1, s) => s = open
    BY OneSection
  <2> QED  BY <2>1, <2>2
<1>4. first .. n + 1 = (first .. n) \cup {n + 1}
  OBVIOUS
<1>5. Kept(more, first, n + 1, s)
        = Kept(more, first, n, s)
            \cup (IF /\ s = open /\ k \notin {"rule", "day", "badday"}
                     /\ ~Label(more, first, n + 1)
                  THEN {n + 1} ELSE {})
  BY <1>1, <1>3, <1>4 DEF Kept
<1> QED
  BY <1>2, <1>5

LEMMA EnumeratesMore ==
    ASSUME NEW body \in Seq(Nat), NEW S, Enumerates(body, S), NEW n \in Nat,
           \A i \in S : i <= n
    PROVE  Enumerates(Append(body, n + 1), S \cup {n + 1})
<1> DEFINE m == Len(body)
           more == Append(body, n + 1)
<1>1. /\ m \in Nat /\ DOMAIN body = 1 .. m
      /\ DOMAIN more = (1 .. m) \cup {m + 1}
      /\ \A i \in 1 .. m : more[i] = body[i]
      /\ more[m + 1] = n + 1
  OBVIOUS
<1> HIDE DEF m, more
<1>2. ASSUME NEW i \in 1 .. m PROVE body[i] \in S /\ body[i] < n + 1
  <2>1. body[i] \in S
    BY <1>1 DEF Enumerates
  <2>2. body[i] <= n /\ body[i] \in Nat
    BY <1>1, <2>1
  <2> QED  BY <2>1, <2>2
<1>3. {more[i] : i \in DOMAIN more} = S \cup {n + 1}
  BY <1>1 DEF Enumerates
<1>4. \A i, j \in DOMAIN more : i < j => more[i] < more[j]
  BY <1>1, <1>2 DEF Enumerates
<1> QED
  BY <1>3, <1>4 DEF Enumerates, more

-----------------------------------------------------------------------------
(* What the open term and its section say of the lines below its title.    *)
OpenTerm ==
    LET t == terms[Len(terms)]
    IN  /\ t.inFence <=> Fences(lines, t.title + 1, Len(lines) + 1) % 2 = 1
        /\ InSection(lines, t.title + 1, Len(lines) + 1, where)

BodyInv ==
    /\ BodiesKeepEveryLine
    /\ terms # <<>> => OpenTerm

LEMMA BodyInit == ParserInit => BodyInv
  BY DEF ParserInit, BodyInv, BodiesKeepEveryLine

(* Titles are among the lines read, and so is the last line of a body.     *)
LEMMA TitleLines ==
    ASSUME ParserShape, TitlesAndDays
    PROVE  /\ \A i \in DOMAIN terms : terms[i].title \in 1 .. Len(lines)
           /\ \A i \in DOMAIN terms : LastLine(i) \in 0 .. Len(lines)
<1> DEFINE n == Len(lines)
<1>1. n \in Nat /\ DOMAIN lines = 1 .. n /\ terms \in Seq(TermRecord)
  BY DEF ParserShape
<1> HIDE DEF n
<1>2. \A i \in DOMAIN terms : terms[i].title \in 1 .. n
  BY <1>1 DEF TitlesAndDays
<1>3. ASSUME NEW i \in DOMAIN terms PROVE LastLine(i) \in 0 .. n
  <2>1. CASE i = Len(terms)
    BY <1>1, <2>1 DEF LastLine, n
  <2>2. CASE i # Len(terms)
    <3>1. i + 1 \in DOMAIN terms
      BY <1>1, <2>2
    <3>2. terms[i + 1].title \in 1 .. n
      BY <1>2, <3>1
    <3> QED  BY <1>1, <2>2, <3>2 DEF LastLine
  <2> QED  BY <2>1, <2>2
<1> QED
  BY <1>2, <1>3 DEF n

LineRead(k) == lines' = Append(lines, k)

(* A body that ended before this line is as it was.                        *)
LEMMA BodyStays ==
    ASSUME ParserShape, TitlesAndDays, BodiesKeepEveryLine,
           NEW k \in LineKinds, LineRead(k),
           NEW i \in DOMAIN terms, terms'[i] = terms[i],
           LastLine(i)' = LastLine(i), NEW s \in Sections
    PROVE  Enumerates(terms'[i].body[s],
                      Kept(lines', terms'[i].title + 1, LastLine(i)', s))
<1>1. PICK n \in Nat : /\ n = Len(lines)
                       /\ \A j \in 1 .. n : lines'[j] = lines[j]
  BY LineAppended DEF OneMore, LineRead
<1>2. PICK title \in Nat, last \in 0 .. n :
          title = terms[i].title /\ last = LastLine(i)
  BY <1>1, TitleLines
<1>3. Kept(lines', title + 1, last, s) = Kept(lines, title + 1, last, s)
  <2>1. PICK ls, more : /\ ls = lines /\ more = lines'
                        /\ \A j \in 1 .. n : more[j] = ls[j]
    BY <1>1
  <2>2. PICK first \in Nat \ {0} : first = title + 1
    BY <1>2
  <2>3. Kept(more, first, last, s) = Kept(ls, first, last, s)
    <3>1. \A j \in 1 .. n : more[j] = ls[j]
      BY <2>1
    <3>2. last \in 0 .. n
      BY <1>2
    <3> QED  BY <3>1, <3>2, KeptStays
  <2> QED  BY <2>1, <2>2, <2>3
<1>4. Enumerates(terms[i].body[s], Kept(lines, title + 1, last, s))
  BY <1>2 DEF BodiesKeepEveryLine
<1> QED
  BY <1>2, <1>3, <1>4

(* What a line below the last title does to its term.                      *)
Appends(k) ==
    LET m == Len(terms)
        n == Len(lines)
        label == Label(lines', terms[m].title + 1, n + 1)
        kept == k \notin {"rule", "day", "badday"} /\ ~label
    IN  /\ lines' = Append(lines, k)
        /\ Len(terms') = m
        /\ terms'[m].title = terms[m].title
        /\ terms'[m].inFence = ((k = "fence") # terms[m].inFence)
        /\ \A s \in Sections :
               terms'[m].body[s] = IF kept /\ s = where
                                   THEN Append(terms[m].body[s], n + 1)
                                   ELSE terms[m].body[s]
        /\ where' = IF label THEN k ELSE where

LEMMA LastBodyGrows ==
    ASSUME ParserShape, TitlesAndDays, BodyInv, terms # <<>>,
           NEW k \in LineKinds, Appends(k), NEW s \in Sections
    PROVE  /\ OpenTerm'
           /\ LET t == terms'[Len(terms)]
              IN  Enumerates(t.body[s],
                      Kept(lines', t.title + 1, Len(lines'), s))
<1>1. PICK n \in Nat : /\ n = Len(lines) /\ Len(lines') = n + 1
                       /\ OneMore(lines, lines', n, k)
  BY LineAppended DEF Appends
<1>2. PICK m \in Nat \ {0} : m = Len(terms) /\ m \in DOMAIN terms
  BY DEF ParserShape
<1>3. PICK first \in 1 .. n + 1 : first = terms[m].title + 1
  <2>1. terms[m].title \in 1 .. n
    BY <1>1, <1>2, TitleLines
  <2> QED  BY <2>1
<1>4. PICK label, kept \in BOOLEAN :
          /\ label = Label(lines', first, n + 1)
          /\ kept = (k \notin {"rule", "day", "badday"} /\ ~label)
  <2>1. Label(lines', first, n + 1) \in BOOLEAN
    BY DEF Label
  <2> QED  BY <2>1
<1>5. /\ Len(terms') = m /\ terms'[m].title + 1 = first
      /\ terms'[m].inFence = ((k = "fence") # terms[m].inFence)
      /\ where' = IF label THEN k ELSE where
  BY <1>1, <1>2, <1>3, <1>4 DEF Appends
<1>6. terms'[m].body[s] = IF kept /\ s = where
                          THEN Append(terms[m].body[s], n + 1)
                          ELSE terms[m].body[s]
  BY <1>1, <1>2, <1>3, <1>4 DEF Appends
<1>7. /\ terms[m].inFence <=> Fences(lines, first, n + 1) % 2 = 1
      /\ InSection(lines, first, n + 1, where)
  BY <1>1, <1>2, <1>3 DEF BodyInv, OpenTerm
<1>8. where \in Sections /\ terms[m].inFence \in BOOLEAN
      /\ terms[m].body[s] \in Seq(Nat)
  BY <1>2, TermFields DEF ParserShape
<1>9. OpenTerm'
  <2>1. PICK f, g \in Nat :
            /\ f = Fences(lines, first, n + 1)
            /\ g = Fences(lines', first, n + 2)
            /\ g = f + IF k = "fence" THEN 1 ELSE 0
    BY <1>1, FencesGrow
  <2>2. terms'[m].inFence <=> g % 2 = 1
    <3>1. f % 2 \in {0, 1} /\ ((f + 1) % 2 = 0 <=> f % 2 = 1)
          /\ (f + 1) % 2 \in {0, 1}
      BY <2>1, Parity
    <3>2. CASE k = "fence"
      <4>1. g % 2 = 1 <=> ~(f % 2 = 1)
        BY <2>1, <3>1, <3>2
      <4>2. terms'[m].inFence <=> ~terms[m].inFence
        BY <1>5, <1>8, <3>2
      <4> QED  BY <1>7, <2>1, <4>1, <4>2
    <3>3. CASE k # "fence"
      <4>1. g = f
        BY <2>1, <3>3
      <4>2. terms'[m].inFence <=> terms[m].inFence
        BY <1>5, <1>8, <3>3
      <4> QED  BY <1>7, <2>1, <4>1, <4>2
    <3> QED  BY <3>2, <3>3
  <2>3. InSection(lines', first, n + 2, where')
    <3>1. InSection(lines', first, n + 2,
                    IF Label(lines', first, n + 1) THEN k ELSE where)
      BY <1>1, <1>7, <1>8, SectionGrows
    <3> QED  BY <1>4, <1>5, <3>1
  <2>4. Len(lines') + 1 = n + 2
    BY <1>1
  <2> QED  BY <1>5, <2>1, <2>2, <2>3, <2>4 DEF OpenTerm
<1>10. Enumerates(terms'[m].body[s], Kept(lines', first, n + 1, s))
  <2>1. PICK S : S = Kept(lines, first, n, s)
    OBVIOUS
  <2>2. Enumerates(terms[m].body[s], S)
    BY <1>1, <1>2, <1>3, <2>1 DEF BodyInv, BodiesKeepEveryLine, LastLine
  <2>3. Kept(lines', first, n + 1, s)
          = S \cup (IF /\ s = where /\ k \notin {"rule", "day", "badday"}
                       /\ ~Label(lines', first, n + 1)
                    THEN {n + 1} ELSE {})
    <3>1. PICK ls, more, open :
              /\ ls = lines /\ more = lines' /\ open = where
              /\ OneMore(ls, more, n, k) /\ InSection(ls, first, n + 1, open)
              /\ open \in Sections
      BY <1>1, <1>7, <1>8
    <3>2. Kept(more, first, n + 1, s)
            = Kept(ls, first, n, s)
                \cup (IF /\ s = open /\ k \notin {"rule", "day", "badday"}
                         /\ ~Label(more, first, n + 1)
                      THEN {n + 1} ELSE {})
      BY <3>1, KeptGrows
    <3> QED  BY <2>1, <3>1, <3>2
  <2>4. CASE kept /\ s = where
    <3>1. \A i \in S : i <= n
      BY <2>1 DEF Kept
    <3>2. Enumerates(Append(terms[m].body[s], n + 1), S \cup {n + 1})
      BY <1>8, <2>2, <3>1, EnumeratesMore
    <3> QED  BY <1>4, <1>6, <2>3, <2>4, <3>2
  <2>5. CASE ~(kept /\ s = where)
    <3>1. Kept(lines', first, n + 1, s) = S
      BY <1>4, <2>3, <2>5
    <3> QED  BY <1>6, <2>2, <2>5, <3>1
  <2> QED  BY <2>4, <2>5
<1> QED
  BY <1>1, <1>2, <1>5, <1>9, <1>10

(* A line below the last title, marker, label or body.                     *)
LEMMA LabelIs ==
    ASSUME ParserShape, TitlesAndDays, BodyInv, terms # <<>>,
           NEW k \in LineKinds, LineRead(k)
    PROVE  Label(lines', terms[Len(terms)].title + 1, Len(lines) + 1)
             <=> k \in {"definition", "example"} /\ ~terms[Len(terms)].inFence
<1>1. PICK n \in Nat : n = Len(lines) /\ OneMore(lines, lines', n, k)
  BY LineAppended DEF LineRead
<1>2. PICK m \in Nat \ {0} : m = Len(terms) /\ m \in DOMAIN terms
  BY DEF ParserShape
<1>3. PICK first \in 1 .. n + 1 : first = terms[m].title + 1
  <2>1. terms[m].title \in 1 .. n
    BY <1>1, <1>2, TitleLines
  <2> QED  BY <2>1
<1>4. /\ terms[m].inFence <=> Fences(lines, first, n + 1) % 2 = 1
  BY <1>1, <1>2, <1>3 DEF BodyInv, OpenTerm
<1>5. PICK f \in Nat : f = Fences(lines, first, n + 1)
  BY <1>1, FencesGrow
<1>6. Fences(lines', first, n + 1) = f
  <2>1. PICK ls, more : /\ ls = lines /\ more = lines'
                        /\ \A j \in 1 .. n : more[j] = ls[j]
    BY <1>1 DEF OneMore
  <2>2. PICK end \in 1 .. n + 1 : end = n + 1
    OBVIOUS
  <2>3. Fences(more, first, end) = Fences(ls, first, end)
    <3>1. \A j \in 1 .. n : more[j] = ls[j]
      BY <2>1
    <3> QED  BY <3>1, FencesStay
  <2> QED  BY <1>5, <2>1, <2>2, <2>3
<1>7. f % 2 \in {0, 1}
  BY <1>5, Parity
<1>8. Label(lines', first, n + 1)
        <=> k \in {"definition", "example"} /\ f % 2 = 0
  BY <1>1, <1>6 DEF Label, OneMore
<1>9. ~terms[m].inFence <=> f % 2 = 0
  BY <1>4, <1>5, <1>7
<1> QED
  BY <1>1, <1>2, <1>3, <1>8, <1>9

LEMMA MarkerAppends ==
    ASSUME ParserShape, TitlesAndDays, BodyInv, terms # <<>>,
           NEW k \in LineKinds, lines' = Append(lines, k),
           k \in {"rule", "day", "badday"}, UNCHANGED <<where, terms>>
    PROVE  Appends(k)
<1>1. ~Label(lines', terms[Len(terms)].title + 1, Len(lines) + 1)
  BY LabelIs DEF LineRead
<1>2. Len(terms) \in DOMAIN terms
  BY DEF ParserShape
<1>3. terms[Len(terms)].inFence \in BOOLEAN
  BY <1>2, TermFields DEF ParserShape
<1> QED
  BY <1>1, <1>3 DEF Appends

LEMMA BodyAppends ==
    ASSUME ParserShape, TitlesAndDays, BodyInv, NEW k \in LineKinds, ReadBody(k)
    PROVE  Appends(k) /\ \A i \in DOMAIN terms : i # Len(terms) =>
                             terms'[i] = terms[i]
<1>1. terms # <<>> /\ lines' = Append(lines, k)
      /\ k \notin {"rule", "day", "badday"}
  BY DEF ReadBody
<1>2. PICK m \in Nat \ {0} : m = Len(terms) /\ m \in DOMAIN terms
  BY <1>1 DEF ParserShape
<1>3. PICK open \in BOOLEAN : open = terms[m].inFence
  BY <1>2, TermFields DEF ParserShape
<1>4. Label(lines', terms[m].title + 1, Len(lines) + 1)
        <=> k \in {"definition", "example"} /\ ~open
  BY <1>1, <1>2, <1>3, LabelIs DEF LineRead
<1>5. Fenced(k) <=> k = "fence" \/ open
  BY <1>1, <1>2, <1>3 DEF Fenced, Last
<1>6. CASE k \in {"definition", "example"} /\ ~open
  <2>1. where' = k /\ terms' = terms
    BY <1>5, <1>6 DEF ReadBody
  <2>2. k # "fence"
    BY <1>6
  <2> QED  BY <1>1, <1>2, <1>3, <1>4, <1>6, <2>1, <2>2 DEF Appends
<1>7. CASE ~(k \in {"definition", "example"} /\ ~open)
  <2>1. BodyLine(k) /\ where' = where
    BY <1>5, <1>7 DEF ReadBody, BodyLine
  <2>2. /\ Len(terms') = m
        /\ terms'[m].title = terms[m].title
        /\ terms'[m].inFence = ((k = "fence") # terms[m].inFence)
        /\ \A s \in Sections : s # where =>
                      terms'[m].body[s] = terms[m].body[s]
        /\ terms'[m].body[where] = Append(terms[m].body[where], This)
        /\ \A i \in DOMAIN terms : i # m => terms'[i] = terms[i]
    BY <1>1, <1>2, <2>1, BodyLineFacts
  <2> QED  BY <1>1, <1>2, <1>4, <1>7, <2>1, <2>2 DEF Appends, This
<1> QED
  BY <1>6, <1>7

LEMMA BodiesOfTitle ==
    ASSUME ParserShape, ParserShape', TitlesAndDays, BodyInv,
           NEW k \in LineKinds, ReadTitle(k)
    PROVE  BodyInv'
<1>1. PICK n \in Nat : n = Len(lines) /\ Len(lines') = n + 1
  BY LineAppended DEF ReadTitle
<1>2. PICK m \in Nat : /\ m = Len(terms) /\ DOMAIN terms = 1 .. m
                       /\ Len(terms') = m + 1
                       /\ DOMAIN terms' = (1 .. m) \cup {m + 1}
                       /\ \A i \in 1 .. m : terms'[i] = terms[i]
                       /\ terms'[m + 1] = NewTerm(n + 1)
  BY <1>1 DEF ReadTitle, ParserShape, This
<1>3. PICK t : /\ t = NewTerm(n + 1) /\ t.title = n + 1 /\ ~t.inFence
               /\ \A s \in Sections : t.body[s] = <<>>
  <2>1. PICK empty, title, d : /\ empty = [s \in Sections |-> <<>>]
                               /\ title = n + 1 /\ d = day
    OBVIOUS
  <2>2. PICK t : t = [title |-> title, day |-> d, inFence |-> FALSE,
                      body |-> empty]
    OBVIOUS
  <2>3. t = NewTerm(n + 1)
    BY <2>1, <2>2 DEF NewTerm
  <2>4. t.title = title /\ ~t.inFence /\ t.body = empty
    BY <2>2
  <2> QED  BY <2>1, <2>3, <2>4
<1>4. ASSUME NEW i \in 1 .. m, NEW s \in Sections
      PROVE  Enumerates(terms'[i].body[s],
                        Kept(lines', terms'[i].title + 1, LastLine(i)', s))
  <2>1. LastLine(i)' = LastLine(i)
    <3>1. CASE i = m
      BY <1>1, <1>2, <1>3, <3>1 DEF LastLine
    <3>2. CASE i # m
      BY <1>2, <3>2 DEF LastLine
    <3> QED  BY <3>1, <3>2
  <2>2. i \in DOMAIN terms /\ terms'[i] = terms[i]
    BY <1>2
  <2> QED
    BY <2>1, <2>2, BodyStays DEF BodyInv, ReadTitle, LineRead
<1>5. ASSUME NEW s \in Sections
      PROVE  Enumerates(t.body[s], Kept(lines', n + 1 + 1, n + 1, s))
  <2>1. Kept(lines', n + 1 + 1, n + 1, s) = {}
    BY DEF Kept
  <2> QED  BY <1>3, <2>1 DEF Enumerates
<1>6. BodiesKeepEveryLine'
  <2>1. LastLine(m + 1)' = n + 1
    BY <1>1, <1>2 DEF LastLine
  <2>2. ASSUME NEW s \in Sections
        PROVE  Enumerates(terms'[m + 1].body[s],
                   Kept(lines', terms'[m + 1].title + 1, LastLine(m + 1)', s))
    BY <1>2, <1>3, <1>5, <2>1, <2>2
  <2>3. ASSUME NEW i \in DOMAIN terms', NEW s \in Sections
        PROVE  Enumerates(terms'[i].body[s],
                          Kept(lines', terms'[i].title + 1, LastLine(i)', s))
    BY <1>2, <1>4, <2>2
  <2> QED  BY <2>3 DEF BodiesKeepEveryLine
<1>7. OpenTerm'
  <2>1. Fences(lines', n + 2, n + 2) = 0
    <3>1. {i \in n + 2 .. n + 2 - 1 : lines'[i] = "fence"} = {}
      OBVIOUS
    <3> QED  BY <3>1, FS_EmptySet DEF Fences
  <2>2. InSection(lines', n + 2, n + 2, "top")
    BY DEF InSection
  <2>3. where' = "top" /\ Len(lines') + 1 = n + 2 /\ n + 1 + 1 = n + 2
    BY <1>1 DEF ReadTitle
  <2>4. terms'[Len(terms')] = t /\ ~t.inFence /\ t.title + 1 = n + 2
    BY <1>2, <1>3
  <2>5. ~(Fences(lines', n + 2, n + 2) % 2 = 1)
    BY <2>1
  <2> QED  BY <2>2, <2>3, <2>4, <2>5 DEF OpenTerm
<1> QED
  BY <1>6, <1>7 DEF BodyInv

LEMMA BodiesOfLine ==
    ASSUME ParserShape, ParserShape', TitlesAndDays, BodyInv, terms # <<>>,
           NEW k \in LineKinds, Appends(k),
           \A i \in DOMAIN terms : i # Len(terms) => terms'[i] = terms[i]
    PROVE  BodyInv'
<1>1. PICK m \in Nat \ {0} : /\ m = Len(terms) /\ m = Len(terms')
                             /\ DOMAIN terms = 1 .. m /\ DOMAIN terms' = 1 .. m
  BY DEF Appends, ParserShape
<1>2. OpenTerm'
  <2>1. "top" \in Sections
    BY DEF Sections
  <2> QED  BY <2>1, LastBodyGrows
<1>3. terms'[m].title = terms[m].title
  BY <1>1 DEF Appends
<1>4. ASSUME NEW i \in 1 .. m, NEW s \in Sections
      PROVE  Enumerates(terms'[i].body[s],
                        Kept(lines', terms'[i].title + 1, LastLine(i)', s))
  <2>1. CASE i = m
    <3>1. LastLine(i)' = Len(lines')
      BY <1>1, <2>1 DEF LastLine
    <3>2. Enumerates(terms'[m].body[s],
                     Kept(lines', terms'[m].title + 1, Len(lines'), s))
      BY <1>1, LastBodyGrows
    <3> QED  BY <2>1, <3>1, <3>2
  <2>2. CASE i # m
    <3>1. i \in DOMAIN terms /\ terms'[i] = terms[i]
      BY <1>1, <2>2
    <3>2. i + 1 \in DOMAIN terms /\ terms'[i + 1].title = terms[i + 1].title
      BY <1>1, <1>3, <2>2
    <3>3. LastLine(i)' = LastLine(i)
      BY <1>1, <2>2, <3>2 DEF LastLine
    <3> QED  BY <3>1, <3>3, BodyStays DEF BodyInv, Appends, LineRead
  <2> QED  BY <2>1, <2>2
<1>5. BodiesKeepEveryLine'
  BY <1>1, <1>4 DEF BodiesKeepEveryLine
<1> QED
  BY <1>2, <1>5 DEF BodyInv

-----------------------------------------------------------------------------
ParserInv == ParserShape /\ MarkerInv /\ TitlesAndDays /\ BodyInv

LEMMA ParserInvInit == ParserInit => ParserInv
<1> SUFFICES ASSUME ParserInit PROVE ParserInv
  OBVIOUS
<1>1. TitlesAndDays
  <2>1. DOMAIN terms = {} /\ DOMAIN lines = {}
    BY DEF ParserInit
  <2> QED  BY <2>1 DEF TitlesAndDays
<1> QED
  BY <1>1, ShapeInit, MarkerInit, BodyInit DEF ParserInv

LEMMA ParserInvStep == ParserInv /\ [ParserNext]_parserVars => ParserInv'
<1> SUFFICES ASSUME ParserInv, [ParserNext]_parserVars PROVE ParserInv'
  OBVIOUS
<1>1. /\ ParserShape /\ MarkerInv /\ TitlesAndDays /\ BodyInv
      /\ ParserShape'
  BY ShapeStep DEF ParserInv
<1>2. CASE UNCHANGED parserVars
  BY <1>1, <1>2 DEF parserVars, ParserInv, MarkerInv, TitlesAndDays, BodyInv,
     BodiesKeepEveryLine, OpenTerm, LastLine
<1>3. ASSUME NEW k \in LineKinds, ReadTitle(k) PROVE ParserInv'
  <2>1. MarkerInv'
    BY <1>1, <1>3, AnyLineMovesOn, MarkerStep
  <2>2. TitlesAndDays'
    BY <1>1, <1>3, TitleAdded
  <2>3. BodyInv'
    BY <1>1, <1>3, BodiesOfTitle
  <2> QED  BY <1>1, <2>1, <2>2, <2>3 DEF ParserInv
<1>4. ASSUME NEW k \in LineKinds,
             \/ ReadRule /\ k = "rule"
             \/ ReadDay(k)
      PROVE  ParserInv'
  <2>1. MovesOn(k) /\ k \in {"rule", "day", "badday"} /\ ~Anchored(k)
        /\ UNCHANGED <<where, terms>> /\ lines' = Append(lines, k)
    BY <1>4, AnyLineMovesOn DEF ReadRule, ReadDay, Anchored
  <2>2. MarkerInv'
    BY <1>1, <2>1, MarkerStep
  <2>3. TitlesAndDays'
    BY <1>1, <2>1, TitlesStay DEF SameTitles
  <2>4. BodyInv'
    <3>1. CASE terms = <<>>
      BY <2>1, <3>1 DEF BodyInv, BodiesKeepEveryLine
    <3>2. CASE terms # <<>>
      BY <1>1, <2>1, <3>2, MarkerAppends, BodiesOfLine
    <3> QED  BY <3>1, <3>2
  <2> QED  BY <1>1, <2>2, <2>3, <2>4 DEF ParserInv
<1>5. ASSUME NEW k \in LineKinds, SkipLine(k) PROVE ParserInv'
  <2>1. MovesOn(k) /\ ~Anchored(k) /\ terms = <<>> /\ terms' = <<>>
    BY <1>5, AnyLineMovesOn DEF SkipLine
  <2>2. MarkerInv'
    BY <1>1, <2>1, MarkerStep
  <2>3. TitlesAndDays'
    BY <1>1, <2>1, TitlesStay DEF SameTitles
  <2>4. BodyInv'
    BY <2>1 DEF BodyInv, BodiesKeepEveryLine
  <2> QED  BY <1>1, <2>2, <2>3, <2>4 DEF ParserInv
<1>6. ASSUME NEW k \in LineKinds, ReadBody(k) PROVE ParserInv'
  <2>1. MovesOn(k) /\ ~Anchored(k) /\ terms # <<>>
    BY <1>6, AnyLineMovesOn DEF ReadBody
  <2>2. Appends(k) /\ \A i \in DOMAIN terms : i # Len(terms) =>
                          terms'[i] = terms[i]
    BY <1>1, <1>6, BodyAppends
  <2>3. SameTitles
    <3>1. Len(terms') = Len(terms)
          /\ terms'[Len(terms)].title = terms[Len(terms)].title
      BY <2>2 DEF Appends
    <3>2. terms'[Len(terms)].day = terms[Len(terms)].day
      <4>1. CASE k \in {"definition", "example"} /\ ~Fenced(k)
        BY <1>6, <4>1 DEF ReadBody
      <4>2. CASE ~(k \in {"definition", "example"} /\ ~Fenced(k))
        <5>1. BodyLine(k)
          BY <1>6, <4>2 DEF ReadBody, BodyLine
        <5> QED  BY <1>1, <2>1, <5>1, BodyLineFacts
      <4> QED  BY <4>1, <4>2
    <3> QED  BY <2>2, <3>1, <3>2 DEF SameTitles
  <2>4. MarkerInv'
    BY <1>1, <2>1, MarkerStep
  <2>5. TitlesAndDays'
    BY <1>1, <2>1, <2>3, TitlesStay
  <2>6. BodyInv'
    BY <1>1, <2>1, <2>2, BodiesOfLine
  <2> QED  BY <1>1, <2>4, <2>5, <2>6 DEF ParserInv
<1>7. "rule" \in LineKinds
  BY DEF LineKinds
<1> QED
  BY <1>2, <1>3, <1>4, <1>5, <1>6, <1>7 DEF ParserNext

LEMMA ParserInvariant == ParserSpec => []ParserInv
  BY ParserInvInit, ParserInvStep, PTL DEF ParserSpec

(* The terms of a month file are the headings that stand below a rule or a *)
(* day marker, each with its day (parseMonth, parser.go:141, :146, :164).  *)
THEOREM TitlesAreFound == ParserSpec => []TitlesAndDays
  BY ParserInvariant, PTL DEF ParserInv

(* No line of a body is lost, doubled or moved (parser.go:96, :231).       *)
THEOREM BodiesAreKept == ParserSpec => []BodiesKeepEveryLine
  BY ParserInvariant, PTL DEF ParserInv, BodyInv

-----------------------------------------------------------------------------
LEMMA SliceEnds ==
    ASSUME NEW S, NEW s \in Seq(S), NEW lo \in Nat \ {0}, NEW hi \in Nat,
           lo <= hi, hi <= Len(s)
    PROVE  /\ SubSeq(s, lo, hi) # <<>>
           /\ Head(SubSeq(s, lo, hi)) = s[lo]
           /\ Last(SubSeq(s, lo, hi)) = s[hi]
<1> DEFINE t == SubSeq(s, lo, hi)
<1>1. /\ t \in Seq(S) /\ Len(t) = hi - lo + 1
      /\ \A i \in 1 .. hi - lo + 1 : t[i] = s[lo + i - 1]
  OBVIOUS
<1> HIDE DEF t
<1>2. t # <<>> /\ Head(t) = t[1] /\ Last(t) = t[hi - lo + 1]
  BY <1>1 DEF Last
<1>3. t[1] = s[lo] /\ t[hi - lo + 1] = s[hi]
  BY <1>1
<1> QED
  BY <1>2, <1>3 DEF t

(* Trimming leaves what lies between the first and the last line of text.  *)
LEMMA TrimFacts ==
    ASSUME NEW body \in Seq(Nat)
    PROVE  LET text == {i \in DOMAIN body : lines[body[i]] # "blank"}
               shown == TrimBlankLines(body)
           IN  IF text = {} THEN shown = <<>>
               ELSE /\ shown # <<>>
                    /\ lines[Head(shown)] # "blank"
                    /\ lines[Last(shown)] # "blank"
<1> DEFINE text == {i \in DOMAIN body : lines[body[i]] # "blank"}
           shown == TrimBlankLines(body)
<1>1. CASE text = {}
  BY <1>1 DEF TrimBlankLines
<1>2. CASE text # {}
  <2>1. PICK n \in Nat : n = Len(body) /\ DOMAIN body = 1 .. n
    OBVIOUS
  <2>2. text \subseteq Nat /\ \A i \in text : i <= n
    BY <2>1
  <2>3. PICK lo, hi \in 1 .. n : /\ lo = Min(text) /\ hi = Max(text)
                                 /\ lo \in text /\ hi \in text /\ lo <= hi
    <3>1. /\ Min(text) \in text /\ \A i \in text : Min(text) <= i
          /\ Max(text) \in text
      BY <1>2, <2>1, <2>2, MinIsLeast, MaxIsGreatest
    <3> QED  BY <2>1, <3>1
  <2>4. shown = SubSeq(body, lo, hi)
    BY <1>2, <2>3 DEF TrimBlankLines
  <2>5. /\ lines[body[lo]] # "blank" /\ lines[body[hi]] # "blank"
    BY <2>3
  <2>6. shown # <<>> /\ Head(shown) = body[lo] /\ Last(shown) = body[hi]
    <3>1. /\ lo \in Nat \ {0} /\ hi \in Nat /\ lo <= hi /\ hi <= Len(body)
      BY <2>1, <2>3
    <3>2. /\ SubSeq(body, lo, hi) # <<>>
          /\ Head(SubSeq(body, lo, hi)) = body[lo]
          /\ Last(SubSeq(body, lo, hi)) = body[hi]
      BY <3>1, SliceEnds
    <3> QED  BY <2>4, <3>2
  <2> QED  BY <1>2, <2>5, <2>6
<1> QED
  BY <1>1, <1>2

(* Text outside the example is shown as the definition, and what is shown  *)
(* has text at both ends (finish, parser.go:244).                          *)
THEOREM TextAlwaysShows == ParserSpec => []TextIsShown
<1>1. ASSUME ParserShape PROVE TextIsShown
  <2>1. ASSUME NEW k \in DOMAIN terms
        PROVE  LET t == terms[k]
                   text(s) == {i \in DOMAIN t.body[s] :
                                  lines[t.body[s][i]] # "blank"}
               IN  /\ text("top") \cup text("definition") # {}
                          => Definition(t) # <<>>
                   /\ text("example") # {} => Example(t) # <<>>
                   /\ \A shown \in {Definition(t), Example(t)} :
                          shown # <<>> =>
                              "blank" \notin {lines[Head(shown)],
                                              lines[Last(shown)]}
    <3> DEFINE body(s) == terms[k].body[s]
               text(s) == {i \in DOMAIN body(s) : lines[body(s)[i]] # "blank"}
               shown(s) == TrimBlankLines(body(s))
    <3>1. \A s \in Sections : body(s) \in Seq(Nat)
      BY <1>1, TermFields DEF ParserShape
    <3>2. \A s \in Sections :
              IF text(s) = {} THEN shown(s) = <<>>
              ELSE /\ shown(s) # <<>>
                   /\ lines[Head(shown(s))] # "blank"
                   /\ lines[Last(shown(s))] # "blank"
      BY <3>1, TrimFacts
    <3>3. /\ Definition(terms[k]) = IF shown("definition") = <<>>
                                    THEN shown("top") ELSE shown("definition")
          /\ Example(terms[k]) = shown("example")
      BY DEF Definition, Example
    <3>4. {"top", "definition", "example"} \subseteq Sections
      BY DEF Sections
    <3> HIDE DEF text, shown, body
    <3>5. /\ text("top") \cup text("definition") # {}
                => Definition(terms[k]) # <<>>
          /\ text("example") # {} => Example(terms[k]) # <<>>
          /\ \A s \in {Definition(terms[k]), Example(terms[k])} : s # <<>> =>
                 /\ lines[Head(s)] # "blank"
                 /\ lines[Last(s)] # "blank"
      BY <3>2, <3>3, <3>4
    <3> QED  BY <3>5 DEF text, body
  <2> QED  BY <2>1 DEF TextIsShown
<1> QED
  BY <1>1, ParserInvariant, PTL DEF ParserInv

-----------------------------------------------------------------------------
(* The run of table lines being read is the end of the lines, begins below *)
(* prose, and no data table came before it, or the one that ended is the   *)
(* first.                                                                  *)
BlockAt(b) ==
    LET n == Len(tableLines)
    IN  /\ b \in 0 .. n /\ block = SubSeq(tableLines, b + 1, n)
        /\ b = 0 \/ tableLines[b] = "prose"
        /\ \A i \in b + 1 .. n : tableLines[i] # "prose"

NoDataBelow(b) ==
    \A i, j \in DOMAIN tableLines :
        j < b => ~DataRun(tableLines, i, j)

FirstData(i, j) ==
    /\ DataRun(tableLines, i, j)
    /\ \A a, b \in DOMAIN tableLines : DataRun(tableLines, a, b) => i <= a
    /\ table = SubSeq(tableLines, i + 2, j)

TableInv ==
    /\ tableLines \in Seq(TableLineKinds) /\ found \in BOOLEAN
    /\ ~found => \E b \in Nat : BlockAt(b) /\ NoDataBelow(b)
    /\ found => \E i, j \in DOMAIN tableLines : FirstData(i, j)

LEMMA TableInitInv == TableInit => TableInv
<1> SUFFICES ASSUME TableInit PROVE TableInv
  OBVIOUS
<1>1. BlockAt(0)
  BY DEF TableInit, BlockAt
<1>2. NoDataBelow(0)
  BY DEF TableInit, NoDataBelow
<1>3. \E b \in Nat : BlockAt(b) /\ NoDataBelow(b)
  BY <1>1, <1>2
<1>4. tableLines \in Seq(TableLineKinds)
  BY DEF TableInit
<1>5. ~found /\ found \in BOOLEAN
  BY Zenon DEF TableInit
<1> QED
  BY <1>3, <1>4, <1>5 DEF TableInv

(* The run being read, as the rows of a data table.                        *)
LEMMA BlockIsARun ==
    ASSUME NEW ls \in Seq(TableLineKinds), NEW n \in Nat, n = Len(ls),
           NEW b \in 0 .. n
    PROVE  LET s == SubSeq(ls, b + 1, n)
           IN  /\ DataTable(s) <=> /\ b + 3 <= n /\ ls[b + 1] = "header"
                                   /\ ls[b + 2] = "dashes"
               /\ b + 3 <= n => Rest(s) = SubSeq(ls, b + 3, n)
<1> DEFINE s == SubSeq(ls, b + 1, n)
<1>1. /\ s \in Seq(TableLineKinds) /\ Len(s) = n - b
      /\ \A i \in 1 .. n - b : s[i] = ls[b + i]
  OBVIOUS
<1> HIDE DEF s
<1>2. DataTable(s) <=> /\ b + 3 <= n /\ ls[b + 1] = "header"
                       /\ ls[b + 2] = "dashes"
  BY <1>1 DEF DataTable
<1>3. ASSUME b + 3 <= n PROVE Rest(s) = SubSeq(ls, b + 3, n)
  <2>1. Rest(s) = SubSeq(s, 3, n - b)
    BY <1>1 DEF Rest
  <2>2. /\ Len(Rest(s)) = n - b - 2 /\ Rest(s) \in Seq(TableLineKinds)
        /\ \A i \in 1 .. n - b - 2 : Rest(s)[i] = s[i + 2]
    BY <1>1, <1>3, <2>1
  <2>3. /\ Len(SubSeq(ls, b + 3, n)) = n - b - 2
        /\ SubSeq(ls, b + 3, n) \in Seq(TableLineKinds)
        /\ \A i \in 1 .. n - b - 2 : SubSeq(ls, b + 3, n)[i] = ls[b + 2 + i]
    BY <1>3
  <2>4. \A i \in 1 .. n - b - 2 : Rest(s)[i] = SubSeq(ls, b + 3, n)[i]
    BY <1>1, <1>3, <2>2, <2>3
  <2> QED  BY <2>2, <2>3, <2>4
<1> QED
  BY <1>2, <1>3 DEF s

(* A run that ended is one whatever lines follow, and the one being read   *)
(* is the only other.                                                      *)
LEMMA RunsStay ==
    ASSUME NEW ls \in Seq(TableLineKinds), NEW k \in TableLineKinds,
           NEW n \in Nat, n = Len(ls), NEW i \in 1 .. n, NEW j \in 1 .. n,
           j < n
    PROVE  DataRun(Append(ls, k), i, j) <=> DataRun(ls, i, j)
<1> DEFINE more == Append(ls, k)
<1>1. /\ Len(more) = n + 1
      /\ \A a \in 1 .. n : more[a] = ls[a]
  OBVIOUS
<1> HIDE DEF more
<1>2. Run(more, i, j) <=> Run(ls, i, j)
  BY <1>1 DEF Run
<1>3. i + 2 <= j => more[i] = ls[i] /\ more[i + 1] = ls[i + 1]
  BY <1>1
<1> QED
  BY <1>2, <1>3 DEF DataRun, more

LEMMA RunBelowProse ==
    ASSUME NEW ls, NEW n \in Nat, n = Len(ls), NEW b \in 0 .. n,
           b = 0 \/ ls[b] = "prose", NEW i \in 1 .. n, NEW j \in 1 .. n,
           DataRun(ls, i, j), \A a \in b + 1 .. n : ls[a] # "prose"
    PROVE  j < b \/ (i = b + 1 /\ j = n)
<1>1. /\ \A a \in i .. j : ls[a] # "prose"
      /\ i = 1 \/ ls[i - 1] = "prose"
      /\ j = n \/ ls[j + 1] = "prose"
      /\ i + 2 <= j
  BY DEF DataRun, Run
<1>2. CASE i <= b
  <2>1. ~(b <= j)
    BY <1>1, <1>2
  <2> QED  BY <2>1
<1>3. CASE b < i
  <2>1. i = b + 1
    <3>1. i # b + 1 => i - 1 \in b + 1 .. n
      BY <1>3
    <3>2. i # b + 1 => ls[i - 1] # "prose" /\ i # 1
      BY <1>3, <3>1
    <3> QED  BY <1>1, <3>2
  <2>2. j = n
    <3>1. j # n => j + 1 \in b + 1 .. n
      BY <1>1, <1>3
    <3> QED  BY <1>1, <3>1
  <2> QED  BY <2>1, <2>2
<1> QED
  BY <1>2, <1>3

(* The data table that ends with the run being read is its first.          *)
LEMMA TableOfBlock ==
    ASSUME NEW b \in Nat, tableLines \in Seq(TableLineKinds), BlockAt(b),
           NoDataBelow(b), NEW i \in DOMAIN tableLines,
           NEW j \in DOMAIN tableLines, DataRun(tableLines, i, j)
    PROVE  i = b + 1 /\ j = Len(tableLines) /\ DataTable(block)
           /\ Rest(block) = SubSeq(tableLines, i + 2, j)
<1>1. PICK n \in Nat : n = Len(tableLines) /\ DOMAIN tableLines = 1 .. n
  OBVIOUS
<1>2. /\ b \in 0 .. n /\ block = SubSeq(tableLines, b + 1, n)
      /\ b = 0 \/ tableLines[b] = "prose"
      /\ \A a \in b + 1 .. n : tableLines[a] # "prose"
  BY <1>1 DEF BlockAt
<1>3. ~(j < b)
  BY DEF NoDataBelow
<1>4. i = b + 1 /\ j = n
  BY <1>1, <1>2, <1>3, RunBelowProse
<1>5. i + 2 <= j /\ tableLines[i] = "header" /\ tableLines[i + 1] = "dashes"
  BY DEF DataRun
<1>6. DataTable(block) /\ Rest(block) = SubSeq(tableLines, b + 3, n)
  <2>1. b + 3 <= n /\ tableLines[b + 1] = "header"
        /\ tableLines[b + 2] = "dashes"
    BY <1>4, <1>5
  <2> QED  BY <1>1, <1>2, <2>1, BlockIsARun
<1>7. i + 2 = b + 3
  BY <1>4
<1> QED
  BY <1>1, <1>4, <1>6, <1>7

LEMMA BlockIsATable ==
    ASSUME NEW b \in Nat, tableLines \in Seq(TableLineKinds), BlockAt(b),
           DataTable(block)
    PROVE  LET n == Len(tableLines)
           IN  /\ b + 1 \in DOMAIN tableLines /\ n \in DOMAIN tableLines
               /\ DataRun(tableLines, b + 1, n)
               /\ Rest(block) = SubSeq(tableLines, b + 1 + 2, n)
<1>1. PICK n \in Nat : n = Len(tableLines) /\ DOMAIN tableLines = 1 .. n
  OBVIOUS
<1>2. /\ b \in 0 .. n /\ block = SubSeq(tableLines, b + 1, n)
      /\ b = 0 \/ tableLines[b] = "prose"
      /\ \A a \in b + 1 .. n : tableLines[a] # "prose"
  BY <1>1 DEF BlockAt
<1>3. /\ b + 3 <= n /\ tableLines[b + 1] = "header"
      /\ tableLines[b + 2] = "dashes"
      /\ Rest(block) = SubSeq(tableLines, b + 3, n)
  BY <1>1, <1>2, BlockIsARun
<1>4. b + 1 + 2 = b + 3 /\ b + 1 + 1 = b + 2 /\ b + 1 - 1 = b
      /\ b + 1 \in 1 .. n /\ n \in 1 .. n
  BY <1>3
<1>5. Run(tableLines, b + 1, n)
  BY <1>1, <1>2, <1>4 DEF Run
<1> QED
  BY <1>1, <1>3, <1>4, <1>5 DEF DataRun

LEMMA TailGrows ==
    ASSUME NEW S, NEW s \in Seq(S), NEW x \in S, NEW n \in Nat, n = Len(s),
           NEW b \in Nat, b <= n
    PROVE  Append(SubSeq(s, b + 1, n), x)
             = SubSeq(Append(s, x), b + 1, n + 1)
  OBVIOUS

LEMMA TableStepInv == TableInv /\ [TableNext]_tableVars => TableInv'
<1> SUFFICES ASSUME TableInv, [TableNext]_tableVars PROVE TableInv'
  OBVIOUS
<1>1. CASE UNCHANGED tableVars
  BY <1>1 DEF tableVars, TableInv, BlockAt, NoDataBelow, FirstData
<1>2. ASSUME NEW k \in TableLineKinds, ReadTableLine(k) PROVE TableInv'
  <2>1. ~found /\ tableLines' = Append(tableLines, k)
        /\ tableLines \in Seq(TableLineKinds)
    BY <1>2 DEF ReadTableLine, TableInv
  <2>2. PICK b \in Nat : BlockAt(b) /\ NoDataBelow(b)
    BY <2>1 DEF TableInv
  <2>3. PICK n \in Nat :
            /\ n = Len(tableLines) /\ Len(tableLines') = n + 1
            /\ DOMAIN tableLines = 1 .. n /\ DOMAIN tableLines' = 1 .. n + 1
            /\ \A i \in 1 .. n : tableLines'[i] = tableLines[i]
            /\ tableLines'[n + 1] = k
            /\ tableLines' \in Seq(TableLineKinds)
    BY <2>1
  <2>4. /\ b \in 0 .. n /\ block = SubSeq(tableLines, b + 1, n)
        /\ b = 0 \/ tableLines[b] = "prose"
        /\ \A i \in b + 1 .. n : tableLines[i] # "prose"
    BY <2>2, <2>3 DEF BlockAt
  <2>5. \A i, j \in 1 .. n : j < n =>
            (DataRun(tableLines', i, j) <=> DataRun(tableLines, i, j))
    BY <2>1, <2>3, RunsStay
  <2>6. CASE k \in RowKinds
    <3>1. block' = Append(block, k) /\ ~found' /\ found' \in BOOLEAN
      <4>1. block' = Append(block, k) /\ found' = found
        BY <1>2, <2>6 DEF ReadTableLine
      <4>2. found = FALSE
        BY <1>2 DEF TableInv, ReadTableLine
      <4>3. found' = FALSE
        BY <4>1, <4>2
      <4> QED  BY <4>1, <4>3
    <3>2. BlockAt(b)'
      <4>1. block' = SubSeq(tableLines', b + 1, n + 1)
        <5>1. Append(SubSeq(tableLines, b + 1, n), k)
                = SubSeq(Append(tableLines, k), b + 1, n + 1)
          BY <2>1, <2>3, <2>4, TailGrows
        <5> QED  BY <2>1, <2>4, <3>1, <5>1
      <4>2. k # "prose"
        BY <2>6 DEF RowKinds
      <4>3. b = 0 \/ tableLines'[b] = "prose"
        BY <2>3, <2>4
      <4>4. \A i \in b + 1 .. n + 1 : tableLines'[i] # "prose"
        BY <2>3, <2>4, <4>2
      <4> QED  BY <2>3, <2>4, <4>1, <4>3, <4>4 DEF BlockAt
    <3>3. NoDataBelow(b)'
      <4>1. ASSUME NEW i \in 1 .. n + 1, NEW j \in 1 .. n + 1, j < b
            PROVE  ~DataRun(tableLines', i, j)
        <5>1. CASE i = n + 1
          BY <2>4, <4>1, <5>1 DEF DataRun
        <5>2. CASE i # n + 1
          <6>1. i \in 1 .. n /\ j \in 1 .. n /\ j < n
            BY <2>4, <4>1, <5>2
          <6>2. ~DataRun(tableLines, i, j)
            BY <2>2, <2>3, <4>1, <6>1 DEF NoDataBelow
          <6> QED  BY <2>5, <6>1, <6>2
        <5> QED  BY <5>1, <5>2
      <4> QED  BY <2>3, <4>1 DEF NoDataBelow
    <3> QED  BY <2>3, <3>1, <3>2, <3>3 DEF TableInv
  <2>7. CASE k \notin RowKinds
    <3>1. /\ block' = <<>> /\ found' = DataTable(block) /\ k = "prose"
          /\ table' = IF DataTable(block) THEN Rest(block) ELSE table
      BY <1>2, <2>7 DEF ReadTableLine, TableLineKinds
    <3>2. \A i, j \in 1 .. n + 1 : DataRun(tableLines', i, j) =>
              i \in 1 .. n /\ j \in 1 .. n /\ DataRun(tableLines, i, j)
      <4> SUFFICES ASSUME NEW i \in 1 .. n + 1, NEW j \in 1 .. n + 1,
                          DataRun(tableLines', i, j)
                   PROVE  i \in 1 .. n /\ j \in 1 .. n
                            /\ DataRun(tableLines, i, j)
        OBVIOUS
      <4>1. i + 2 <= j /\ \A a \in i .. j : tableLines'[a] # "prose"
        BY DEF DataRun, Run
      <4>2. j # n + 1
        BY <2>3, <3>1, <4>1
      <4>3. i \in 1 .. n /\ j \in 1 .. n
        BY <4>1, <4>2
      <4>4. CASE j < n
        BY <2>5, <4>3, <4>4
      <4>5. CASE j = n
        <5>1. Run(tableLines, i, j)
          BY <2>3, <4>1, <4>3, <4>5 DEF DataRun, Run
        <5>2. tableLines[i] = "header" /\ tableLines[i + 1] = "dashes"
          BY <2>3, <4>1, <4>3 DEF DataRun
        <5> QED  BY <4>1, <4>3, <5>1, <5>2 DEF DataRun
      <4> QED  BY <4>3, <4>4, <4>5
    <3>3. CASE DataTable(block)
      <4>1. /\ b + 1 \in 1 .. n /\ n \in 1 .. n
            /\ DataRun(tableLines, b + 1, n)
            /\ Rest(block) = SubSeq(tableLines, b + 1 + 2, n)
        BY <2>1, <2>2, <2>3, <3>3, BlockIsATable
      <4>2. DataRun(tableLines', b + 1, n)
        <5>1. Run(tableLines', b + 1, n)
          BY <2>3, <2>4, <3>1, <4>1 DEF DataRun, Run
        <5>2. b + 1 + 2 <= n /\ tableLines'[b + 1] = "header"
              /\ tableLines'[b + 1 + 1] = "dashes"
          BY <2>3, <4>1 DEF DataRun
        <5> QED  BY <5>1, <5>2 DEF DataRun
      <4>3. \A i, j \in 1 .. n + 1 : DataRun(tableLines', i, j) => b + 1 <= i
        <5> SUFFICES ASSUME NEW i \in 1 .. n + 1, NEW j \in 1 .. n + 1,
                            DataRun(tableLines', i, j)
                     PROVE  b + 1 <= i
          OBVIOUS
        <5>1. i \in DOMAIN tableLines /\ j \in DOMAIN tableLines
              /\ DataRun(tableLines, i, j)
          BY <2>3, <3>2
        <5>2. i = b + 1
          BY <2>1, <2>2, <5>1, TableOfBlock
        <5> QED  BY <5>2
      <4>4. table' = SubSeq(tableLines', b + 1 + 2, n)
        <5>1. SubSeq(tableLines', b + 1 + 2, n)
                = SubSeq(tableLines, b + 1 + 2, n)
          BY <2>1, <2>3, <4>1
        <5> QED  BY <3>1, <3>3, <4>1, <5>1
      <4>5. b + 1 \in DOMAIN tableLines' /\ n \in DOMAIN tableLines'
        BY <2>3, <4>1
      <4>6. FirstData(b + 1, n)'
        BY <2>3, <4>2, <4>3, <4>4 DEF FirstData
      <4>7. found' /\ found' \in BOOLEAN
        BY <3>1, <3>3
      <4> QED  BY <2>3, <4>5, <4>6, <4>7 DEF TableInv
    <3>4. CASE ~DataTable(block)
      <4>1. ~found' /\ found' \in BOOLEAN
        <5>1. DataTable(block) = FALSE
          BY <3>4 DEF DataTable
        <5>2. found' = FALSE
          BY <3>1, <5>1
        <5> QED  BY <5>2
      <4>2. BlockAt(n + 1)'
        <5>1. block' = SubSeq(tableLines', n + 2, n + 1)
          BY <2>3, <3>1
        <5> QED  BY <2>3, <3>1, <5>1 DEF BlockAt
      <4>3. \A i, j \in 1 .. n + 1 : ~DataRun(tableLines', i, j)
        <5> SUFFICES ASSUME NEW i \in 1 .. n + 1, NEW j \in 1 .. n + 1,
                            DataRun(tableLines', i, j)
                     PROVE  FALSE
          OBVIOUS
        <5>1. i \in DOMAIN tableLines /\ j \in DOMAIN tableLines
              /\ DataRun(tableLines, i, j)
          BY <2>3, <3>2
        <5> QED  BY <2>1, <2>2, <3>4, <5>1, TableOfBlock
      <4>4. NoDataBelow(n + 1)'
        BY <2>3, <4>3 DEF NoDataBelow
      <4>5. n + 1 \in Nat
        OBVIOUS
      <4> QED  BY <2>3, <4>1, <4>2, <4>4, <4>5 DEF TableInv
    <3> QED  BY <3>3, <3>4
  <2> QED  BY <2>6, <2>7
<1> QED
  BY <1>1, <1>2 DEF TableNext

(* Every id of the table is kept once, at the first row that has it.       *)
LEMMA OneRowOfEachId ==
    ASSUME NEW rows \in Seq(TableLineKinds),
           NEW id \in ToSet(rows) \cap {"r1", "r2"}
    PROVE  Cardinality({i \in UsableRows(rows) : rows[i] = id}) = 1
<1> DEFINE T == {i \in DOMAIN rows : rows[i] = id}
           U == {i \in UsableRows(rows) : rows[i] = id}
<1>1. T \subseteq Nat /\ T # {}
  BY DEF ToSet
<1>2. PICK i \in T : \A j \in T : i <= j
  BY <1>1, LeastMember
<1>3. U = {i}
  <2>1. i \in U
    <3>1. \A j \in 1 .. i - 1 : rows[j] # id
      <4> SUFFICES ASSUME NEW j \in 1 .. i - 1, rows[j] = id PROVE FALSE
        OBVIOUS
      <4>1. j \in DOMAIN rows /\ i \in Nat /\ j < i
        BY <1>1
      <4>2. j \in T
        BY <4>1
      <4> QED  BY <1>2, <4>1, <4>2
    <3> QED  BY <1>2, <3>1 DEF UsableRows
  <2>2. ASSUME NEW j \in U PROVE j = i
    <3>1. /\ j \in T /\ j \in Nat /\ i \in Nat
          /\ \A a \in 1 .. j - 1 : rows[a] # id
      BY <1>1, <1>2 DEF UsableRows
    <3>2. i <= j
      BY <1>2, <3>1
    <3>3. ~(i < j)
      <4>1. i \in DOMAIN rows
        OBVIOUS
      <4>2. i < j => i \in 1 .. j - 1
        BY <3>1, <4>1
      <4> QED  BY <1>2, <3>1, <4>2
    <3> QED  BY <3>1, <3>2, <3>3
  <2> QED  BY <2>1, <2>2
<1> QED
  BY <1>3, FS_Singleton

(* The rows of the catalog are those of the first data table of the file,  *)
(* each id once (parseTools, parser.go:57; parseTable, parser.go:81).      *)
THEOREM TablesAreFound == TableSpec => []FirstDataTableIsRead
<1>1. TableSpec => []TableInv
  BY TableInitInv, TableStepInv, PTL DEF TableSpec
<1>2. ASSUME TableInv PROVE FirstDataTableIsRead
  <2>1. /\ tableLines \in Seq(TableLineKinds) /\ found \in BOOLEAN
    BY <1>2 DEF TableInv
  <2>2. PICK n \in Nat : n = Len(tableLines) /\ DOMAIN tableLines = 1 .. n
    BY <2>1
  <2> DEFINE at == DOMAIN tableLines
             Empty == /\ \A i, j \in at : ~DataRun(tableLines, i, j)
                      /\ TableRows = <<>>
             First(i, j) ==
                 /\ DataRun(tableLines, i, j)
                 /\ \A a, b \in at : DataRun(tableLines, a, b) => i <= a
                 /\ TableRows = SubSeq(tableLines, i + 2, j)
  <2>3. Empty \/ \E i, j \in at : First(i, j)
    <3>1. CASE found
      <4>1. PICK i, j \in at : FirstData(i, j)
        BY <1>2, <3>1 DEF TableInv
      <4>2. TableRows = table
        BY <3>1 DEF TableRows
      <4>3. First(i, j)
        BY <4>1, <4>2 DEF FirstData
      <4> QED  BY <4>3
    <3>2. CASE ~found
      <4>1. PICK b \in Nat : BlockAt(b) /\ NoDataBelow(b)
        BY <1>2, <3>2 DEF TableInv
      <4>2. CASE DataTable(block)
        <5>1. /\ b + 1 \in at /\ n \in at
              /\ DataRun(tableLines, b + 1, n)
              /\ Rest(block) = SubSeq(tableLines, b + 1 + 2, n)
          BY <2>1, <2>2, <4>1, <4>2, BlockIsATable
        <5>2. TableRows = Rest(block)
          BY <3>2, <4>2 DEF TableRows
        <5>3. \A i, j \in at : DataRun(tableLines, i, j) => b + 1 <= i
          <6>1. \A i, j \in at : DataRun(tableLines, i, j) => i = b + 1
            BY <2>1, <4>1, TableOfBlock
          <6> QED  BY <6>1
        <5>4. First(b + 1, n)
          BY <5>1, <5>2, <5>3
        <5> QED  BY <5>1, <5>4
      <4>3. CASE ~DataTable(block)
        <5>1. TableRows = <<>>
          BY <3>2, <4>3 DEF TableRows
        <5>2. \A i, j \in at : ~DataRun(tableLines, i, j)
          BY <2>1, <4>1, <4>3, TableOfBlock
        <5> QED  BY <5>1, <5>2
      <4> QED  BY <4>2, <4>3
    <3> QED  BY <3>1, <3>2
  <2>4. TableRows \in Seq(TableLineKinds)
    <3>1. CASE Empty
      BY <3>1
    <3>2. CASE \E i, j \in at : First(i, j)
      <4>1. PICK i, j \in at : First(i, j)
        BY <3>2
      <4>2. SubSeq(tableLines, i + 2, j) \in Seq(TableLineKinds)
        BY <2>1, <2>2
      <4> QED  BY <4>1, <4>2
    <3> QED  BY <2>3, <3>1, <3>2
  <2>5. \A id \in ToSet(TableRows) \cap {"r1", "r2"} :
            Cardinality({i \in UsableRows(TableRows) : TableRows[i] = id}) = 1
    BY <2>4, OneRowOfEachId
  <2> QED  BY <2>3, <2>5 DEF FirstDataTableIsRead
<1> QED
  BY <1>1, <1>2, PTL
=============================================================================
