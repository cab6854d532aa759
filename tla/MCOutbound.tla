----------------------------- MODULE MCOutbound -----------------------------
(***************************************************************************)
(* What the process does towards other servers: the three mirrors and the  *)
(* mailer.  They share no state, so a behaviour is one of any of them, and *)
(* the run checks the four specifications side by side.                    *)
(***************************************************************************)
EXTENDS DailyTerms, Tools, News, Mailer, TLC

VARIABLE part     \* which of the four this behaviour is one of

TermsPart(A) == /\ part = "terms" /\ A
                /\ UNCHANGED <<part, toolsVars, newsVars, mailVars>>
ToolsPart(A) == /\ part = "tools" /\ A
                /\ UNCHANGED <<part, termsVars, newsVars, mailVars>>
NewsPart(A) == /\ part = "news" /\ A
               /\ UNCHANGED <<part, termsVars, toolsVars, mailVars>>
MailPart(A) == /\ part = "mail" /\ A
               /\ UNCHANGED <<part, termsVars, toolsVars, newsVars>>

outboundVars == <<part, termsVars, toolsVars, newsVars, mailVars>>

OutboundInit == /\ part \in {"terms", "tools", "news", "mail"}
                /\ TermsInit /\ ToolsInit /\ NewsInit /\ MailInit

OutboundNext == \/ TermsPart(TermsNext)
                \/ ToolsPart(ToolsNext)
                \/ NewsPart(NewsNext)
                \/ MailPart(MailNext)

OutboundSpec == /\ OutboundInit /\ [][OutboundNext]_outboundVars
                /\ WF_outboundVars(TermsPart(TermsScheduler))
                /\ WF_outboundVars(ToolsPart(ToolsScheduler))
                /\ WF_outboundVars(NewsPart(NewsScheduler))
                /\ WF_outboundVars(MailPart(MailClient))

(* The liveness property of each part, of its own behaviours: the journal  *)
(* (scheduler.go:31), the catalog and the news follow their sources, and   *)
(* every send returns (smtp.go:132).                                       *)
TermsCatchUp == part = "terms" => TermsFollow
ToolsCatchUp == part = "tools" => ToolsFollow
NewsCatchUp == part = "news" => NewsFollow
MailReturns == part = "mail" => SendReturns

-----------------------------------------------------------------------------
(* Months 1 and 2; file 1 comes after file 2 in the listing, file 3 uses   *)
(* an id of file 1 again, file 4 is no month file.                         *)
MCFileMonth == 1 :> 2 @@ 2 :> 1 @@ 3 :> 2
MCContent == << <<<<"a", "b">>, Absent>>, << <<"c">>, <<>> >>,
                <<Absent, <<"b", "d">>>>, << <<"a">>, <<"a">> >> >>

(* Tools: two categories, a row that comes and goes, ties in name and      *)
(* date, an id in both, and a version without any row.                     *)
Row(i, n, u, t) == [id |-> i, name |-> n, updated |-> u, text |-> t]
MCRows ==
  << << <<Row(3, 1, 2, {"q"}), Row(1, 1, 1, {})>>,
        <<Row(1, 1, 1, {}), Row(2, 2, 1, {"q"}), Row(3, 1, 2, {"q"})>>, <<>> >>,
     << <<Row(4, 2, 1, {"q"})>>, <<Row(3, 1, 2, {"q"}), Row(5, 1, 2, {})>> >> >>

Request(c, q, s, o, p, n) ==
    [category |-> c, query |-> q, sort |-> s, order |-> o, page |-> p,
     perPage |-> n]
MCToolRequests ==
    {Request(0, "", "", "desc", 0, 2), Request(0, "", "name", "", 1, 1),
     Request(0, "", "name", "desc", 0, 2), Request(2, "q", "updated", "asc", 0, 0),
     Request(0, "q", "updated", "desc", 0, 1), Request(1, "", "", "", -1, 1),
     Request(0, "", "price", "", 0, 0), Request(0, "", "", "", 0, 4)}

(* News: a repeated card, one that is no digest any more, one that goes    *)
(* and comes back, and an empty page.                                      *)
Card(u, d, b) == [url |-> u, digest |-> d, body |-> b]
MCPages ==
  << <<Card("u1", TRUE, 1), Card(NoUrl, TRUE, 1), Card("u2", TRUE, 1),
       Card("u1", TRUE, 1)>>,
     <<Card("u3", TRUE, 2), Card("u1", TRUE, 2), Card("u2", FALSE, 2)>>,
     <<>>,
     <<Card("u3", TRUE, 2), Card("u2", TRUE, 2), Card("u1", TRUE, 1)>> >>
=============================================================================
