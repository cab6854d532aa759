------------------------------- MODULE Mailer --------------------------------
(***************************************************************************)
(* SMTP.Send (internal/platform/mailer: smtp.go): one session with the     *)
(* mail server, a command and its answer per stage, under the deadline     *)
(* that the send puts on the connection.  The server and the network may   *)
(* accept, refuse, break off or keep silent at every stage; the answer to  *)
(* a command travels, and may never arrive.                                *)
(***************************************************************************)
EXTENDS Naturals

CONSTANT Mails     \* the mails there are to send

ASSUME MailsAssumption == Mails # {}

VARIABLES
    mail,          \* the mail being sent; any one before the first
    stage,         \* what Send does next, or what it came to
    wire,          \* the connection: no one, open, broken; and, when a
                   \* command is under way, "command" or its answer
    late,          \* whether the deadline has passed
    status,        \* of every mail at the server: no body, "whole" when its
                   \* final dot was sent, then "taken" or "refused"
    (* history *)
    told           \* whether Send has read the answer to the final dot

mailVars == <<mail, stage, wire, late, status, told>>

(* The stages of a session; connecting and greeting count as commands.     *)
Stages == {"dial", "greeting", "auth", "mail from", "rcpt", "data", "body",
           "quit"}
Results == {"sent", "failed"}

InSession == stage \in Stages

After(s) == CASE s = "dial" -> "greeting"
              [] s = "greeting" -> "auth"
              [] s = "auth" -> "mail from"
              [] s = "mail from" -> "rcpt"
              [] s = "rcpt" -> "data"
              [] s = "data" -> "body"
              [] s = "body" -> "quit"

(* Send returns and its deferred Close runs.                               *)
Return(result) == stage' = result /\ wire' = "none"

-----------------------------------------------------------------------------
(* Send is called.  A message that normalizeMessage or buildMessage        *)
(* refuses fails before any connection.                                    *)
Send(m) ==
    /\ stage = "idle" /\ status[m] = "none"
    /\ mail' = m /\ told' = FALSE /\ late' = FALSE
    /\ stage' \in {"dial", "failed"}
    /\ UNCHANGED <<wire, status>>

(* The command of the stage is written, in time, to a connection that as   *)
(* far as the client knows is open.                                        *)
Command ==
    /\ InSession /\ ~late
    /\ wire = IF stage = "dial" THEN "none" ELSE "open"
    /\ wire' = "command"
    /\ status' = IF stage = "body" THEN [status EXCEPT ![mail] = "whole"]
                 ELSE status
    /\ UNCHANGED <<mail, stage, late, told>>

(* The answer is read: the next stage, or Send returns.  What the server   *)
(* says to QUIT is not looked at.                                          *)
Answer ==
    /\ InSession /\ ~late
    /\ \/ /\ wire = "yes" /\ stage # "quit"
          /\ stage' = After(stage) /\ wire' = "open"
       \/ wire = "no" /\ stage # "quit" /\ Return("failed")
       \/ wire \in {"yes", "no"} /\ stage = "quit" /\ Return("sent")
    /\ told' = (told \/ stage = "body")
    /\ UNCHANGED <<mail, late, status>>

(* The seeded fault: body.Close is deferred and its error dropped.         *)
IOErrorLeniently ==
    /\ InSession
    /\ wire = "broken" \/ late
    /\ Return(IF stage \in {"body", "quit"} THEN "sent" ELSE "failed")
    /\ UNCHANGED <<mail, late, status, told>>

(* A read or write fails, for the connection broke or the deadline has     *)
(* passed.  After the body was accepted it makes no difference.            *)
IOError ==
    /\ InSession
    /\ wire = "broken" \/ late
    /\ Return(IF stage = "quit" THEN "sent" ELSE "failed")
    /\ UNCHANGED <<mail, late, status, told>>

(* The seeded fault: the deadline ends the dial and nothing after it.      *)
DeadlineOfDial ==
    /\ stage = "dial" /\ ~late
    /\ late' = TRUE
    /\ UNCHANGED <<mail, stage, wire, status, told>>

(* The deadline of the context, or sendTimeout, passes.                    *)
Deadline ==
    /\ InSession /\ ~late
    /\ late' = TRUE
    /\ UNCHANGED <<mail, stage, wire, status, told>>

(* The caller looks at the result.                                         *)
Done ==
    /\ stage \in Results
    /\ stage' = "idle" /\ UNCHANGED <<mail, wire, late, status, told>>

-----------------------------------------------------------------------------
(* The server answers a command other than the final dot.                  *)
ServerAnswers ==
    /\ wire = "command" /\ stage # "body"
    /\ wire' \in {"yes", "no"}
    /\ UNCHANGED <<mail, stage, late, status, told>>

(* It takes a whole mail or refuses it, also when the client has left; an  *)
(* answer travels only where the connection still stands.                  *)
ServerDecides(m) ==
    /\ status[m] = "whole"
    /\ \E taken \in BOOLEAN :
        /\ status' = [status EXCEPT ![m] = IF taken THEN "taken"
                                          ELSE "refused"]
        /\ wire' = IF m = mail /\ stage = "body" /\ wire = "command"
                   THEN IF taken THEN "yes" ELSE "no"
                   ELSE wire
    /\ UNCHANGED <<mail, stage, late, told>>

(* The connection breaks, with a command or an answer on it.               *)
Break ==
    /\ wire \in {"open", "command", "yes", "no"}
    /\ wire' = "broken"
    /\ UNCHANGED <<mail, stage, late, status, told>>

MailInit ==
    /\ mail = CHOOSE m \in Mails : TRUE
    /\ stage = "idle" /\ wire = "none" /\ late = FALSE
    /\ status = [m \in Mails |-> "none"] /\ told = FALSE

(* What the process does, and the clock; the server owes nobody an answer. *)
MailClient == Command \/ Answer \/ IOError \/ Deadline

MailNext == \/ MailClient \/ ServerAnswers \/ Break \/ Done
            \/ \E m \in Mails : Send(m) \/ ServerDecides(m)

MailSpec == MailInit /\ [][MailNext]_mailVars /\ WF_mailVars(MailClient)

-----------------------------------------------------------------------------
(* Send reports success only for a mail the server has taken, and failure  *)
(* for such a mail only where the answer to the final dot never came; it   *)
(* leaves no connection behind (Send, smtp.go:156).                        *)
SuccessMeansAccepted ==
    /\ stage = "sent" => status[mail] = "taken"
    /\ stage = "failed" /\ told => status[mail] # "taken"
    /\ stage \in Results \cup {"idle"} => wire = "none"

(* Every Send returns, whatever the server does or leaves undone           *)
(* (SetDeadline, smtp.go:132).                                             *)
SendReturns == InSession ~> stage \in Results
=============================================================================
