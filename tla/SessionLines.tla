---------------------------- MODULE SessionLines ----------------------------
(***************************************************************************)
(* What the refresh-token machinery promises, without requests, stores or  *)
(* interleavings: a login opens a LINE of sessions, a refresh moves the    *)
(* line on to its next token, and a line that has died never comes back.   *)
(* At any moment a line is held by one token, or is on the move between    *)
(* two of them (the handler has spent the old token and not yet written    *)
(* the new one).  A line on the move is the only one a sweep cannot kill.  *)
(***************************************************************************)
EXTENDS Naturals

CONSTANTS Line,        \* identities of lines
          Users,
          None,        \* no owner yet
          RefreshTTL,  \* lifetime of a refresh token, in ticks
          MaxTime      \* bound on the clock

VARIABLES phase,     \* phase[l]: where the line is in its life
          owner,     \* owner[l]: the user who logged in
          deadline,  \* deadline[l]: when the line's current token expires
          now

lineVars == <<phase, owner, deadline, now>>

Phase == {"unborn", "moving", "held", "dead"}

Init ==
    /\ phase = [l \in Line |-> "unborn"]
    /\ owner = [l \in Line |-> None]
    /\ deadline = [l \in Line |-> 0]
    /\ now = 0

(* A login is authorised: its line starts on the move to its first token.  *)
Begin(l, u) ==
    /\ phase[l] = "unborn"
    /\ phase' = [phase EXCEPT ![l] = "moving"]
    /\ owner' = [owner EXCEPT ![l] = u]
    /\ deadline' = [deadline EXCEPT ![l] = now + RefreshTTL]
    /\ UNCHANGED now

(* The new token is stored.                                                *)
Settle(l) ==
    /\ phase[l] = "moving"
    /\ phase' = [phase EXCEPT ![l] = "held"]
    /\ UNCHANGED <<owner, deadline, now>>

(* A refresh spends the token the line is held by; only before it expires. *)
Rotate(l) ==
    /\ phase[l] = "held"
    /\ now < deadline[l]
    /\ phase' = [phase EXCEPT ![l] = "moving"]
    /\ deadline' = [deadline EXCEPT ![l] = now + RefreshTTL]
    /\ UNCHANGED <<owner, now>>

(* The new token was never stored, or the token was revoked.               *)
Die(l) ==
    /\ phase[l] \in {"moving", "held"}
    /\ phase' = [phase EXCEPT ![l] = "dead"]
    /\ deadline' = [deadline EXCEPT ![l] = 0]
    /\ UNCHANGED <<owner, now>>

(* Every line a user holds dies at once; those on the move survive.        *)
Swept(l, u) == owner[l] = u /\ phase[l] = "held"

Sweep(u) ==
    /\ phase' = [l \in Line |-> IF Swept(l, u) THEN "dead" ELSE phase[l]]
    /\ deadline' = [l \in Line |-> IF Swept(l, u) THEN 0 ELSE deadline[l]]
    /\ UNCHANGED <<owner, now>>

Tick ==
    /\ now < MaxTime
    /\ now' = now + 1
    /\ UNCHANGED <<phase, owner, deadline>>

Next ==
    \/ \E l \in Line, u \in Users : Begin(l, u)
    \/ \E l \in Line : Settle(l) \/ Rotate(l) \/ Die(l)
    \/ \E u \in Users : Sweep(u)
    \/ Tick

Spec == Init /\ [][Next]_lineVars
=============================================================================
