------------------------------- MODULE Mirror -------------------------------
(***************************************************************************)
(* What the three mirrors of an upstream repository promise.  The source   *)
(* moves on at any moment, one file at a time.  A sync notes where every   *)
(* file stands when it begins, and what it publishes later replaces the    *)
(* whole copy at once: every file is there, at a version the source had    *)
(* since the sync began, and no file goes back to an older one.  The       *)
(* process may lose its copy; it then serves nothing until the next        *)
(* publication.                                                            *)
(***************************************************************************)
EXTENDS Naturals

CONSTANT Files

VARIABLES source,     \* the version of every file upstream
          floor,      \* what the source was when the last sync began
          served      \* the version of every file served; 0 is nothing yet

vars == <<source, floor, served>>

Nothing == [f \in Files |-> 0]

Init == /\ source = [f \in Files |-> 1]
        /\ floor = Nothing
        /\ served = Nothing

Edit(f) == /\ source' = [source EXCEPT ![f] = @ + 1]
           /\ UNCHANGED <<floor, served>>

Begin == /\ floor' = source
         /\ UNCHANGED <<source, served>>

Publish == /\ \A f \in Files : /\ served'[f] \in floor[f] .. source[f]
                               /\ served'[f] > 0
                               /\ served'[f] >= served[f]
           /\ UNCHANGED <<source, floor>>

Lose == /\ served' = Nothing
        /\ UNCHANGED <<source, floor>>

Next == \/ \E f \in Files : Edit(f)
        \/ Begin \/ Publish \/ Lose

Spec == Init /\ [][Next]_vars
=============================================================================
