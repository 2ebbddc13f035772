----------------------------- MODULE CallArchive -----------------------------
(***************************************************************************)
(* What archiving promises, without saying how: every call record lives in *)
(* exactly one place, `live' or `archived', and a set of old live records  *)
(* moves to the archive in one indivisible step.  No record is lost, none  *)
(* comes back.                                                             *)
(***************************************************************************)
EXTENDS Naturals

CONSTANT Ids      \* ids of the rows of table calls

VARIABLES
    old,          \* ids older than Move_to_old_calls_older_than days
    where         \* where the readers of the two tables find each call

vars == <<old, where>>

Init ==
    /\ old \in SUBSET Ids
    /\ where = [c \in Ids |-> "live"]

GrowOld == \E c \in Ids \ old : old' = old \cup {c} /\ UNCHANGED where

\* Some old calls, any number of them, change place together.
Move ==
    \E S \in SUBSET {c \in old : where[c] = "live"} :
        /\ where' = [c \in Ids |-> IF c \in S THEN "archived" ELSE where[c]]
        /\ UNCHANGED old

Next == GrowOld \/ Move

Spec == Init /\ [][Next]_vars
=============================================================================
