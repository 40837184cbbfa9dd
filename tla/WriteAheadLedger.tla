-------------------------- MODULE WriteAheadLedger --------------------------
(***************************************************************************)
(* What the transaction journal promises, with no steps of the manager in   *)
(* sight: a change to the host's network is made only while a durable       *)
(* record claims it, and a claim is given up only once the change is gone.  *)
(* Whoever reads the ledger after a crash therefore sees everything that    *)
(* may still have to be undone.                                             *)
(***************************************************************************)
CONSTANTS Tx,     \* transactions
          Index   \* positions of a transaction's mutations

VARIABLES claimed,  \* the changes some durable record still answers for
          effects   \* the changes that are on the host

vars == <<claimed, effects>>

Change == Tx \X Index

Init == claimed = {} /\ effects = {}

\* The record of one transaction is rewritten.  It may claim more or fewer
\* changes of that transaction, as long as it claims those that are there.
Rewrite(t) ==
  /\ \E claims \in SUBSET ({t} \X Index) :
       claimed' = {c \in claimed : c[1] # t} \cup claims
  /\ effects \subseteq claimed'
  /\ UNCHANGED effects

\* A claimed change is made.
Acquire(c) ==
  /\ c \in claimed
  /\ effects' = effects \cup {c}
  /\ UNCHANGED claimed

\* A change goes away: it was undone, or its interface died.
Release(c) ==
  /\ effects' = effects \ {c}
  /\ UNCHANGED claimed

Next ==
  \/ \E t \in Tx : Rewrite(t)
  \/ \E c \in Change : Acquire(c) \/ Release(c)

Spec == Init /\ [][Next]_vars
=============================================================================
