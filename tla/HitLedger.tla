------------------------------ MODULE HitLedger ------------------------------
(***************************************************************************)
(* What a vanity search promises its user, whatever path (CPU or GPU, f1   *)
(* or ed25519) carries it out: every hit shown has a number of its own     *)
(* between 1 and Count, a retiring search shows each target at most once,  *)
(* and when the search has ended the numbers shown have no gap and their   *)
(* count is the total that it reports.                                     *)
(***************************************************************************)
EXTENDS Naturals

CONSTANTS Targets,  \* the targets searched for
          Count,    \* the hit budget
          Retire    \* a target may be hit once only

VARIABLES ledger,   \* ledger[n]: the target shown as hit number n
          ended,    \* the search is over
          total     \* the number of hits it reported when it ended

ledgerVars == <<ledger, ended, total>>

LedgerInit == /\ ledger = [n \in {} |-> 0]
              /\ ended = FALSE
              /\ total = 0

Show(n, t) == /\ ~ended
              /\ n \in 1 .. Count
              /\ n \notin DOMAIN ledger
              /\ Retire => \A m \in DOMAIN ledger : ledger[m] # t
              /\ ledger' = [m \in DOMAIN ledger \cup {n} |->
                              IF m = n THEN t ELSE ledger[m]]
              /\ UNCHANGED <<ended, total>>

End(k) == /\ ~ended
          /\ DOMAIN ledger = 1 .. k
          /\ ended' = TRUE
          /\ total' = k
          /\ UNCHANGED ledger

LedgerNext == \/ \E n \in 1 .. Count, t \in Targets : Show(n, t)
              \/ \E k \in 0 .. Count : End(k)

LedgerSpec == LedgerInit /\ [][LedgerNext]_ledgerVars
=============================================================================
