----------------------------- MODULE CallLedger -----------------------------
(***************************************************************************)
(* What a council run promises about the calls it pays for, whatever       *)
(* crashes, deadlines, refusals and resumes happen: an abstract ledger of  *)
(* slots.  A slot is issued at most one call at a time and never again     *)
(* once it has an answer or its last call may have been executed without   *)
(* an answer; while one of a provider's calls is in doubt the provider is  *)
(* issued nothing; and no more than Budget calls are on the books.         *)
(*                                                                         *)
(* The promises are those of the repository's README and operations guide, *)
(* as the engine and the store implement them.                             *)
(***************************************************************************)
EXTENDS Naturals, FiniteSets

CONSTANTS LedgerSlot,  \* pairs <<stage, provider>>
          Budget       \* calls the run may make

VARIABLES state,   \* of each slot: free, issued, answered or doubtful
          handed,  \* the issued slots whose call reached its provider
          booked   \* number of calls on the books

ledgerVars == <<state, handed, booked>>

LedgerInit ==
  /\ state = [s \in LedgerSlot |-> "free"]
  /\ handed = {}
  /\ booked = 0

InDoubt(provider) ==
  \E s \in LedgerSlot : s[2] = provider /\ state[s] \in {"issued", "doubtful"}

Issue(s) ==
  /\ state[s] = "free"
  /\ ~InDoubt(s[2])
  /\ booked < Budget
  /\ state' = [state EXCEPT ![s] = "issued"]
  /\ booked' = booked + 1
  /\ UNCHANGED handed

HandOver(s) ==
  /\ state[s] = "issued" /\ s \notin handed
  /\ handed' = handed \cup {s}
  /\ UNCHANGED <<state, booked>>

(* A call that was handed over is answered, or definitely failed.          *)
Settle(s, to) ==
  /\ state[s] = "issued" /\ s \in handed
  /\ state' = [state EXCEPT ![s] = to]
  /\ handed' = handed \ {s}
  /\ UNCHANGED booked

(* Only a call that was not handed over comes off the books.               *)
Withdraw(s) ==
  /\ state[s] = "issued" /\ s \notin handed
  /\ state' = [state EXCEPT ![s] = "free"]
  /\ booked' = booked - 1
  /\ UNCHANGED handed

Doubt(s) ==
  /\ state[s] = "issued"
  /\ state' = [state EXCEPT ![s] = "doubtful"]
  /\ handed' = handed \ {s}
  /\ UNCHANGED booked

LedgerNext ==
  \E s \in LedgerSlot :
    \/ Issue(s) \/ HandOver(s) \/ Withdraw(s) \/ Doubt(s)
    \/ \E to \in {"answered", "free"} : Settle(s, to)

LedgerSpec == LedgerInit /\ [][LedgerNext]_ledgerVars

=============================================================================
