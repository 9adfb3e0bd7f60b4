------------------------------- MODULE Ledger -------------------------------
(***************************************************************************)
(* What the billing side of incus-admin promises about one user's balance, *)
(* whatever the handlers, workers and the sweeper do: a purchase attempt   *)
(* debits its price at most once, and a debit is given back at most once.  *)
(* Provisioning.tla implements this specification.                         *)
(***************************************************************************)
EXTENDS Integers

CONSTANTS
  Charges,  \* purchase attempts that may debit the balance
  Amount,   \* what each of them costs, a natural number
  Openings  \* what the balance may be at the start, natural numbers

VARIABLES
  balance,  \* users.balance
  charge    \* what has happened to the money of each attempt

ledgerVars == <<balance, charge>>

ChargeState == {"none", "charged", "refunded"}

LedgerInit ==
  /\ balance \in Openings
  /\ charge = [c \in Charges |-> "none"]

\* The balance covers the price and is debited by it.
Debit(c) ==
  /\ charge[c] = "none"
  /\ balance >= Amount[c]
  /\ balance' = balance - Amount[c]
  /\ charge' = [charge EXCEPT ![c] = "charged"]

\* A failed purchase gives back exactly what it took, once.
GiveBack(c) ==
  /\ charge[c] = "charged"
  /\ balance' = balance + Amount[c]
  /\ charge' = [charge EXCEPT ![c] = "refunded"]

LedgerNext == \E c \in Charges : Debit(c) \/ GiveBack(c)

LedgerSpec == LedgerInit /\ [][LedgerNext]_ledgerVars

=============================================================================
