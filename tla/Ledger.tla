------------------------------- MODULE Ledger -------------------------------
(***************************************************************************)
(* The payment ledger (package ledger): accounts, balances and the ids of  *)
(* the transfers already carried out.  Every method holds the ledger's     *)
(* lock from its first to its last statement, so each is an operator from  *)
(* the ledger before to the ledger after.  A method that returns an error  *)
(* leaves the ledger as it was, and its caller only logs the error.        *)
(*                                                                         *)
(* Balances are float64.  They are integers here, counted in a unit fine   *)
(* enough for every amount, and each arithmetic step rounds to Precision   *)
(* significant bits (53 in the code): below 2^Precision it is exact.       *)
(***************************************************************************)
EXTENDS Integers, FiniteSets

CONSTANTS
    Account,    \* account ids
    TxnID,      \* transaction ids
    Amount,     \* the float64 amounts clients may send
    Precision   \* significant bits of a balance

ASSUME AmountAssumption == Account # {} /\ Amount \subseteq Nat

ASSUME PrecisionAssumption == Precision \in Nat \ {0}

-----------------------------------------------------------------------------
(* float64 *)

\* 2 to the n.
Pow2[n \in Nat] == IF n = 0 THEN 1 ELSE 2 * Pow2[n - 1]

\* The distance of neighbouring floats at x.
ulp(x) == Pow2[CHOOSE e \in 0..x : /\ x < Pow2[Precision + e]
                                   /\ e > 0 => x >= Pow2[Precision + e - 1]]

\* Rounded to the nearest float, to the even one halfway between two.
fl(x) ==
    LET u    == ulp(x)
        down == x \div u
        rest == 2 * (x % u)
    IN  IF rest > u \/ (rest = u /\ down % 2 = 1) THEN (down + 1) * u
                                                  ELSE down * u

-----------------------------------------------------------------------------
(* Commands, as HandleCreateAccount and HandleTransfer let them through *)

CreateAccountCommand ==
    [type : {"CREATE_ACCOUNT"}, accountID : Account, initialBalance : Amount]

TransferCommand ==
    [type : {"TRANSFER"}, txnID : TxnID, from : Account, to : Account,
     amount : Amount \ {0}]

Command == CreateAccountCommand \cup TransferCommand

-----------------------------------------------------------------------------
(* The ledger: ledger.go *)

\* An account that does not exist has balance 0 here and no entry there.
LedgerState == [accounts      : SUBSET Account,
                balance       : [Account -> Nat],
                processedTxns : SUBSET TxnID]

NewLedger == [accounts      |-> {},
              balance       |-> [a \in Account |-> 0],
              processedTxns |-> {}]

CreateAccount(l, id, initialBalance) ==
    IF id \in l.accounts THEN l
    ELSE [l EXCEPT !.accounts = @ \cup {id}, !.balance[id] = initialBalance]

\* Transfer gets past all its checks.
Valid(l, txn) == /\ txn.txnID \notin l.processedTxns
                 /\ txn.from \in l.accounts /\ txn.to \in l.accounts
                 /\ l.balance[txn.from] >= txn.amount

\* The source is debited first, so that a transfer to oneself adds up.
Moved(balance, txn) ==
    LET debited == [balance EXCEPT ![txn.from] = fl(@ - txn.amount)]
    IN  [debited EXCEPT ![txn.to] = fl(@ + txn.amount)]

\* Mutants: the id is not kept; the funds are not checked; both balances are
\* read before either is written.
TransferUnmarked(l, txn) ==
    IF Valid(l, txn) THEN [l EXCEPT !.balance = Moved(@, txn)] ELSE l

TransferUnfunded(l, txn) ==
    IF Valid([l EXCEPT !.balance[txn.from] = txn.amount], txn)
    THEN [l EXCEPT !.balance[txn.from] = @ - txn.amount,
                   !.balance[txn.to]   = @ + txn.amount,
                   !.processedTxns     = @ \cup {txn.txnID}]
    ELSE l

TransferFromCopies(l, txn) ==
    IF Valid(l, txn)
    THEN [l EXCEPT !.balance[txn.from] = l.balance[txn.from] - txn.amount,
                   !.balance[txn.to]   = l.balance[txn.to] + txn.amount,
                   !.processedTxns     = @ \cup {txn.txnID}]
    ELSE l

\* Only a transfer that goes through is marked as processed; a failed one may
\* be tried again under its id.
Transfer(l, txn) ==
    IF Valid(l, txn)
    THEN [l EXCEPT !.balance       = Moved(@, txn),
                   !.processedTxns = @ \cup {txn.txnID}]
    ELSE l

-----------------------------------------------------------------------------
(* The applier: raft_ledger.go *)

\* What applier does with one command: applyTransfer or applyCreateAccount.
applyCommand(l, cmd) ==
    IF cmd.type = "TRANSFER" THEN Transfer(l, cmd)
    ELSE CreateAccount(l, cmd.accountID, cmd.initialBalance)

=============================================================================
