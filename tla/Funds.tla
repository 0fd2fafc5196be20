------------------------------- MODULE Funds -------------------------------
(***************************************************************************)
(* The balance of one user in one asset: the deposits, withdrawals,        *)
(* idempotency_keys and ledger_entries tables and the calls that write     *)
(* them, each in a goroutine of its own.  Withdraw and PlaceOrder read the *)
(* balance before their transaction begins; a transaction is split where   *)
(* it can wait for another one: at the row lock of a deposit (SELECT ...   *)
(* FOR UPDATE) and at the unique index of idempotency_keys.  Of an order   *)
(* only its reserve is seen here; fills are in Exchange.  The user, the    *)
(* account and the deposit address are those of Accounts.                  *)
(***************************************************************************)
EXTENDS Accounts, FiniteSets, FiniteSetsExt, Bags

CONSTANTS Debits,    \* calls of Withdraw and PlaceOrder
          Reviews,   \* calls of Confirm, Reject and Simulate that run concurrently
          Hashes,    \* tx_hash of the deposits
          Keys,      \* idempotency keys the client uses
          DepositAmounts,  \* amounts of deposits, which nothing checks
          MaxAmount  \* largest amount of a debit, which must be positive

ASSUME FundsBounds ==
    /\ DepositAmounts \subseteq Int /\ MaxAmount \in Nat \ {0}
    /\ None \notin Hashes \cup Keys

VARIABLES deposits,  \* [Hashes -> [status, amount]], status NEW before the row exists
          reviews,   \* [Reviews -> [pc, hash]]
          debits,    \* [Debits -> [pc, scope, key, amount]]
          keys,      \* the committed rows of idempotency_keys
          ledger     \* the bag of ledger entries

fundVars == <<deposits, reviews, debits, keys, ledger>>
vars == <<accountVars, fundVars>>

Amounts == 1..MaxAmount
Scopes == {"ORDER", "WITHDRAW"}
Entry(type, ref, amount) == [type |-> type, ref |-> ref, amount |-> amount]

\* ledger.SumByUserAsset over the committed entries.
SumByUserAsset ==
    MapThenSumSet(LAMBDA e : e.amount * ledger[e], BagToSet(ledger))

\* ledger.Store.Insert.
InsertEntry(type, ref, amount) == ledger' = ledger (+) SetToBag({Entry(type, ref, amount)})

-----------------------------------------------------------------------------
(* deposit.Service *)

\* wallet.Store.GetByAddress: the address of a deposit is one of the table.
KnownAddress == address # None

\* deposit.Store.Create; tx_hash is UNIQUE, so a second row is a conflict.
CreateDeposit(h, n) ==
    /\ deposits[h].status = "NEW"
    /\ deposits' = [deposits EXCEPT ![h] = [status |-> "PENDING", amount |-> n]]

\* deposit.Store.UpdateStatus.
UpdateStatus(h, s) == deposits' = [deposits EXCEPT ![h].status = s]

IdleReview == [pc |-> "idle", hash |-> None]

\* The deposit belongs to the user whose address it names; a second Intake of the
\* hash writes nothing.
Intake(h, n) ==
    /\ KnownAddress
    /\ CreateDeposit(h, n)

IntakeDeposit(h, n) ==
    /\ Intake(h, n)
    /\ UNCHANGED <<reviews, debits, keys, ledger>>

\* Simulate is an Intake and then a Confirm of the same row, in two transactions.
Simulate(v, h, n) ==
    /\ reviews[v].pc = "idle"
    /\ Intake(h, n)
    /\ reviews' = [reviews EXCEPT ![v] = [pc |-> "simulating", hash |-> h]]
    /\ UNCHANGED <<debits, keys, ledger>>

\* Mutant: the row is read without FOR UPDATE.
RowIsNeverLocked(h) == TRUE

RowIsFree(h) == \A w \in Reviews : ~(reviews[w].pc = "locked" /\ reviews[w].hash = h)

\* GetByIDTx locks the row; any status but PENDING ends the call.
LockDeposit(v, h) ==
    /\ \/ reviews[v].pc = "idle"
       \/ reviews[v].pc = "simulating" /\ reviews[v].hash = h
    /\ deposits[h].status # "NEW"
    /\ RowIsFree(h)
    /\ reviews' = [reviews EXCEPT ![v] =
                     IF deposits[h].status = "PENDING" THEN [pc |-> "locked", hash |-> h]
                     ELSE IdleReview]
    /\ UNCHANGED <<deposits, debits, keys, ledger>>

\* The credit needs the account.
Confirm(v) ==
    /\ reviews[v].pc = "locked"
    /\ HasAccount
    /\ LET h == reviews[v].hash
       IN  InsertEntry("DEPOSIT", h, deposits[h].amount) /\ UpdateStatus(h, "CONFIRMED")
    /\ reviews' = [reviews EXCEPT ![v] = IdleReview]
    /\ UNCHANGED <<debits, keys>>

Reject(v) ==
    /\ reviews[v].pc = "locked"
    /\ UpdateStatus(reviews[v].hash, "REJECTED")
    /\ reviews' = [reviews EXCEPT ![v] = IdleReview]
    /\ UNCHANGED <<debits, keys, ledger>>

\* An error, or the end of the process: the transaction rolls back.
AbortReview(v) ==
    /\ reviews[v].pc # "idle"
    /\ reviews' = [reviews EXCEPT ![v] = IdleReview]
    /\ UNCHANGED <<deposits, debits, keys, ledger>>

-----------------------------------------------------------------------------
(* withdrawal.Service.Withdraw and order.Service.PlaceOrder *)

IdleDebit == [pc |-> "idle", scope |-> "ORDER", key |-> None, amount |-> 0]

KeyOf(d) == <<debits[d].scope, debits[d].key>>

Answer(d, a) == debits' = [debits EXCEPT ![d].pc = a]

\* The account must exist, and the balance is compared before the transaction, whatever the key.
CheckBalance(d, s, k, n) ==
    /\ debits[d].pc = "idle"
    /\ HasAccount
    /\ debits' = [debits EXCEPT ![d] =
                    [pc |-> IF n > SumByUserAsset THEN "insufficient" ELSE "checked",
                     scope |-> s, key |-> k, amount |-> n]]
    /\ UNCHANGED <<deposits, reviews, keys, ledger>>

\* Mutant: the key is looked up, not inserted under the unique index.
KeyIsNeverHeld(d) == TRUE

\* The insert waits for a transaction that holds the same key uncommitted.
KeyIsFree(d) == \A e \in Debits : ~(debits[e].pc = "keyed" /\ KeyOf(e) = KeyOf(d))

InsertKey(d) ==
    /\ debits[d].pc = "checked"
    /\ KeyIsFree(d)
    /\ Answer(d, IF KeyOf(d) \in keys THEN "duplicate" ELSE "keyed")
    /\ UNCHANGED <<deposits, reviews, keys, ledger>>

DebitType(s) == IF s = "ORDER" THEN "RESERVE" ELSE "WITHDRAW"

CommitDebit(d) ==
    /\ debits[d].pc = "keyed"
    /\ Answer(d, "done")
    /\ keys' = keys \cup {KeyOf(d)}
    /\ InsertEntry(DebitType(debits[d].scope), d, -debits[d].amount)
    /\ UNCHANGED <<deposits, reviews>>

\* An error, or the end of the process: the key goes with the transaction.
AbortDebit(d) ==
    /\ debits[d].pc \in {"checked", "keyed"}
    /\ Answer(d, "failed")
    /\ UNCHANGED <<deposits, reviews, keys, ledger>>

\* Mutant: the order's status is not set, so it can be cancelled again.
CancelOrderAgain(d) ==
    /\ debits[d].pc = "done"
    /\ debits[d].scope = "ORDER"
    /\ InsertEntry("RELEASE", d, debits[d].amount)
    /\ UNCHANGED <<deposits, reviews, debits, keys>>

\* CancelOrder of an order nothing of which is filled gives its whole reserve back.
CancelOrder(d) ==
    /\ debits[d].pc = "done"
    /\ debits[d].scope = "ORDER"
    /\ Answer(d, "cancelled")
    /\ InsertEntry("RELEASE", d, debits[d].amount)
    /\ UNCHANGED <<deposits, reviews, keys>>

-----------------------------------------------------------------------------
Init ==
    /\ AccountInit
    /\ deposits = [h \in Hashes |-> [status |-> "NEW", amount |-> 0]]
    /\ reviews = [v \in Reviews |-> IdleReview]
    /\ debits = [d \in Debits |-> IdleDebit]
    /\ keys = {}
    /\ ledger = EmptyBag

DepositStep ==
    \/ \E h \in Hashes, n \in DepositAmounts : IntakeDeposit(h, n)
    \/ \E v \in Reviews, h \in Hashes, n \in DepositAmounts : Simulate(v, h, n)
    \/ \E v \in Reviews, h \in Hashes : LockDeposit(v, h)
    \/ \E v \in Reviews : Confirm(v) \/ Reject(v) \/ AbortReview(v)

DebitStep ==
    \/ \E d \in Debits, s \in Scopes, k \in Keys, n \in Amounts : CheckBalance(d, s, k, n)
    \/ \E d \in Debits : InsertKey(d) \/ CommitDebit(d) \/ AbortDebit(d) \/ CancelOrder(d)

Next ==
    \/ AccountStep /\ UNCHANGED fundVars
    \/ (DepositStep \/ DebitStep) /\ UNCHANGED accountVars

Spec == Init /\ [][Next]_vars

-----------------------------------------------------------------------------
(* Properties *)

Committed(d) == debits[d].pc \in {"done", "cancelled"}

\* A deposit is credited once if it is confirmed and never otherwise, however many
\* reviews, simulations and rollbacks race for it (deposit/service.go Confirm).
DepositCreditedOnce ==
    \A h \in Hashes :
        LET credits == {e \in BagToSet(ledger) : e.type = "DEPOSIT" /\ e.ref = h}
        IN  IF deposits[h].status = "CONFIRMED"
            THEN credits = {Entry("DEPOSIT", h, deposits[h].amount)}
                 /\ \A e \in credits : ledger[e] = 1
            ELSE credits = {}

\* The balance the API reports is what the rows of the other tables say: confirmed
\* deposits less withdrawals and the reserves of the orders that stand.
BalanceMatchesRows ==
    SumByUserAsset =
        MapThenSumSet(LAMBDA h : deposits[h].amount,
                      {h \in Hashes : deposits[h].status = "CONFIRMED"})
        - MapThenSumSet(LAMBDA d : debits[d].amount, {d \in Debits : debits[d].pc = "done"})

\* Concurrent and repeated calls with one idempotency key take effect once, and a
\* key is spent only by a call that took effect (idempotency/store.go Insert).
OneEffectPerKey ==
    /\ \A d, e \in Debits : Committed(d) /\ Committed(e) /\ KeyOf(d) = KeyOf(e) => d = e
    /\ keys = {KeyOf(d) : d \in {d \in Debits : Committed(d)}}

\* What has been taken in can be credited: an address is given out only to a user
\* with an account, so Confirm never meets a deposit it has to leave PENDING.
DepositsCanBeCredited ==
    \A h \in Hashes : deposits[h].status # "NEW" => account /\ address # None

\* README, withdraw: "Validates amount > 0 and balance >= amount (else 422 ...)";
\* the same check guards an order's reserve.  The balance never becomes negative.
NoOverdraft == SumByUserAsset >= 0
=============================================================================
