---------------------------- MODULE FundsProofs ----------------------------
(***************************************************************************)
(* Proofs about Funds and Accounts, for any calls, reviews, hashes, keys   *)
(* and amounts: one address, deposits that can be credited and are         *)
(* credited once, one effect for every idempotency key, and a balance that *)
(* is what the rows of the other tables say.                               *)
(***************************************************************************)
EXTENDS Funds, FiniteSetTheorems, Folds, TLAPS

OpenState == [pc : {"idle", "looked", "creating", "inserted"}, tries : Nat]
DepositState == [status : {"NEW", "PENDING", "CONFIRMED", "REJECTED"}, amount : Int]
ReviewState == [pc : {"idle", "simulating", "locked"}, hash : Hashes \cup {None}]
DebitState == [pc : {"idle", "checked", "insufficient", "keyed", "duplicate", "done",
                     "failed", "cancelled"},
               scope : Scopes, key : Keys \cup {None}, amount : Nat]

AccountTypeOK ==
    /\ user \in {"NEW", "ACTIVE", "DELETED"} /\ account \in BOOLEAN
    /\ address \in Opens \cup {None}
    /\ opens \in [Opens -> OpenState]
    /\ answers \subseteq Opens

FundTypeOK ==
    /\ deposits \in [Hashes -> DepositState]
    /\ reviews \in [Reviews -> ReviewState]
    /\ debits \in [Debits -> DebitState]

\* The insert waits at the unique index, so nobody inserts when there is an address,
\* and nobody inserts without an account.
AddressInv ==
    /\ OneAddress
    /\ \A o \in Opens :
          /\ opens[o].pc # "idle" => user # "NEW"
          /\ opens[o].pc \in {"creating", "inserted"} => account
          /\ opens[o].pc = "inserted" =>
                 address = None /\ \A q \in Opens : opens[q].pc = "inserted" => q = o
    /\ address # None => account
    /\ account => user # "NEW"

AccountInv == AccountTypeOK /\ AddressInv

\* Under the row lock of a deposit its status is still PENDING, and one review has it.
ReviewsInv ==
    \A v \in Reviews :
        /\ reviews[v].pc # "idle" => reviews[v].hash \in Hashes
        /\ reviews[v].pc = "locked" =>
               /\ deposits[reviews[v].hash].status = "PENDING"
               /\ \A w \in Reviews :
                      reviews[w].pc = "locked" /\ reviews[w].hash = reviews[v].hash => w = v

\* The credits of the ledger and the confirmed deposits are the same.
CreditsInv ==
    /\ IsABag(ledger)
    /\ \A e \in DOMAIN ledger : e.type = "DEPOSIT" =>
           /\ e.ref \in Hashes /\ deposits[e.ref].status = "CONFIRMED"
           /\ e = Entry("DEPOSIT", e.ref, deposits[e.ref].amount)
           /\ ledger[e] = 1
    /\ \A h \in Hashes : deposits[h].status = "CONFIRMED" =>
           Entry("DEPOSIT", h, deposits[h].amount) \in DOMAIN ledger

\* A key is held by one uncommitted call, or spent by one committed call, never both.
KeysInv ==
    /\ OneEffectPerKey
    /\ \A d \in Debits : debits[d].pc = "keyed" =>
           /\ KeyOf(d) \notin keys
           /\ \A e \in Debits : debits[e].pc = "keyed" /\ KeyOf(e) = KeyOf(d) => e = d

FundsInv == AccountInv /\ FundTypeOK /\ DepositsCanBeCredited /\ ReviewsInv /\ CreditsInv /\ KeysInv

-----------------------------------------------------------------------------
\* The tables are empty at the start.
LEMMA FundsInitInv == Init => FundsInv
<1> SUFFICES ASSUME Init PROVE FundsInv
    OBVIOUS
<1>1. AccountInv
    BY AccountNames DEF Init, AccountInit, AccountInv, AccountTypeOK, AddressInv, OneAddress,
                        OpenState, IdleOpen
<1>2. FundTypeOK
    BY DEF Init, FundTypeOK, DepositState, ReviewState, DebitState, IdleReview, IdleDebit, Scopes
<1>3. DepositsCanBeCredited
    BY DEF Init, DepositsCanBeCredited
<1>4. ReviewsInv
    BY DEF Init, ReviewsInv, IdleReview
<1>5. CreditsInv
    BY DEF Init, CreditsInv, EmptyBag, SetToBag, IsABag
<1>6. KeysInv
    BY DEF Init, KeysInv, OneEffectPerKey, Committed, IdleDebit
<1> QED
    BY <1>1, <1>2, <1>3, <1>4, <1>5, <1>6 DEF FundsInv

\* What a step of a call of GetOrCreateAddress has to show.
LEMMA OneOpen ==
    ASSUME AccountInv, NEW o \in Opens,
           opens' \in [Opens -> OpenState],
           \A q \in Opens : q # o => opens'[q] = opens[q],
           opens'[o].pc # "idle" => user # "NEW",
           opens'[o].pc \in {"creating", "inserted"} => account,
           opens'[o].pc = "inserted" => address = None /\ \A q \in Opens : opens[q].pc # "inserted",
           answers' \subseteq (answers \cup {address}) \ {None},
           UNCHANGED <<user, account, address>>
    PROVE  AccountInv'
<1>1. AccountTypeOK'
    BY DEF AccountInv, AccountTypeOK
<1>2. AddressInv'
    BY DEF AccountInv, AccountTypeOK, AddressInv, OneAddress
<1> QED
    BY <1>1, <1>2 DEF AccountInv

\* The steps of Accounts keep its invariant; an address and an account stay.
LEMMA AccountStepInv ==
    ASSUME AccountInv, AccountStep
    PROVE  AccountInv' /\ (account => account') /\ (address # None => address' # None)
<1>1. opens \in [Opens -> OpenState] /\ IdleOpen \in OpenState /\ IdleOpen.pc = "idle"
    BY DEF AccountInv, AccountTypeOK, OpenState, IdleOpen
<1>2. ASSUME NEW enabled \in BOOLEAN, CreateUser(enabled)
      PROVE  AccountInv' /\ account' = enabled /\ account = FALSE /\ address' = address
    BY <1>2 DEF CreateUser, CreateRow, ProvisionAll, AccountInv, AccountTypeOK, AddressInv, OneAddress
<1>3. CASE DeleteUser
    BY <1>3 DEF DeleteUser, AccountInv, AccountTypeOK, AddressInv, OneAddress
<1>4. ASSUME NEW o \in Opens, LookUpAddress(o)
      PROVE  AccountInv' /\ UNCHANGED <<account, address>>
    <2>1. UNCHANGED <<user, account, address>> /\ user # "NEW"
        BY <1>4 DEF LookUpAddress
    <2>2. /\ opens' \in [Opens -> OpenState] /\ opens'[o].pc \in {"idle", "looked"}
          /\ \A q \in Opens : q # o => opens'[q] = opens[q]
        BY <1>1, <1>4 DEF LookUpAddress, AnswerOpen, OpenState
    <2>3. answers' \subseteq (answers \cup {address}) \ {None}
        BY <1>4, AccountNames DEF LookUpAddress, AnswerOpen, HasAddress, AccountInv, AccountTypeOK
    <2> QED
        BY <2>1, <2>2, <2>3, OneOpen
<1>5. ASSUME NEW o \in Opens, CheckAccount(o)
      PROVE  AccountInv' /\ UNCHANGED <<account, address>>
    <2>1. UNCHANGED <<user, account, address, answers>> /\ user # "NEW"
        BY <1>5 DEF CheckAccount, AccountInv, AddressInv
    <2>2. /\ opens' \in [Opens -> OpenState]
          /\ opens'[o].pc = "idle" \/ (opens'[o].pc = "creating" /\ account)
          /\ \A q \in Opens : q # o => opens'[q] = opens[q]
        BY <1>1, <1>5 DEF CheckAccount, HasAccount, OpenState
    <2> QED
        BY <2>1, <2>2, OneOpen, AccountNames DEF AccountInv, AccountTypeOK
<1>6. ASSUME NEW o \in Opens, InsertAddress(o)
      PROVE  AccountInv' /\ UNCHANGED <<account, address>>
    <2>1. UNCHANGED <<user, account, address, answers>> /\ user # "NEW" /\ account
        BY <1>6 DEF InsertAddress, AccountInv, AddressInv
    <2>2. /\ opens' \in [Opens -> OpenState]
          /\ \/ opens'[o].pc \in {"idle", "creating"}
             \/ opens'[o].pc = "inserted" /\ address = None /\ \A q \in Opens : opens[q].pc # "inserted"
          /\ \A q \in Opens : q # o => opens'[q] = opens[q]
        <3>1. \A q \in Opens : opens[q].pc # "inserted"
            BY <1>6 DEF InsertAddress, IndexIsFree
        <3>2. CASE ~Conflicts(o) /\ opens' = [opens EXCEPT ![o].pc = "inserted"]
            BY <1>1, <3>1, <3>2 DEF Conflicts, HasAddress, OpenState
        <3>3. CASE opens' = [opens EXCEPT ![o] = TryAgain(@)]
            <4>1. opens[o] \in OpenState /\ opens[o].pc = "creating"
                BY <1>1, <1>6 DEF InsertAddress
            <4>2. TryAgain(opens[o]) \in OpenState /\ TryAgain(opens[o]).pc \in {"idle", "creating"}
                BY <1>1, <4>1 DEF OpenState, TryAgain
            <4> QED
                BY <1>1, <3>3, <4>2
        <3> QED
            BY <1>6, <3>2, <3>3 DEF InsertAddress
    <2> QED
        BY <2>1, <2>2, OneOpen, AccountNames DEF AccountInv, AccountTypeOK
<1>7. ASSUME NEW o \in Opens, CommitAddress(o)
      PROVE  AccountInv' /\ account' = account /\ address' # None
    <2>1. /\ opens' \in [Opens -> OpenState] /\ opens'[o].pc = "idle"
          /\ \A q \in Opens : q # o => opens'[q] = opens[q]
        BY <1>1, <1>7 DEF CommitAddress
    <2>2. /\ account /\ address = None /\ user # "NEW"
          /\ \A q \in Opens : opens[q].pc = "inserted" => q = o
        BY <1>7 DEF CommitAddress, AccountInv, AddressInv
    <2>3. answers = {}
        BY <2>2, AccountNames DEF AccountInv, AccountTypeOK, AddressInv, OneAddress
    <2>4. address' = o /\ answers' \subseteq {o} /\ UNCHANGED <<user, account>>
        BY <1>7, <2>3 DEF CommitAddress
    <2>5. AccountTypeOK' /\ address' # None
        BY <2>1, <2>4, AccountNames DEF AccountInv, AccountTypeOK
    <2>6. AddressInv'
        BY <2>1, <2>2, <2>4 DEF AccountInv, AddressInv, OneAddress
    <2> QED
        BY <2>4, <2>5, <2>6 DEF AccountInv
<1>8. ASSUME NEW o \in Opens, AbortOpen(o)
      PROVE  AccountInv' /\ UNCHANGED <<account, address>>
    <2>1. UNCHANGED <<user, account, address, answers>>
        BY <1>8 DEF AbortOpen
    <2>2. /\ opens' \in [Opens -> OpenState] /\ opens'[o].pc = "idle"
          /\ \A q \in Opens : q # o => opens'[q] = opens[q]
        BY <1>1, <1>8 DEF AbortOpen
    <2> QED
        BY <2>1, <2>2, OneOpen, AccountNames DEF AccountInv, AccountTypeOK
<1> QED
    BY <1>2, <1>3, <1>4, <1>5, <1>6, <1>7, <1>8 DEF AccountStep

-----------------------------------------------------------------------------
\* A bag to which an element is added.
Added(B, x) == B (+) SetToBag({x})

LEMMA AddedFacts ==
    ASSUME NEW B, IsABag(B), NEW x
    PROVE  /\ IsABag(Added(B, x))
           /\ DOMAIN Added(B, x) = DOMAIN B \cup {x}
           /\ \A e \in DOMAIN B : e # x => Added(B, x)[e] = B[e]
           /\ Added(B, x)[x] = IF x \in DOMAIN B THEN B[x] + 1 ELSE 1
<1>1. Added(B, x) = [e \in DOMAIN B \cup {x} |-> (IF e \in DOMAIN B THEN B[e] ELSE 0)
                                              + (IF e \in {x} THEN SetToBag({x})[e] ELSE 0)]
    BY DEF Added, (+), SetToBag
<1>2. SetToBag({x})[x] = 1
    BY DEF SetToBag
<1>3. \A e \in DOMAIN B : B[e] \in {n \in Nat : n > 0}
    BY DEF IsABag
<1> QED
    BY <1>1, <1>2, <1>3 DEF IsABag

\* A step that confirms no deposit and credits nothing.
LEMMA NoCredit ==
    ASSUME FundsInv, ledger' = ledger,
           \A h \in Hashes : deposits'[h] = deposits[h]
                            \/ (deposits[h].status # "CONFIRMED" /\ deposits'[h].status # "CONFIRMED")
    PROVE  CreditsInv'
<1>1. CreditsInv
    BY DEF FundsInv
<1>2. ASSUME NEW e \in DOMAIN ledger, e.type = "DEPOSIT"
      PROVE  e.ref \in Hashes /\ deposits'[e.ref] = deposits[e.ref]
    BY <1>1, <1>2 DEF CreditsInv
<1>3. ASSUME NEW h \in Hashes, deposits'[h].status = "CONFIRMED"
      PROVE  deposits[h].status = "CONFIRMED" /\ deposits'[h] = deposits[h]
    BY <1>3
<1> QED
    BY <1>1, <1>2, <1>3 DEF CreditsInv

\* A step that enters something else than a credit.
LEMMA NoDepositEntry ==
    ASSUME FundsInv, NEW e, e.type # "DEPOSIT", ledger' = Added(ledger, e), deposits' = deposits
    PROVE  CreditsInv'
<1>1. CreditsInv /\ IsABag(ledger)
    BY DEF FundsInv, CreditsInv
<1>2. /\ IsABag(ledger') /\ DOMAIN ledger' = DOMAIN ledger \cup {e}
      /\ \A x \in DOMAIN ledger : x # e => ledger'[x] = ledger[x]
    BY <1>1, AddedFacts
<1> QED
    BY <1>1, <1>2 DEF CreditsInv

\* What a step of the deposits has to show besides CreditsInv'.
LEMMA OneDeposit ==
    ASSUME FundsInv, CreditsInv', NEW h \in Hashes,
           deposits' \in [Hashes -> DepositState], reviews' \in [Reviews -> ReviewState],
           \A g \in Hashes : g # h => deposits'[g] = deposits[g],
           deposits'[h].status # "NEW" => account /\ address # None,
           ReviewsInv',
           UNCHANGED <<accountVars, debits, keys>>
    PROVE  FundsInv'
<1>1. AccountInv'
    BY DEF accountVars, FundsInv, AccountInv, AccountTypeOK, AddressInv, OneAddress
<1>2. FundTypeOK' /\ DepositsCanBeCredited'
    BY DEF accountVars, FundsInv, FundTypeOK, DepositsCanBeCredited
<1>3. KeysInv'
    BY DEF FundsInv, KeysInv, OneEffectPerKey, Committed, KeyOf
<1> QED
    BY <1>1, <1>2, <1>3 DEF FundsInv

\* A step that changes neither the account nor the deposits and their reviews.
LEMMA OneDebit ==
    ASSUME FundsInv, CreditsInv', KeysInv', debits' \in [Debits -> DebitState],
           UNCHANGED <<accountVars, deposits, reviews>>
    PROVE  FundsInv'
<1>1. AccountInv'
    BY DEF accountVars, FundsInv, AccountInv, AccountTypeOK, AddressInv, OneAddress
<1>2. FundTypeOK' /\ DepositsCanBeCredited' /\ ReviewsInv'
    BY DEF accountVars, FundsInv, FundTypeOK, DepositsCanBeCredited, ReviewsInv
<1> QED
    BY <1>1, <1>2 DEF FundsInv

-----------------------------------------------------------------------------
\* Intake takes a deposit in for an address of the table.
LEMMA IntakeInv ==
    ASSUME FundsInv, NEW h \in Hashes, NEW n \in DepositAmounts, IntakeDeposit(h, n), UNCHANGED accountVars
    PROVE  FundsInv'
<1>1. /\ deposits' \in [Hashes -> DepositState]
      /\ \A g \in Hashes : g # h => deposits'[g] = deposits[g]
      /\ deposits[h].status = "NEW" /\ deposits'[h].status = "PENDING"
    BY FundsBounds DEF IntakeDeposit, Intake, CreateDeposit, FundsInv, FundTypeOK, DepositState
<1>2. address # None /\ account /\ UNCHANGED <<reviews, debits, keys, ledger>>
    BY DEF IntakeDeposit, Intake, KnownAddress, FundsInv, AccountInv, AddressInv
<1>3. CreditsInv'
    BY <1>1, <1>2, NoCredit
<1>4. ReviewsInv' /\ reviews' \in [Reviews -> ReviewState]
    BY <1>1, <1>2 DEF FundsInv, FundTypeOK, ReviewsInv
<1> QED
    BY <1>1, <1>2, <1>3, <1>4, OneDeposit

\* Simulate takes it in the same way and goes on to confirm it.
LEMMA SimulateInv ==
    ASSUME FundsInv, NEW v \in Reviews, NEW h \in Hashes, NEW n \in DepositAmounts, Simulate(v, h, n),
           UNCHANGED accountVars
    PROVE  FundsInv'
<1>1. /\ deposits' \in [Hashes -> DepositState]
      /\ \A g \in Hashes : g # h => deposits'[g] = deposits[g]
      /\ deposits[h].status = "NEW" /\ deposits'[h].status = "PENDING"
    BY FundsBounds DEF Simulate, Intake, CreateDeposit, FundsInv, FundTypeOK, DepositState
<1>2. address # None /\ account /\ UNCHANGED <<debits, keys, ledger>>
    BY DEF Simulate, Intake, KnownAddress, FundsInv, AccountInv, AddressInv
<1>3. CreditsInv'
    BY <1>1, <1>2, NoCredit
<1>4. /\ reviews' \in [Reviews -> ReviewState]
      /\ reviews'[v].pc = "simulating" /\ reviews'[v].hash = h
      /\ \A w \in Reviews : w # v => reviews'[w] = reviews[w]
    BY DEF Simulate, FundsInv, FundTypeOK, ReviewState
<1>5. ReviewsInv'
    BY <1>1, <1>4 DEF FundsInv, ReviewsInv
<1> QED
    BY <1>1, <1>2, <1>3, <1>4, <1>5, OneDeposit

\* The row lock: only a pending row that nobody has locked.
LEMMA LockDepositInv ==
    ASSUME FundsInv, NEW v \in Reviews, NEW h \in Hashes, LockDeposit(v, h), UNCHANGED accountVars
    PROVE  FundsInv'
<1>1. UNCHANGED <<deposits, debits, keys, ledger>>
    BY DEF LockDeposit
<1>2. CreditsInv'
    BY <1>1, NoCredit
<1>3. /\ reviews' \in [Reviews -> ReviewState]
      /\ \/ reviews'[v].pc = "idle"
         \/ reviews'[v].pc = "locked" /\ reviews'[v].hash = h /\ deposits[h].status = "PENDING"
      /\ \A w \in Reviews : w # v => reviews'[w] = reviews[w]
    <2>1. CASE deposits[h].status = "PENDING"
        BY <2>1 DEF LockDeposit, FundsInv, FundTypeOK, ReviewState
    <2>2. CASE deposits[h].status # "PENDING"
        BY <2>2 DEF LockDeposit, IdleReview, FundsInv, FundTypeOK, ReviewState
    <2> QED
        BY <2>1, <2>2
<1>4. \A w \in Reviews : reviews[w].pc = "locked" => reviews[w].hash # h
    BY DEF LockDeposit, RowIsFree
<1>5. ReviewsInv'
    BY <1>1, <1>3, <1>4 DEF FundsInv, ReviewsInv
<1>6. deposits' \in [Hashes -> DepositState] /\ (deposits'[h].status # "NEW" => account /\ address # None)
    BY <1>1 DEF FundsInv, FundTypeOK, DepositsCanBeCredited
<1> QED
    BY <1>1, <1>2, <1>3, <1>5, <1>6, OneDeposit

\* A review that ends gives its lock back.
LEMMA EndReview ==
    ASSUME FundsInv, NEW v \in Reviews, reviews' = [reviews EXCEPT ![v] = IdleReview],
           \A w \in Reviews : w # v /\ reviews[w].pc = "locked" =>
               deposits'[reviews[w].hash] = deposits[reviews[w].hash]
    PROVE  ReviewsInv' /\ reviews' \in [Reviews -> ReviewState]
<1>1. /\ reviews' \in [Reviews -> ReviewState] /\ reviews'[v].pc = "idle"
      /\ \A w \in Reviews : w # v => reviews'[w] = reviews[w]
    BY DEF IdleReview, FundsInv, FundTypeOK, ReviewState
<1> QED
    BY <1>1 DEF FundsInv, ReviewsInv

\* The credit of a pending deposit: its entry is not in the ledger yet.
LEMMA ConfirmInv ==
    ASSUME FundsInv, NEW v \in Reviews, Confirm(v), UNCHANGED accountVars
    PROVE  FundsInv'
<1>1. PICK h \in Hashes : /\ h = reviews[v].hash /\ deposits[h].status = "PENDING"
                          /\ \A w \in Reviews : reviews[w].pc = "locked" /\ reviews[w].hash = h => w = v
    BY DEF Confirm, FundsInv, ReviewsInv
<1>2. /\ deposits' \in [Hashes -> DepositState]
      /\ deposits'[h].status = "CONFIRMED" /\ deposits'[h].amount = deposits[h].amount
      /\ \A g \in Hashes : g # h => deposits'[g] = deposits[g]
    BY <1>1 DEF Confirm, UpdateStatus, FundsInv, FundTypeOK, DepositState
<1>3. ReviewsInv' /\ reviews' \in [Reviews -> ReviewState]
    BY <1>1, <1>2, EndReview DEF Confirm, FundsInv, ReviewsInv
<1>4. UNCHANGED <<debits, keys>> /\ account /\ address # None
    BY <1>1 DEF Confirm, FundsInv, DepositsCanBeCredited
<1>5. CreditsInv'
    <2> DEFINE credit == Entry("DEPOSIT", h, deposits[h].amount)
    <2>1. CreditsInv /\ IsABag(ledger) /\ ledger' = Added(ledger, credit)
        BY <1>1 DEF Confirm, InsertEntry, Added, FundsInv, CreditsInv
    <2>2. credit.type = "DEPOSIT" /\ credit.ref = h
        BY DEF Entry
    <2> HIDE DEF credit
    <2>3. credit \notin DOMAIN ledger
        BY <1>1, <2>1, <2>2 DEF CreditsInv
    <2>4. /\ IsABag(ledger') /\ DOMAIN ledger' = DOMAIN ledger \cup {credit}
          /\ \A e \in DOMAIN ledger : ledger'[e] = ledger[e]
          /\ ledger'[credit] = 1
        BY <2>1, <2>3, AddedFacts
    <2>5. ASSUME NEW e \in DOMAIN ledger, e.type = "DEPOSIT"
          PROVE  e.ref \in Hashes /\ deposits'[e.ref] = deposits[e.ref]
        BY <1>1, <1>2, <2>1, <2>5 DEF CreditsInv
    <2>6. credit = Entry("DEPOSIT", credit.ref, deposits'[credit.ref].amount)
        BY <1>2, <2>2 DEF credit
    <2>7. ASSUME NEW e \in DOMAIN ledger', e.type = "DEPOSIT"
          PROVE  /\ e.ref \in Hashes /\ deposits'[e.ref].status = "CONFIRMED"
                 /\ e = Entry("DEPOSIT", e.ref, deposits'[e.ref].amount)
                 /\ ledger'[e] = 1
        BY <1>2, <2>1, <2>2, <2>4, <2>5, <2>6, <2>7 DEF CreditsInv
    <2>8. ASSUME NEW g \in Hashes, deposits'[g].status = "CONFIRMED"
          PROVE  Entry("DEPOSIT", g, deposits'[g].amount) \in DOMAIN ledger'
        BY <1>2, <2>1, <2>2, <2>4, <2>6, <2>8 DEF CreditsInv
    <2> QED
        BY <2>4, <2>7, <2>8 DEF CreditsInv
<1> QED
    BY <1>2, <1>3, <1>4, <1>5, OneDeposit

\* A refusal credits nothing.
LEMMA RejectInv ==
    ASSUME FundsInv, NEW v \in Reviews, Reject(v), UNCHANGED accountVars
    PROVE  FundsInv'
<1>1. PICK h \in Hashes : /\ h = reviews[v].hash /\ deposits[h].status = "PENDING"
                          /\ \A w \in Reviews : reviews[w].pc = "locked" /\ reviews[w].hash = h => w = v
    BY DEF Reject, FundsInv, ReviewsInv
<1>2. /\ deposits' \in [Hashes -> DepositState] /\ deposits'[h].status = "REJECTED"
      /\ \A g \in Hashes : g # h => deposits'[g] = deposits[g]
    BY <1>1 DEF Reject, UpdateStatus, FundsInv, FundTypeOK, DepositState
<1>3. ReviewsInv' /\ reviews' \in [Reviews -> ReviewState]
    BY <1>1, <1>2, EndReview DEF Reject, FundsInv, ReviewsInv
<1>4. UNCHANGED <<debits, keys, ledger>> /\ account /\ address # None
    BY <1>1 DEF Reject, FundsInv, DepositsCanBeCredited
<1>5. CreditsInv'
    BY <1>1, <1>2, <1>4, NoCredit
<1> QED
    BY <1>2, <1>3, <1>4, <1>5, OneDeposit

\* A rollback.
LEMMA AbortReviewInv ==
    ASSUME FundsInv, NEW v \in Reviews, AbortReview(v), UNCHANGED accountVars
    PROVE  FundsInv'
<1>1. UNCHANGED <<deposits, debits, keys, ledger>>
    BY DEF AbortReview
<1>2. CreditsInv' /\ ReviewsInv' /\ reviews' \in [Reviews -> ReviewState]
    BY <1>1, NoCredit, EndReview DEF AbortReview
<1>3. PICK h \in Hashes : h = reviews[v].hash
    BY DEF AbortReview, FundsInv, ReviewsInv
<1>4. deposits' \in [Hashes -> DepositState] /\ (deposits'[h].status # "NEW" => account /\ address # None)
    BY <1>1 DEF FundsInv, FundTypeOK, DepositsCanBeCredited
<1> QED
    BY <1>1, <1>2, <1>4, OneDeposit

-----------------------------------------------------------------------------
\* A call that neither holds nor spends a key before or after its step.
LEMMA NoKey ==
    ASSUME FundsInv, NEW d \in Debits, UNCHANGED keys,
           \A e \in Debits : e # d => debits'[e] = debits[e],
           ~Committed(d), ~Committed(d)', debits'[d].pc # "keyed"
    PROVE  KeysInv'
<1>1. \A e \in Debits : e # d => KeyOf(e)' = KeyOf(e) /\ (Committed(e)' <=> Committed(e))
    BY DEF KeyOf, Committed
<1>2. {KeyOf(e) : e \in {x \in Debits : Committed(x)}}' = {KeyOf(e) : e \in {x \in Debits : Committed(x)}}
    BY <1>1
<1>3. OneEffectPerKey'
    BY <1>1, <1>2 DEF FundsInv, KeysInv, OneEffectPerKey
<1> QED
    BY <1>1, <1>3 DEF FundsInv, KeysInv

\* The balance is compared; nothing is written.
LEMMA CheckBalanceInv ==
    ASSUME FundsInv, NEW d \in Debits, NEW s \in Scopes, NEW k \in Keys, NEW n \in Amounts,
           CheckBalance(d, s, k, n), UNCHANGED accountVars
    PROVE  FundsInv'
<1>1. UNCHANGED <<deposits, reviews, keys, ledger>> /\ debits[d].pc = "idle"
    BY DEF CheckBalance
<1>2. /\ debits' \in [Debits -> DebitState] /\ debits'[d].pc \in {"insufficient", "checked"}
      /\ \A e \in Debits : e # d => debits'[e] = debits[e]
    <2>1. CASE n > SumByUserAsset
        BY <2>1, FundsBounds DEF CheckBalance, FundsInv, FundTypeOK, DebitState, Amounts
    <2>2. CASE ~(n > SumByUserAsset)
        BY <2>2, FundsBounds DEF CheckBalance, FundsInv, FundTypeOK, DebitState, Amounts
    <2> QED
        BY <2>1, <2>2
<1>3. KeysInv'
    BY <1>1, <1>2, NoKey DEF Committed
<1>4. CreditsInv'
    BY <1>1, NoCredit
<1> QED
    BY <1>1, <1>2, <1>3, <1>4, OneDebit

\* What Answer changes.
LEMMA Answered ==
    ASSUME FundsInv, NEW d \in Debits,
           NEW a \in {"checked", "insufficient", "keyed", "duplicate", "done", "failed", "cancelled"},
           Answer(d, a)
    PROVE  /\ debits' \in [Debits -> DebitState] /\ debits'[d].pc = a
           /\ debits'[d].scope = debits[d].scope /\ debits'[d].amount = debits[d].amount
           /\ \A e \in Debits : e # d => debits'[e] = debits[e]
           /\ \A e \in Debits : KeyOf(e)' = KeyOf(e)
<1>1. /\ debits' \in [Debits -> DebitState] /\ debits'[d].pc = a
      /\ debits'[d].scope = debits[d].scope /\ debits'[d].key = debits[d].key
      /\ debits'[d].amount = debits[d].amount
      /\ \A e \in Debits : e # d => debits'[e] = debits[e]
    BY DEF Answer, FundsInv, FundTypeOK, DebitState
<1> QED
    BY <1>1 DEF KeyOf

\* The insert of the key: it is neither spent nor held by anybody else.
LEMMA InsertKeyInv ==
    ASSUME FundsInv, NEW d \in Debits, InsertKey(d), UNCHANGED accountVars
    PROVE  FundsInv'
<1>1. UNCHANGED <<deposits, reviews, keys, ledger>> /\ debits[d].pc = "checked" /\ KeyIsFree(d)
    BY DEF InsertKey
<1>2. CASE KeyOf(d) \in keys
    <2>1. Answer(d, "duplicate")
        BY <1>2 DEF InsertKey
    <2>2. KeysInv'
        BY <1>1, <2>1, Answered, NoKey DEF Committed
    <2> QED
        BY <1>1, <2>1, <2>2, Answered, NoCredit, OneDebit
<1>3. CASE KeyOf(d) \notin keys
    <2>1. Answer(d, "keyed")
        BY <1>3 DEF InsertKey
    <2>2. /\ \A e \in Debits : KeyOf(e)' = KeyOf(e) /\ (Committed(e)' <=> Committed(e))
          /\ debits'[d].pc = "keyed" /\ \A e \in Debits : e # d => debits'[e] = debits[e]
        BY <1>1, <2>1, Answered DEF Committed
    <2>3. {KeyOf(e) : e \in {x \in Debits : Committed(x)}}' = {KeyOf(e) : e \in {x \in Debits : Committed(x)}}
        BY <2>2
    <2>4. OneEffectPerKey'
        BY <1>1, <2>2, <2>3 DEF FundsInv, KeysInv, OneEffectPerKey
    <2>5. \A e \in Debits : debits[e].pc = "keyed" => KeyOf(e) # KeyOf(d)
        BY <1>1 DEF KeyIsFree
    <2>6. KeysInv'
        BY <1>1, <1>3, <2>2, <2>4, <2>5 DEF FundsInv, KeysInv
    <2> QED
        BY <1>1, <2>1, <2>6, Answered, NoCredit, OneDebit
<1> QED
    BY <1>2, <1>3

\* The commit spends the key that the call holds.
LEMMA CommitDebitInv ==
    ASSUME FundsInv, NEW d \in Debits, CommitDebit(d), UNCHANGED accountVars
    PROVE  FundsInv'
<1>1. /\ UNCHANGED <<deposits, reviews>> /\ debits[d].pc = "keyed" /\ Answer(d, "done")
      /\ keys' = keys \cup {KeyOf(d)}
    BY DEF CommitDebit
<1>2. CreditsInv'
    <2>1. ledger' = Added(ledger, Entry(DebitType(debits[d].scope), d, -debits[d].amount))
        BY DEF CommitDebit, InsertEntry, Added
    <2>2. Entry(DebitType(debits[d].scope), d, -debits[d].amount).type # "DEPOSIT"
        BY DEF Entry, DebitType
    <2> QED
        BY <1>1, <2>1, <2>2, NoDepositEntry
<1>3. /\ \A e \in Debits : KeyOf(e)' = KeyOf(e)
      /\ \A e \in Debits : e # d => debits'[e] = debits[e] /\ (Committed(e)' <=> Committed(e))
      /\ debits'[d].pc = "done" /\ Committed(d)' /\ ~Committed(d)
    BY <1>1, Answered DEF Committed
<1>4. /\ KeyOf(d) \notin keys
      /\ \A e \in Debits : debits[e].pc = "keyed" /\ KeyOf(e) = KeyOf(d) => e = d
      /\ \A e \in Debits : Committed(e) => KeyOf(e) # KeyOf(d)
    BY <1>1 DEF FundsInv, KeysInv, OneEffectPerKey
<1>5. OneEffectPerKey'
    <2>1. {KeyOf(e) : e \in {x \in Debits : Committed(x)}}'
              = {KeyOf(e) : e \in {x \in Debits : Committed(x)}} \cup {KeyOf(d)}
        BY <1>3
    <2> QED
        BY <1>1, <1>3, <1>4, <2>1 DEF FundsInv, KeysInv, OneEffectPerKey
<1>6. KeysInv'
    <2>1. ASSUME NEW e \in Debits, debits'[e].pc = "keyed"
          PROVE  e # d /\ debits[e].pc = "keyed" /\ KeyOf(e)' \notin keys'
        BY <1>1, <1>3, <1>4, <2>1 DEF FundsInv, KeysInv
    <2> QED
        BY <1>3, <1>5, <2>1 DEF FundsInv, KeysInv
<1> QED
    BY <1>1, <1>2, <1>6, Answered, OneDebit

\* A rollback gives the key back.
LEMMA AbortDebitInv ==
    ASSUME FundsInv, NEW d \in Debits, AbortDebit(d), UNCHANGED accountVars
    PROVE  FundsInv'
<1>1. UNCHANGED <<deposits, reviews, keys, ledger>> /\ ~Committed(d) /\ Answer(d, "failed")
    BY DEF AbortDebit, Committed
<1>2. KeysInv'
    BY <1>1, Answered, NoKey DEF Committed
<1> QED
    BY <1>1, <1>2, Answered, NoCredit, OneDebit

\* The cancel leaves the key spent.
LEMMA CancelOrderInv ==
    ASSUME FundsInv, NEW d \in Debits, CancelOrder(d), UNCHANGED accountVars
    PROVE  FundsInv'
<1>1. /\ UNCHANGED <<deposits, reviews, keys>> /\ debits[d].pc = "done" /\ Answer(d, "cancelled")
      /\ ledger' = Added(ledger, Entry("RELEASE", d, debits[d].amount))
    BY DEF CancelOrder, InsertEntry, Added
<1>2. CreditsInv'
    BY <1>1, NoDepositEntry DEF Entry
<1>3. /\ \A e \in Debits : KeyOf(e)' = KeyOf(e) /\ (Committed(e)' <=> Committed(e))
      /\ debits'[d].pc = "cancelled" /\ \A e \in Debits : e # d => debits'[e] = debits[e]
    BY <1>1, Answered DEF Committed
<1>4. {KeyOf(e) : e \in {x \in Debits : Committed(x)}}' = {KeyOf(e) : e \in {x \in Debits : Committed(x)}}
    BY <1>3
<1>5. OneEffectPerKey'
    BY <1>1, <1>3, <1>4 DEF FundsInv, KeysInv, OneEffectPerKey
<1>6. KeysInv'
    BY <1>1, <1>3, <1>5 DEF FundsInv, KeysInv
<1> QED
    BY <1>1, <1>2, <1>6, Answered, OneDebit

-----------------------------------------------------------------------------
\* A step of the account leaves the money alone.
LEMMA AccountsKeepFunds ==
    ASSUME FundsInv, AccountStep, UNCHANGED fundVars
    PROVE  FundsInv'
<1>1. AccountInv' /\ (account => account') /\ (address # None => address' # None)
    BY AccountStepInv DEF FundsInv
<1>2. FundTypeOK' /\ ReviewsInv' /\ CreditsInv'
    BY DEF fundVars, FundsInv, FundTypeOK, ReviewsInv, CreditsInv
<1>3. KeysInv'
    BY DEF fundVars, FundsInv, KeysInv, OneEffectPerKey, Committed, KeyOf
<1>4. DepositsCanBeCredited'
    BY <1>1 DEF fundVars, FundsInv, DepositsCanBeCredited
<1> QED
    BY <1>1, <1>2, <1>3, <1>4 DEF FundsInv

\* The invariant of the user's account and money.
THEOREM FundsInvariantHolds == Spec => []FundsInv
<1>1. FundsInv /\ [Next]_vars => FundsInv'
    <2> SUFFICES ASSUME FundsInv, [Next]_vars PROVE FundsInv'
        OBVIOUS
    <2>1. CASE UNCHANGED vars
        <3>1. UNCHANGED accountVars /\ UNCHANGED fundVars
            BY <2>1 DEF vars
        <3>2. AccountInv' /\ FundTypeOK' /\ ReviewsInv' /\ CreditsInv' /\ DepositsCanBeCredited'
            BY <3>1 DEF accountVars, fundVars, FundsInv, AccountInv, AccountTypeOK, AddressInv,
                        OneAddress, FundTypeOK, ReviewsInv, CreditsInv, DepositsCanBeCredited
        <3>3. KeysInv'
            BY <3>1 DEF fundVars, FundsInv, KeysInv, OneEffectPerKey, Committed, KeyOf
        <3> QED
            BY <3>2, <3>3 DEF FundsInv
    <2>2. CASE DepositStep /\ UNCHANGED accountVars
        BY <2>2, IntakeInv, SimulateInv, LockDepositInv, ConfirmInv, RejectInv, AbortReviewInv
        DEF DepositStep
    <2>3. CASE DebitStep /\ UNCHANGED accountVars
        BY <2>3, CheckBalanceInv, InsertKeyInv, CommitDebitInv, AbortDebitInv, CancelOrderInv
        DEF DebitStep
    <2> QED
        BY <2>1, <2>2, <2>3, AccountsKeepFunds DEF Next
<1> QED
    BY FundsInitInv, <1>1, PTL DEF Spec

\* Every call that is answered is answered with the address of the row.
THEOREM OneAddressHolds == Spec => []OneAddress
<1>1. FundsInv => OneAddress
    BY DEF FundsInv, AccountInv, AddressInv
<1> QED
    BY <1>1, FundsInvariantHolds, PTL

\* What has been taken in can be credited.
THEOREM DepositsAreCreditable == Spec => []DepositsCanBeCredited
<1>1. FundsInv => DepositsCanBeCredited
    BY DEF FundsInv
<1> QED
    BY <1>1, FundsInvariantHolds, PTL

\* A key takes effect once, and only a call that took effect spends it.
THEOREM KeysTakeEffectOnce == Spec => []OneEffectPerKey
<1>1. FundsInv => OneEffectPerKey
    BY DEF FundsInv, KeysInv
<1> QED
    BY <1>1, FundsInvariantHolds, PTL

\* A deposit is credited once if it is confirmed and never otherwise.
THEOREM CreditedOnce == Spec => []DepositCreditedOnce
<1>1. FundsInv => DepositCreditedOnce
    <2> SUFFICES ASSUME CreditsInv, NEW h \in Hashes,
                        NEW credits, credits = {e \in DOMAIN ledger : e.type = "DEPOSIT" /\ e.ref = h}
                 PROVE  IF deposits[h].status = "CONFIRMED"
                        THEN credits = {Entry("DEPOSIT", h, deposits[h].amount)}
                             /\ \A e \in credits : ledger[e] = 1
                        ELSE credits = {}
        BY DEF FundsInv, DepositCreditedOnce, BagToSet
    <2>1. ASSUME NEW e \in credits
          PROVE  /\ deposits[h].status = "CONFIRMED" /\ ledger[e] = 1
                 /\ e = Entry("DEPOSIT", h, deposits[h].amount)
        BY DEF CreditsInv
    <2>2. ASSUME deposits[h].status = "CONFIRMED"
          PROVE  Entry("DEPOSIT", h, deposits[h].amount) \in credits
        BY <2>2 DEF CreditsInv, Entry
    <2> QED
        BY <2>1, <2>2
<1> QED
    BY <1>1, FundsInvariantHolds, PTL

-----------------------------------------------------------------------------
(* Sums over finite sets.  The library's induction theorems take a          *)
(* predicate, which the provers cannot instantiate; a minimal element of a  *)
(* set of counterexamples (WFMin) does the same.                            *)

\* The sum of f over S, as the model computes sums.
SumOver(f, S) == MapThenSumSet(LAMBDA x : f[x], S)

\* The element that the fold takes from a set.
Some(s) == CHOOSE x \in s : TRUE

\* The function that the fold is defined by.
IsSum(g, f, S) == g = [s \in SUBSET S |-> IF s = {} THEN 0 ELSE f[Some(s)] + g[s \ {Some(s)}]]

SumOf(f, S) == CHOOSE g : IsSum(g, f, S)

\* Induction over the naturals, for a set of them.
LEMMA InductionOverNat ==
    ASSUME NEW T, 0 \in T, \A n \in Nat : n \in T => n + 1 \in T
    PROVE  Nat \subseteq T
<1> DEFINE Less == OpToRel(<, Nat)
           Rest == Nat \ T
<1>1. IsWellFoundedOn(Less, Nat)
    BY NatLessThanWellFounded
<1>2. \A i, j \in Nat : i < j => <<i, j>> \in Less
    BY DEF OpToRel
<1>3. SUFFICES ASSUME Rest # {} PROVE FALSE
    OBVIOUS
<1>4. PICK n \in Rest : \A m \in Rest : <<m, n>> \notin Less
    <2>1. Rest \subseteq Nat
        OBVIOUS
    <2> HIDE DEF Less, Rest
    <2> QED
        BY <1>1, <1>3, <2>1, WFMin
<1>5. n \in Nat /\ n # 0 /\ n - 1 \in Nat /\ n - 1 < n
    OBVIOUS
<1>6. n - 1 \in T
    <2> HIDE DEF Less
    <2> QED
        BY <1>2, <1>4, <1>5
<1> QED
    BY <1>5, <1>6

\* Induction over the subsets of a finite set.
LEMMA InductionOverSubsets ==
    ASSUME NEW S, IsFiniteSet(S), NEW P,
           \A s \in SUBSET S : (\A t \in SUBSET s : t # s => t \in P) => s \in P
    PROVE  SUBSET S \subseteq P
<1> DEFINE Rest == (SUBSET S) \ P
<1>1. IsWellFoundedOn(StrictSubsetOrdering(S), FiniteSubsetsOf(S))
    BY FS_StrictSubsetOrderingWellFounded
<1>2. SUBSET S = FiniteSubsetsOf(S)
    BY FS_FiniteSubsetsOfFinite
<1>3. SUFFICES ASSUME Rest # {} PROVE FALSE
    OBVIOUS
<1>4. PICK s \in Rest : \A t \in Rest : <<t, s>> \notin StrictSubsetOrdering(S)
    <2>1. Rest \subseteq FiniteSubsetsOf(S)
        BY <1>2
    <2> HIDE DEF Rest
    <2> QED
        BY <1>1, <1>3, <2>1, WFMin
<1>5. ASSUME NEW t \in SUBSET s, t # s
      PROVE  t \in P
    <2>1. <<t, s>> \in StrictSubsetOrdering(S)
        BY <1>5 DEF StrictSubsetOrdering
    <2> QED
        BY <1>4, <2>1
<1> QED
    BY <1>5

\* The fold is the value of that function.
LEMMA SumUnfolded ==
    ASSUME NEW f, NEW S
    PROVE  SumOver(f, S) = SumOf(f, S)[S]
BY DEF SumOver, MapThenSumSet, MapThenFoldSet, SumOf, IsSum, Some

\* There is such a function.
LEMMA SumExists ==
    ASSUME NEW f, NEW S, IsFiniteSet(S)
    PROVE  \E g : IsSum(g, f, S)
<1> DEFINE Small(n) == {s \in SUBSET S : Cardinality(s) <= n}
           Value(g, s) == IF s = {} THEN 0 ELSE f[Some(s)] + g[s \ {Some(s)}]
           Good == {n \in Nat : \E g : g = [s \in Small(n) |-> Value(g, s)]}
<1>1. \A s \in SUBSET S : IsFiniteSet(s) /\ Cardinality(s) \in Nat
    BY FS_Subset, FS_CardinalityType
<1>2. 0 \in Good
    <2>1. \A s \in Small(0) : s = {}
        BY <1>1, FS_EmptySet
    <2> DEFINE g0 == [s \in Small(0) |-> 0]
    <2>2. g0 = [s \in Small(0) |-> Value(g0, s)]
        BY <2>1
    <2> QED
        BY <2>2
<1>3. ASSUME NEW n \in Nat, n \in Good
      PROVE  n + 1 \in Good
    <2>1. PICK g : g = [s \in Small(n) |-> Value(g, s)]
        BY <1>3
    <2> DEFINE h == [s \in Small(n + 1) |-> Value(g, s)]
    <2>2. ASSUME NEW s \in Small(n + 1), s # {}
          PROVE  s \ {Some(s)} \in Small(n) /\ h[s \ {Some(s)}] = g[s \ {Some(s)}]
        <3>1. Some(s) \in s
            BY <2>2 DEF Some
        <3>2. s \ {Some(s)} \in Small(n)
            BY <1>1, <3>1, FS_RemoveElement
        <3>3. s \ {Some(s)} \in Small(n + 1)
            BY <1>1, <3>2
        <3> QED
            BY <2>1, <3>2, <3>3
    <2>3. \A s \in Small(n + 1) : Value(g, s) = Value(h, s)
        BY <2>2
    <2>4. h = [s \in Small(n + 1) |-> Value(h, s)]
        BY <2>3
    <2>5. n + 1 \in Nat
        OBVIOUS
    <2> HIDE DEF h, Small
    <2> QED
        BY <2>4, <2>5
<1>4. Cardinality(S) \in Good
    <2> HIDE DEF Good
    <2> QED
        BY <1>1, <1>2, <1>3, InductionOverNat
<1>5. Small(Cardinality(S)) = SUBSET S
    <2>1. \A s \in SUBSET S : Cardinality(s) <= Cardinality(S)
        BY FS_Subset
    <2> QED
        BY <2>1
<1> QED
    BY <1>4, <1>5 DEF IsSum

\* What the function is at every subset.
LEMMA SumAtSubset ==
    ASSUME NEW f, NEW S, IsFiniteSet(S)
    PROVE  \A s \in SUBSET S :
               SumOf(f, S)[s] = IF s = {} THEN 0 ELSE f[Some(s)] + SumOf(f, S)[s \ {Some(s)}]
<1> DEFINE g == SumOf(f, S)
<1>1. IsSum(g, f, S)
    BY SumExists DEF SumOf
<1> HIDE DEF g
<1>2. \A s \in SUBSET S : g[s] = IF s = {} THEN 0 ELSE f[Some(s)] + g[s \ {Some(s)}]
    BY <1>1 DEF IsSum
<1> QED
    BY <1>2 DEF g

\* The sum over a subset is the value of the function of the whole set there.
LEMMA SumOfSubset ==
    ASSUME NEW f, NEW S, IsFiniteSet(S), NEW T \in SUBSET S
    PROVE  SumOver(f, T) = SumOf(f, S)[T]
<1> DEFINE k == SumOf(f, T)
           g == SumOf(f, S)
           Same == {s \in SUBSET T : k[s] = g[s]}
<1>0. IsFiniteSet(T)
    BY FS_Subset
<1>1. SumOver(f, T) = k[T]
    BY SumUnfolded
<1>2. /\ \A s \in SUBSET T : k[s] = IF s = {} THEN 0 ELSE f[Some(s)] + k[s \ {Some(s)}]
      /\ \A s \in SUBSET S : g[s] = IF s = {} THEN 0 ELSE f[Some(s)] + g[s \ {Some(s)}]
    BY <1>0, SumAtSubset
<1> HIDE DEF k, g
<1>3. ASSUME NEW s \in SUBSET T, \A t \in SUBSET s : t # s => t \in Same
      PROVE  s \in Same
    <2>1. CASE s = {}
        BY <1>2, <2>1
    <2>2. CASE s # {}
        <3>1. Some(s) \in s
            BY <2>2 DEF Some
        <3>2. s \ {Some(s)} \in Same
            BY <1>3, <3>1
        <3> QED
            BY <1>2, <2>2, <3>2
    <2> QED
        BY <2>1, <2>2
<1>4. SUBSET T \subseteq Same
    <2> HIDE DEF Same
    <2> QED
        BY <1>0, <1>3, InductionOverSubsets
<1> QED
    BY <1>1, <1>4 DEF g

\* The sum takes some element first.
LEMMA SumRecursion ==
    ASSUME NEW f, NEW S, IsFiniteSet(S)
    PROVE  SumOver(f, S) = IF S = {} THEN 0 ELSE f[Some(S)] + SumOver(f, S \ {Some(S)})
<1> DEFINE g == SumOf(f, S)
<1>1. g[S] = IF S = {} THEN 0 ELSE f[Some(S)] + g[S \ {Some(S)}]
    BY SumAtSubset
<1>2. SumOver(f, S) = g[S] /\ SumOver(f, S \ {Some(S)}) = g[S \ {Some(S)}]
    BY SumOfSubset
<1> QED
    BY <1>1, <1>2

\* The sum of integers is an integer.
LEMMA SumIsInt ==
    ASSUME NEW f, NEW S, IsFiniteSet(S), \A x \in S : f[x] \in Int
    PROVE  SumOver(f, S) \in Int
<1> DEFINE Good == {s \in SUBSET S : SumOver(f, s) \in Int}
<1>1. ASSUME NEW s \in SUBSET S, \A t \in SUBSET s : t # s => t \in Good
      PROVE  s \in Good
    <2>1. IsFiniteSet(s)
        BY FS_Subset
    <2>2. CASE s = {}
        BY <2>1, <2>2, SumRecursion
    <2>3. CASE s # {}
        <3>1. Some(s) \in s
            BY <2>3 DEF Some
        <3>2. SumOver(f, s \ {Some(s)}) \in Int
            BY <1>1, <3>1
        <3> QED
            BY <2>1, <2>3, <3>1, <3>2, SumRecursion
    <2> QED
        BY <2>2, <2>3
<1>2. SUBSET S \subseteq Good
    <2> HIDE DEF Good
    <2> QED
        BY <1>1, InductionOverSubsets
<1> QED
    BY <1>2

\* Any element may be taken first.
LEMMA SumTakes ==
    ASSUME NEW f, NEW S, IsFiniteSet(S), \A x \in S : f[x] \in Int, NEW y \in S
    PROVE  SumOver(f, S) = f[y] + SumOver(f, S \ {y})
<1> DEFINE Good == {s \in SUBSET S : \A x \in s : SumOver(f, s) = f[x] + SumOver(f, s \ {x})}
<1>1. ASSUME NEW s \in SUBSET S, \A t \in SUBSET s : t # s => t \in Good
      PROVE  s \in Good
    <2> SUFFICES ASSUME NEW x \in s
                 PROVE  SumOver(f, s) = f[x] + SumOver(f, s \ {x})
        OBVIOUS
    <2> DEFINE c == Some(s)
    <2>1. IsFiniteSet(s) /\ c \in s
        BY FS_Subset DEF Some
    <2>2. SumOver(f, s) = f[c] + SumOver(f, s \ {c})
        BY <2>1, SumRecursion
    <2>3. CASE x = c
        BY <2>2, <2>3
    <2>4. CASE x # c
        <3> HIDE DEF c
        <3>1. s \ {c} \in Good /\ s \ {x} \in Good
            BY <1>1, <2>1
        <3>2. SumOver(f, s \ {c}) = f[x] + SumOver(f, (s \ {c}) \ {x})
            BY <2>4, <3>1
        <3>3. SumOver(f, s \ {x}) = f[c] + SumOver(f, (s \ {x}) \ {c})
            BY <2>1, <2>4, <3>1
        <3> DEFINE rest == SumOver(f, (s \ {x}) \ {c})
        <3>4. (s \ {c}) \ {x} = (s \ {x}) \ {c}
            OBVIOUS
        <3>5. rest \in Int /\ f[x] \in Int /\ f[c] \in Int
            BY <2>1, FS_Subset, SumIsInt
        <3>6. SumOver(f, s) = f[c] + (f[x] + rest) /\ SumOver(f, s \ {x}) = f[c] + rest
            BY <2>2, <3>2, <3>3, <3>4
        <3> HIDE DEF rest
        <3> QED
            BY <3>5, <3>6
    <2> QED
        BY <2>3, <2>4
<1>2. SUBSET S \subseteq Good
    <2> HIDE DEF Good
    <2> QED
        BY <1>1, InductionOverSubsets
<1> QED
    BY <1>2

\* Only the values over the set matter.
LEMMA SumSame ==
    ASSUME NEW f, NEW g, NEW S, \A x \in S : f[x] = g[x], IsFiniteSet(S)
    PROVE  SumOver(f, S) = SumOver(g, S)
<1>1. \A s \in SUBSET S : s # {} => Some(s) \in S
    BY DEF Some
<1>2. \A h : IsSum(h, f, S) <=> IsSum(h, g, S)
    BY <1>1 DEF IsSum
<1> QED
    BY <1>2, SumUnfolded DEF SumOf

-----------------------------------------------------------------------------
(* The balance *)

\* The amount of every row of a table, and of the copies of every ledger entry.
AmountOf(table) == [x \in DOMAIN table |-> table[x].amount]
Weight(B) == [e \in DOMAIN B |-> e.amount * B[e]]

Confirmed(deps) == {h \in Hashes : deps[h].status = "CONFIRMED"}
Done(debs) == {d \in Debits : debs[d].pc = "done"}

\* The function that the fold over the rows of a table is defined by.
IsRowSum(g, t, S) ==
    g = [s \in SUBSET S |-> IF s = {} THEN 0 ELSE t[Some(s)].amount + g[s \ {Some(s)}]]

\* The sum of the amounts of some rows of a table.
LEMMA RowsUnfolded ==
    ASSUME NEW t, NEW S, S \subseteq DOMAIN t
    PROVE  MapThenSumSet(LAMBDA x : t[x].amount, S) = SumOver(AmountOf(t), S)
<1> DEFINE a == CHOOSE g : IsRowSum(g, t, S)
<1>1. MapThenSumSet(LAMBDA x : t[x].amount, S) = a[S]
    BY DEF MapThenSumSet, MapThenFoldSet, IsRowSum, Some
<1>2. \A s \in SUBSET S : s # {} => AmountOf(t)[Some(s)] = t[Some(s)].amount
    BY DEF Some, AmountOf
<1>3. \A g : IsRowSum(g, t, S) <=> IsSum(g, AmountOf(t), S)
    BY <1>2 DEF IsRowSum, IsSum
<1> QED
    BY <1>1, <1>3, SumUnfolded DEF SumOf

\* The sum of the copies of the entries of a bag.
LEMMA EntriesUnfolded ==
    ASSUME NEW B
    PROVE  MapThenSumSet(LAMBDA e : e.amount * B[e], DOMAIN B) = SumOver(Weight(B), DOMAIN B)
<1>1. ASSUME NEW s, s # {}
      PROVE  Some(s) \in s
    BY <1>1 DEF Some
<1> QED
    BY DEF SumOver, MapThenSumSet, MapThenFoldSet, Weight

\* The arithmetic of the first case below.
LEMMA Regroup == \A w, r, a \in Int : (w + a) + r = (w + r) + a
OBVIOUS

\* And of the other one.
LEMMA Swap == \A r, a \in Int : a + r = r + a
OBVIOUS

\* An entry moves the balance by its amount.
LEMMA EntryMovesBalance ==
    ASSUME NEW B, IsABag(B), IsFiniteSet(DOMAIN B), \A e \in DOMAIN B : e.amount \in Int,
           NEW x, x.amount \in Int, NEW C, C = Added(B, x)
    PROVE  SumOver(Weight(C), DOMAIN C) = SumOver(Weight(B), DOMAIN B) + x.amount
<1>1. /\ IsABag(C) /\ DOMAIN C = DOMAIN B \cup {x}
      /\ \A e \in DOMAIN B : e # x => C[e] = B[e]
      /\ C[x] = IF x \in DOMAIN B THEN B[x] + 1 ELSE 1
    BY AddedFacts
<1>2. IsFiniteSet(DOMAIN C) /\ IsFiniteSet(DOMAIN B \ {x})
    BY <1>1, FS_AddElement, FS_RemoveElement
<1>3. /\ \A e \in DOMAIN B : B[e] \in Nat /\ e.amount * B[e] \in Int
      /\ \A e \in DOMAIN C : C[e] \in Nat /\ e.amount * C[e] \in Int
    BY <1>1 DEF IsABag
<1>4. /\ \A e \in DOMAIN B : Weight(B)[e] \in Int
      /\ \A e \in DOMAIN C : Weight(C)[e] \in Int
    BY <1>3 DEF Weight
<1>5. SumOver(Weight(C), DOMAIN C) = Weight(C)[x] + SumOver(Weight(C), DOMAIN C \ {x})
    BY <1>1, <1>2, <1>4, SumTakes
<1>6. DOMAIN C \ {x} = DOMAIN B \ {x}
    BY <1>1
<1>7. SumOver(Weight(C), DOMAIN B \ {x}) = SumOver(Weight(B), DOMAIN B \ {x})
    <2>1. \A e \in DOMAIN B \ {x} : Weight(C)[e] = Weight(B)[e]
        BY <1>1 DEF Weight
    <2> QED
        BY <1>2, <2>1, SumSame
<1>8. SumOver(Weight(B), DOMAIN B \ {x}) \in Int
    BY <1>2, <1>4, SumIsInt
<1>9. CASE x \in DOMAIN B
    <2>1. SumOver(Weight(B), DOMAIN B) = Weight(B)[x] + SumOver(Weight(B), DOMAIN B \ {x})
        BY <1>4, <1>9, SumTakes
    <2>2. Weight(C)[x] = Weight(B)[x] + x.amount
        <3>1. Weight(C)[x] = x.amount * (B[x] + 1) /\ Weight(B)[x] = x.amount * B[x]
            BY <1>1, <1>9 DEF Weight
        <3>2. ASSUME NEW a \in Int, NEW n \in Nat
              PROVE  a * (n + 1) = a * n + a
            OBVIOUS
        <3> QED
            BY <1>3, <1>9, <3>1, <3>2
    <2> QED
        BY <1>4, <1>5, <1>6, <1>7, <1>8, <1>9, <2>1, <2>2, Regroup
<1>10. CASE x \notin DOMAIN B
    <2>1. DOMAIN B \ {x} = DOMAIN B
        BY <1>10
    <2>2. Weight(C)[x] = x.amount
        BY <1>1, <1>10 DEF Weight
    <2> QED
        <3>1. SumOver(Weight(B), DOMAIN B) \in Int
            BY <1>8, <2>1
        <3>2. SumOver(Weight(C), DOMAIN C) = x.amount + SumOver(Weight(B), DOMAIN B)
            BY <1>5, <1>6, <1>7, <2>1, <2>2
        <3> QED
            BY <3>1, <3>2, Swap
<1> QED
    BY <1>9, <1>10

\* The sum does not depend on rows outside the set.
LEMMA RowsSame ==
    ASSUME NEW t, NEW u, NEW S, IsFiniteSet(S), S \subseteq DOMAIN t, S \subseteq DOMAIN u,
           \A y \in S : u[y].amount = t[y].amount
    PROVE  SumOver(AmountOf(u), S) = SumOver(AmountOf(t), S)
<1>1. \A y \in S : AmountOf(u)[y] = AmountOf(t)[y]
    BY DEF AmountOf
<1> QED
    BY <1>1, SumSame

\* In the table t the rows of S count, in u the row x counts as well.
Joins(t, u, S, x) ==
    /\ x \notin S /\ S \subseteq DOMAIN t /\ S \cup {x} \subseteq DOMAIN u
    /\ \A y \in S : u[y].amount = t[y].amount
    /\ \A y \in S \cup {x} : u[y].amount \in Int

\* The sum of u is the sum of t and the amount of x.
Adds(t, u, S, x) ==
    /\ IsFiniteSet(S \cup {x})
    /\ SumOver(AmountOf(t), S) \in Int
    /\ SumOver(AmountOf(u), S \cup {x}) = u[x].amount + SumOver(AmountOf(t), S)

\* A row that joins the set adds its amount.
LEMMA RowJoins ==
    ASSUME NEW t, NEW u, NEW S, IsFiniteSet(S), NEW x, Joins(t, u, S, x)
    PROVE  Adds(t, u, S, x)
<1>1. IsFiniteSet(S \cup {x}) /\ (S \cup {x}) \ {x} = S
    BY FS_AddElement DEF Joins
<1>2. /\ \A y \in S \cup {x} : AmountOf(u)[y] = u[y].amount /\ AmountOf(u)[y] \in Int
      /\ \A y \in S : AmountOf(t)[y] \in Int
    BY DEF AmountOf, Joins
<1>3. SumOver(AmountOf(u), S \cup {x}) = AmountOf(u)[x] + SumOver(AmountOf(u), (S \cup {x}) \ {x})
    BY <1>1, <1>2, SumTakes
<1>4. SumOver(AmountOf(u), S) = SumOver(AmountOf(t), S)
    BY RowsSame DEF Joins
<1>5. SumOver(AmountOf(t), S) \in Int
    BY <1>2, SumIsInt
<1> QED
    BY <1>1, <1>2, <1>3, <1>4, <1>5 DEF Adds

Balance(B) == SumOver(Weight(B), DOMAIN B)
Credited(deps) == SumOver(AmountOf(deps), Confirmed(deps))
Debited(debs) == SumOver(AmountOf(debs), Done(debs))

\* There are finitely many entries and rows at any time, though the constants may be infinite sets.
BalanceInv ==
    /\ IsFiniteSet(DOMAIN ledger) /\ \A e \in DOMAIN ledger : e.amount \in Int
    /\ IsFiniteSet(Confirmed(deposits)) /\ IsFiniteSet(Done(debits))
    /\ Balance(ledger) = Credited(deposits) - Debited(debits)

\* The sums of the model are sums of these functions.
LEMMA BalanceUnfolded ==
    ASSUME FundTypeOK
    PROVE  BalanceMatchesRows <=> Balance(ledger) = Credited(deposits) - Debited(debits)
<1>1. SumByUserAsset = Balance(ledger)
    BY EntriesUnfolded DEF SumByUserAsset, BagToSet, Balance
<1>2. MapThenSumSet(LAMBDA h : deposits[h].amount, {h \in Hashes : deposits[h].status = "CONFIRMED"})
          = Credited(deposits)
    <2>1. Confirmed(deposits) \subseteq DOMAIN deposits
        BY DEF FundTypeOK, Confirmed
    <2>2. MapThenSumSet(LAMBDA h : deposits[h].amount, Confirmed(deposits))
              = SumOver(AmountOf(deposits), Confirmed(deposits))
        BY <2>1, RowsUnfolded
    <2> QED
        BY <2>2 DEF Credited, Confirmed
<1>3. MapThenSumSet(LAMBDA d : debits[d].amount, {d \in Debits : debits[d].pc = "done"})
          = Debited(debits)
    <2>1. Done(debits) \subseteq DOMAIN debits
        BY DEF FundTypeOK, Done
    <2>2. MapThenSumSet(LAMBDA d : debits[d].amount, Done(debits))
              = SumOver(AmountOf(debits), Done(debits))
        BY <2>1, RowsUnfolded
    <2> QED
        BY <2>2 DEF Debited, Done
<1> QED
    BY <1>1, <1>2, <1>3 DEF BalanceMatchesRows

\* Both are zero at the start.
LEMMA BalanceInitInv == Init => BalanceInv
<1> SUFFICES ASSUME Init PROVE BalanceInv
    OBVIOUS
<1>1. DOMAIN ledger = {} /\ Confirmed(deposits) = {} /\ Done(debits) = {}
    BY DEF Init, EmptyBag, SetToBag, Confirmed, Done, IdleDebit
<1>2. \A f : SumOver(f, {}) = 0
    BY SumRecursion, FS_EmptySet
<1> QED
    BY <1>1, <1>2, FS_EmptySet DEF BalanceInv, Balance, Credited, Debited

\* The deposits whose status and amount a step leaves alone, or does not confirm.
LEMMA SameCredits ==
    ASSUME FundTypeOK, BalanceInv, deposits' \in [Hashes -> DepositState],
           \A h \in Hashes : deposits'[h] = deposits[h]
                            \/ (deposits[h].status # "CONFIRMED" /\ deposits'[h].status # "CONFIRMED")
    PROVE  Confirmed(deposits') = Confirmed(deposits) /\ Credited(deposits') = Credited(deposits)
<1>1. Confirmed(deposits') = Confirmed(deposits)
    BY DEF Confirmed
<1>2. /\ \A h \in Confirmed(deposits) : deposits'[h].amount = deposits[h].amount
      /\ Confirmed(deposits) \subseteq DOMAIN deposits /\ Confirmed(deposits) \subseteq DOMAIN deposits'
    BY DEF Confirmed, FundTypeOK
<1> QED
    BY <1>1, <1>2, RowsSame DEF Credited, BalanceInv

\* The calls that a step leaves alone, or that stand neither before nor after it.
LEMMA SameDebits ==
    ASSUME FundTypeOK, BalanceInv, debits' \in [Debits -> DebitState],
           \A d \in Debits : debits'[d] = debits[d] \/ (debits[d].pc # "done" /\ debits'[d].pc # "done")
    PROVE  Done(debits') = Done(debits) /\ Debited(debits') = Debited(debits)
<1>1. Done(debits') = Done(debits)
    BY DEF Done
<1>2. /\ \A d \in Done(debits) : debits'[d].amount = debits[d].amount
      /\ Done(debits) \subseteq DOMAIN debits /\ Done(debits) \subseteq DOMAIN debits'
    BY DEF Done, FundTypeOK
<1> QED
    BY <1>1, <1>2, RowsSame DEF Debited, BalanceInv

\* A step that enters nothing in the ledger and moves no row of the two sums.
LEMMA NoEntry ==
    ASSUME FundTypeOK, FundTypeOK', BalanceInv, UNCHANGED ledger,
           \A h \in Hashes : deposits'[h] = deposits[h]
                            \/ (deposits[h].status # "CONFIRMED" /\ deposits'[h].status # "CONFIRMED"),
           \A d \in Debits : debits'[d] = debits[d] \/ (debits[d].pc # "done" /\ debits'[d].pc # "done")
    PROVE  BalanceInv'
<1>1. deposits' \in [Hashes -> DepositState] /\ debits' \in [Debits -> DebitState]
    BY DEF FundTypeOK
<1>2. /\ Confirmed(deposits') = Confirmed(deposits) /\ Credited(deposits') = Credited(deposits)
      /\ Done(debits') = Done(debits) /\ Debited(debits') = Debited(debits)
    BY <1>1, SameCredits, SameDebits
<1> QED
    BY <1>2 DEF BalanceInv

\* The sums are integers.
LEMMA SumsAreInt ==
    ASSUME FundTypeOK, BalanceInv
    PROVE  Credited(deposits) \in Int /\ Debited(debits) \in Int
<1>1. \A h \in Confirmed(deposits) : AmountOf(deposits)[h] \in Int
    BY DEF FundTypeOK, DepositState, Confirmed, AmountOf
<1>2. \A d \in Done(debits) : AmountOf(debits)[d] \in Int
    BY DEF FundTypeOK, DebitState, Done, AmountOf
<1> QED
    BY <1>1, <1>2, SumIsInt DEF BalanceInv, Credited, Debited

\* The ledger of a step that enters one row.
LEMMA EntryInLedger ==
    ASSUME CreditsInv, BalanceInv, NEW e, e.amount \in Int, ledger' = Added(ledger, e)
    PROVE  /\ IsFiniteSet(DOMAIN ledger') /\ \A x \in DOMAIN ledger' : x.amount \in Int
           /\ Balance(ledger') = Balance(ledger) + e.amount
<1>1. IsABag(ledger) /\ IsFiniteSet(DOMAIN ledger) /\ \A x \in DOMAIN ledger : x.amount \in Int
    BY DEF CreditsInv, BalanceInv
<1>2. DOMAIN ledger' = DOMAIN ledger \cup {e}
    BY <1>1, AddedFacts
<1>3. Balance(ledger') = Balance(ledger) + e.amount
    BY <1>1, EntryMovesBalance DEF Balance
<1> QED
    BY <1>1, <1>2, <1>3, FS_AddElement

\* A confirmed deposit joins the sum of the deposits, and its entry the balance.
LEMMA ConfirmMovesBoth ==
    ASSUME FundsInv, FundsInv', BalanceInv, NEW v \in Reviews, Confirm(v)
    PROVE  BalanceInv'
<1>1. FundTypeOK /\ FundTypeOK' /\ CreditsInv
    BY DEF FundsInv
<1>2. PICK h \in Hashes : h = reviews[v].hash /\ deposits[h].status = "PENDING"
    BY DEF Confirm, FundsInv, ReviewsInv
<1>3. /\ deposits'[h].status = "CONFIRMED" /\ deposits'[h].amount = deposits[h].amount
      /\ deposits[h].amount \in Int
      /\ \A g \in Hashes : g # h => deposits'[g] = deposits[g]
    BY <1>1, <1>2 DEF Confirm, UpdateStatus, FundTypeOK, DepositState
<1> DEFINE S == Confirmed(deposits)
           n == deposits[h].amount
           credit == Entry("DEPOSIT", h, n)
<1>4. h \notin S /\ Confirmed(deposits') = S \cup {h}
    BY <1>2, <1>3 DEF Confirmed
<1>5. Joins(deposits, deposits', S, h)
    <2>1. DOMAIN deposits = Hashes /\ DOMAIN deposits' = Hashes /\ S \subseteq Hashes
        BY <1>1 DEF FundTypeOK, Confirmed
    <2>2. \A y \in Hashes : deposits'[y].amount \in Int
        BY <1>1 DEF FundTypeOK, DepositState
    <2> QED
        BY <1>3, <1>4, <2>1, <2>2 DEF Joins
<1>6. IsFiniteSet(Confirmed(deposits')) /\ Credited(deposits') = n + Credited(deposits)
    <2> HIDE DEF S
    <2>1. IsFiniteSet(S)
        BY DEF BalanceInv, S
    <2>2. Adds(deposits, deposits', S, h)
        BY <1>5, <2>1, RowJoins
    <2> QED
        BY <1>3, <1>4, <2>2 DEF Credited, Adds, S
<1>7. ledger' = Added(ledger, credit) /\ credit.amount = n /\ UNCHANGED debits
    BY <1>2 DEF Confirm, InsertEntry, Added, Entry
<1>8. /\ IsFiniteSet(DOMAIN ledger') /\ \A x \in DOMAIN ledger' : x.amount \in Int
      /\ Balance(ledger') = Balance(ledger) + n
    <2> HIDE DEF credit
    <2> QED
        BY <1>1, <1>3, <1>7, EntryInLedger
<1>9. Balance(ledger') = Credited(deposits') - Debited(debits')
    <2>1. Balance(ledger) = Credited(deposits) - Debited(debits) /\ Debited(debits') = Debited(debits)
        BY <1>7 DEF BalanceInv
    <2>2. Credited(deposits) \in Int /\ Debited(debits) \in Int
        BY <1>1, SumsAreInt
    <2> HIDE DEF n
    <2>3. n \in Int
        BY <1>3 DEF n
    <2> QED
        BY <1>6, <1>8, <2>1, <2>2, <2>3
<1> QED
    BY <1>6, <1>7, <1>8, <1>9 DEF BalanceInv

\* A commit joins the sum of the calls that stand.
LEMMA CommitMovesBoth ==
    ASSUME FundsInv, FundsInv', BalanceInv, NEW d \in Debits, CommitDebit(d)
    PROVE  BalanceInv'
<1>1. FundTypeOK /\ FundTypeOK' /\ CreditsInv
    BY DEF FundsInv
<1>2. /\ debits[d].pc = "keyed" /\ debits'[d].pc = "done" /\ debits'[d].amount = debits[d].amount
      /\ \A e \in Debits : e # d => debits'[e] = debits[e]
    BY Answered DEF CommitDebit
<1> DEFINE S == Done(debits)
           n == debits[d].amount
           debit == Entry(DebitType(debits[d].scope), d, -n)
<1>3. n \in Int
    BY <1>1 DEF FundTypeOK, DebitState
<1>4. d \notin S /\ Done(debits') = S \cup {d}
    BY <1>2 DEF Done
<1>5. Joins(debits, debits', S, d)
    <2>1. DOMAIN debits = Debits /\ DOMAIN debits' = Debits /\ S \subseteq Debits
        BY <1>1 DEF FundTypeOK, Done
    <2>2. \A y \in Debits : debits'[y].amount \in Int
        BY <1>1 DEF FundTypeOK, DebitState
    <2> QED
        BY <1>2, <1>4, <2>1, <2>2 DEF Joins
<1>6. IsFiniteSet(Done(debits')) /\ Debited(debits') = n + Debited(debits)
    <2> HIDE DEF S
    <2>1. IsFiniteSet(S)
        BY DEF BalanceInv, S
    <2>2. Adds(debits, debits', S, d)
        BY <1>5, <2>1, RowJoins
    <2> QED
        BY <1>2, <1>4, <2>2 DEF Debited, Adds, S
<1>7. ledger' = Added(ledger, debit) /\ debit.amount = -n /\ UNCHANGED deposits
    BY DEF CommitDebit, InsertEntry, Added, Entry
<1>8. /\ IsFiniteSet(DOMAIN ledger') /\ \A x \in DOMAIN ledger' : x.amount \in Int
      /\ Balance(ledger') = Balance(ledger) + debit.amount
    <2>1. debit.amount \in Int
        BY <1>3, <1>7
    <2> HIDE DEF debit
    <2> QED
        BY <1>1, <1>7, <2>1, EntryInLedger
<1>9. Balance(ledger') = Credited(deposits') - Debited(debits')
    <2>1. Balance(ledger) = Credited(deposits) - Debited(debits) /\ Credited(deposits') = Credited(deposits)
        BY <1>7 DEF BalanceInv
    <2>2. Credited(deposits) \in Int /\ Debited(debits) \in Int
        BY <1>1, SumsAreInt
    <2>3. Balance(ledger') = Balance(ledger) + (-n)
        BY <1>7, <1>8
    <2> HIDE DEF n
    <2> QED
        BY <1>3, <1>6, <2>1, <2>2, <2>3
<1> QED
    BY <1>6, <1>7, <1>8, <1>9 DEF BalanceInv

\* A cancelled order leaves it, and its release joins the balance.
LEMMA CancelMovesBoth ==
    ASSUME FundsInv, FundsInv', BalanceInv, NEW d \in Debits, CancelOrder(d)
    PROVE  BalanceInv'
<1>1. FundTypeOK /\ FundTypeOK' /\ CreditsInv
    BY DEF FundsInv
<1>2. /\ debits[d].pc = "done" /\ debits'[d].pc = "cancelled" /\ debits'[d].amount = debits[d].amount
      /\ \A e \in Debits : e # d => debits'[e] = debits[e]
    BY Answered DEF CancelOrder
<1> DEFINE S == Done(debits')
           n == debits[d].amount
           release == Entry("RELEASE", d, n)
<1>3. n \in Int
    BY <1>1 DEF FundTypeOK, DebitState
<1>4. d \notin S /\ Done(debits) = S \cup {d}
    BY <1>2 DEF Done
<1>5. Joins(debits', debits, S, d)
    <2>1. DOMAIN debits = Debits /\ DOMAIN debits' = Debits /\ S \subseteq Debits
        BY <1>1 DEF FundTypeOK, Done
    <2>2. \A y \in Debits : debits[y].amount \in Int
        BY <1>1 DEF FundTypeOK, DebitState
    <2> QED
        BY <1>2, <1>4, <2>1, <2>2 DEF Joins
<1>6. /\ IsFiniteSet(Done(debits')) /\ Debited(debits') \in Int
      /\ Debited(debits) = n + Debited(debits')
    <2> HIDE DEF S
    <2>1. IsFiniteSet(S)
        BY <1>4, FS_Subset DEF BalanceInv
    <2>2. Adds(debits', debits, S, d)
        BY <1>5, <2>1, RowJoins
    <2> QED
        BY <1>4, <2>1, <2>2 DEF Debited, Adds, S
<1>7. ledger' = Added(ledger, release) /\ release.amount = n /\ UNCHANGED deposits
    BY DEF CancelOrder, InsertEntry, Added, Entry
<1>8. /\ IsFiniteSet(DOMAIN ledger') /\ \A x \in DOMAIN ledger' : x.amount \in Int
      /\ Balance(ledger') = Balance(ledger) + n
    <2> HIDE DEF release
    <2> QED
        BY <1>1, <1>3, <1>7, EntryInLedger
<1>9. Balance(ledger') = Credited(deposits') - Debited(debits')
    <2>1. Balance(ledger) = Credited(deposits) - Debited(debits) /\ Credited(deposits') = Credited(deposits)
        BY <1>7 DEF BalanceInv
    <2>2. Credited(deposits) \in Int
        BY <1>1, SumsAreInt
    <2> HIDE DEF n
    <2> QED
        BY <1>3, <1>6, <1>8, <2>1, <2>2
<1> QED
    BY <1>6, <1>7, <1>8, <1>9 DEF BalanceInv

\* The other steps enter nothing.
LEMMA BalanceStep ==
    ASSUME FundsInv, FundsInv', BalanceInv, [Next]_vars
    PROVE  BalanceInv'
<1>1. FundTypeOK /\ FundTypeOK'
    BY DEF FundsInv
<1>2. CASE UNCHANGED <<ledger, deposits, debits>>
    BY <1>1, <1>2, NoEntry
<1>3. ASSUME NEW h \in Hashes, NEW n \in DepositAmounts, Intake(h, n), UNCHANGED <<debits, ledger>>
      PROVE  BalanceInv'
    <2>1. /\ deposits[h].status = "NEW" /\ deposits'[h].status = "PENDING"
          /\ \A g \in Hashes : g # h => deposits'[g] = deposits[g]
        BY <1>1, <1>3 DEF Intake, CreateDeposit, FundTypeOK, DepositState
    <2> QED
        BY <1>1, <1>3, <2>1, NoEntry
<1>4. ASSUME NEW v \in Reviews, Reject(v)
      PROVE  BalanceInv'
    <2>1. PICK h \in Hashes : h = reviews[v].hash /\ deposits[h].status = "PENDING"
        BY <1>4 DEF Reject, FundsInv, ReviewsInv
    <2>2. /\ UNCHANGED <<debits, ledger>> /\ deposits'[h].status = "REJECTED"
          /\ \A g \in Hashes : g # h => deposits'[g] = deposits[g]
        BY <1>1, <1>4, <2>1 DEF Reject, UpdateStatus, FundTypeOK, DepositState
    <2> QED
        BY <1>1, <2>1, <2>2, NoEntry
<1>5. ASSUME NEW d \in Debits, UNCHANGED <<ledger, deposits>>,
             debits[d].pc # "done", debits'[d].pc # "done", \A e \in Debits : e # d => debits'[e] = debits[e]
      PROVE  BalanceInv'
    BY <1>1, <1>5, NoEntry
<1>6. ASSUME NEW d \in Debits, NEW s \in Scopes, NEW k \in Keys, NEW n \in Amounts,
             CheckBalance(d, s, k, n)
      PROVE  BalanceInv'
    <2>1. /\ UNCHANGED <<ledger, deposits>> /\ debits[d].pc = "idle" /\ debits'[d].pc # "done"
          /\ \A e \in Debits : e # d => debits'[e] = debits[e]
        BY <1>1, <1>6 DEF CheckBalance, FundTypeOK, DebitState
    <2> QED
        BY <1>5, <2>1
<1>7. ASSUME NEW d \in Debits, InsertKey(d) \/ AbortDebit(d)
      PROVE  BalanceInv'
    <2>1. UNCHANGED <<ledger, deposits>> /\ debits[d].pc # "done"
        BY <1>7 DEF InsertKey, AbortDebit
    <2>2. PICK a \in {"duplicate", "keyed", "failed"} : Answer(d, a)
        BY <1>7 DEF InsertKey, AbortDebit
    <2>3. debits'[d].pc # "done" /\ \A e \in Debits : e # d => debits'[e] = debits[e]
        BY <2>2, Answered
    <2> QED
        BY <1>5, <2>1, <2>3
<1>8. CASE DepositStep
    <2>1. ASSUME NEW v \in Reviews, NEW h \in Hashes, LockDeposit(v, h)
          PROVE  BalanceInv'
        BY <1>2, <2>1 DEF LockDeposit
    <2>2. ASSUME NEW v \in Reviews, AbortReview(v)
          PROVE  BalanceInv'
        BY <1>2, <2>2 DEF AbortReview
    <2>3. ASSUME NEW h \in Hashes, NEW n \in DepositAmounts, IntakeDeposit(h, n)
          PROVE  BalanceInv'
        BY <1>3, <2>3 DEF IntakeDeposit
    <2>4. ASSUME NEW v \in Reviews, NEW h \in Hashes, NEW n \in DepositAmounts, Simulate(v, h, n)
          PROVE  BalanceInv'
        BY <1>3, <2>4 DEF Simulate
    <2> QED
        BY <1>4, <1>8, <2>1, <2>2, <2>3, <2>4, ConfirmMovesBoth DEF DepositStep
<1>9. CASE DebitStep
    BY <1>6, <1>7, <1>9, CommitMovesBoth, CancelMovesBoth DEF DebitStep
<1> QED
    BY <1>2, <1>8, <1>9 DEF Next, vars, fundVars

\* The balance the API reports is what the rows of the other tables say.
THEOREM BalanceIsWhatTheRowsSay == Spec => []BalanceMatchesRows
<1>1. Init => BalanceInv
    BY BalanceInitInv
<1>2. FundsInv /\ FundsInv' /\ BalanceInv /\ [Next]_vars => BalanceInv'
    BY BalanceStep
<1>3. FundsInv /\ BalanceInv => BalanceMatchesRows
    BY BalanceUnfolded DEF FundsInv, BalanceInv
<1> QED
    BY <1>1, <1>2, <1>3, FundsInvariantHolds, PTL DEF Spec
=============================================================================
