------------------------------ MODULE Accounts ------------------------------
(***************************************************************************)
(* One user, the account the user has in one asset, and the deposit        *)
(* address of that asset: CreateUser with ProvisionAll, DeleteUser and     *)
(* concurrent calls of GetOrCreateAddress, which look for the row, then    *)
(* for the account, and then insert under the unique index, at most Tries  *)
(* times.  An address is named after the call that generated it.           *)
(***************************************************************************)
EXTENDS Integers

CONSTANTS Opens,  \* calls of GetOrCreateAddress that run concurrently
          None    \* no address

ASSUME AccountNames == None \notin Opens

VARIABLES user,     \* the users row: NEW before it exists, ACTIVE, DELETED
          account,  \* the accounts row exists
          address,  \* the committed wallet_addresses row
          opens,    \* [Opens -> [pc, tries]]
          answers   \* addresses that calls have been answered with

accountVars == <<user, account, address, opens, answers>>

Tries == 3
IdleOpen == [pc |-> "idle", tries |-> 0]

\* The users row; email and username are UNIQUE, of deleted users too.
CreateRow == user = "NEW" /\ user' = "ACTIVE"

\* An account for every asset that is enabled when the user signs up.
ProvisionAll(enabled) == account' = enabled

\* One transaction.
CreateUser(enabled) ==
    /\ CreateRow
    /\ ProvisionAll(enabled)
    /\ UNCHANGED <<address, opens, answers>>

\* A soft delete: accounts stay, and the user's token is good until it expires.
DeleteUser ==
    /\ user = "ACTIVE"
    /\ user' = "DELETED"
    /\ UNCHANGED <<account, address, opens, answers>>

\* account.Service.AccountID finds the row.
HasAccount == account

\* wallet.Store.GetByUserAssetNetwork finds the row.
HasAddress == address # None

AnswerOpen(o, a) ==
    /\ opens' = [opens EXCEPT ![o] = IdleOpen]
    /\ answers' = answers \cup {a}

LookUpAddress(o) ==
    /\ opens[o].pc = "idle"
    /\ user # "NEW"
    /\ IF HasAddress
       THEN AnswerOpen(o, address)
       ELSE /\ opens' = [opens EXCEPT ![o].pc = "looked"]
            /\ UNCHANGED answers
    /\ UNCHANGED <<user, account, address>>

\* Mutant: the account is not asked for.
CheckNothing(o) ==
    /\ opens[o].pc = "looked"
    /\ opens' = [opens EXCEPT ![o].pc = "creating"]
    /\ UNCHANGED <<user, account, address, answers>>

\* Without an account the call is refused.
CheckAccount(o) ==
    /\ opens[o].pc = "looked"
    /\ opens' = [opens EXCEPT ![o] = IF HasAccount THEN [@ EXCEPT !.pc = "creating"] ELSE IdleOpen]
    /\ UNCHANGED <<user, account, address, answers>>

\* Mutant: there is no unique index on user, asset and network.
NeverConflicts(o) == FALSE

Conflicts(o) == HasAddress

\* The insert waits for a transaction that has inserted the same row.
IndexIsFree(o) == \A q \in Opens : opens[q].pc # "inserted"

\* A conflict is tried again with a new address, and the third one fails the call.
TryAgain(open) == IF open.tries + 1 < Tries THEN [open EXCEPT !.tries = @ + 1] ELSE IdleOpen

\* The row is there already, or the generated address belongs to somebody else.
InsertAddress(o) ==
    /\ opens[o].pc = "creating"
    /\ IndexIsFree(o)
    /\ \/ /\ ~Conflicts(o)
          /\ opens' = [opens EXCEPT ![o].pc = "inserted"]
       \/ opens' = [opens EXCEPT ![o] = TryAgain(@)]
    /\ UNCHANGED <<user, account, address, answers>>

\* The process may end after the commit, before the answer.
CommitAddress(o) ==
    /\ opens[o].pc = "inserted"
    /\ address' = o
    /\ opens' = [opens EXCEPT ![o] = IdleOpen]
    /\ answers' \in {answers, answers \cup {o}}
    /\ UNCHANGED <<user, account>>

\* An error, or the end of the process.
AbortOpen(o) ==
    /\ opens[o].pc # "idle"
    /\ opens' = [opens EXCEPT ![o] = IdleOpen]
    /\ UNCHANGED <<user, account, address, answers>>

AccountInit ==
    /\ user = "NEW" /\ account = FALSE
    /\ address = None
    /\ opens = [o \in Opens |-> IdleOpen]
    /\ answers = {}

AccountStep ==
    \/ \E enabled \in BOOLEAN : CreateUser(enabled)
    \/ DeleteUser
    \/ \E o \in Opens : LookUpAddress(o) \/ CheckAccount(o) \/ InsertAddress(o)
                        \/ CommitAddress(o) \/ AbortOpen(o)

-----------------------------------------------------------------------------
(* Properties *)

\* README, POST /wallets: "second call returns the existing address".  Every call
\* that is answered, however many run at once, is answered with the address of the
\* row, so no deposit goes to an address the table does not have.
OneAddress == answers \subseteq {address}
=============================================================================
