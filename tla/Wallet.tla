------------------------------- MODULE Wallet -------------------------------
(***************************************************************************)
(* The wallet-service (services/wallet-service): coins bought with a card, *)
(* gifts, tips and subscriptions that turn a fan's coins into a creator's  *)
(* diamonds, and withdrawals that turn diamonds into a Stripe payout.      *)
(*                                                                         *)
(* Every HTTP request is a process of its own.  It runs the handler's      *)
(* statements one by one against PostgreSQL: autocommit statements on a    *)
(* connection of the pool, then one READ COMMITTED transaction that holds  *)
(* a connection and the row locks it takes until COMMIT or ROLLBACK.  What *)
(* an open transaction has written is visible to nobody, so the balance    *)
(* variables hold COMMITTED values and Commit applies a request's writes.  *)
(*                                                                         *)
(* A client keeps one idempotency key per intended operation and repeats   *)
(* the request under that key until it sees a success; a request's context *)
(* can be cancelled, and the process can die, between any two statements.  *)
(***************************************************************************)
EXTENDS Integers, FiniteSets

CONSTANTS
    Users,            \* accounts
    Keys,             \* idempotency keys, one per operation a client intends
    Requests,         \* HTTP requests served (bounds the attempts)
    Intent,           \* Intent[k]: the operation the client wants done under k
    SharePercent,     \* CREATOR_REVENUE_SHARE_PCT, in percent
    Opening,          \* users that already have a wallet and a balance row
    OpeningCoins,     \* coins bought before the behaviour starts
    OpeningDiamonds,  \* diamonds earned before the behaviour starts
    PoolSize,         \* pgxpool MaxConns
    Nobody            \* "no request", "no key"

Ops == {"buy", "gift", "tip", "subscribe", "withdraw"}

\* amount: coins of the package, coin cost of the gift/tip/tier, or diamonds.
Intents == [op : Ops, from : Users, to : Users, amount : Nat \ {0}]

ASSUME IntentAssumption == Intent \in [Keys -> Intents]
ASSUME ShareAssumption == SharePercent \in 0..100
ASSUME OpeningAssumption ==
    /\ Opening \subseteq Users
    /\ OpeningCoins \in [Users -> Nat]
    /\ OpeningDiamonds \in [Users -> Nat]
    /\ \A u \in Users \ Opening : OpeningCoins[u] = 0 /\ OpeningDiamonds[u] = 0
ASSUME NobodyAssumption == Nobody \notin Requests /\ Nobody \notin Keys
ASSUME PoolAssumption == PoolSize \in Nat \ {0} /\ IsFiniteSet(Requests)

VARIABLES
    wallets,          \* users with a row in wallets
    balanceRows,      \* users with a row in coin_balances
    coins, diamonds, lifetimeCoins, lifetimeDiamonds,  \* that row's columns
    ledger,           \* rows of transactions
    committed,        \* requests whose transaction committed (gift, subscription,
                      \* payout_requests rows are those of their operation)
    payout,           \* payout_requests.status of a withdrawal
    charged,          \* keys whose PaymentIntent succeeded at Stripe
    paidOut,          \* keys whose payout Stripe accepted
    stage,            \* next statement of a request
    key,              \* idempotency key it carries
    party,            \* whose wallet EnsureWallet is looking at
    credited,         \* its credit UPDATE matched a row
    lock,             \* holder of a coin_balances row lock
    acked             \* requests whose success reached the client

balanceVars == <<coins, diamonds, lifetimeCoins, lifetimeDiamonds>>
tableVars == <<wallets, balanceRows, balanceVars, ledger, committed>>
paymentVars == <<charged, paidOut, payout>>
requestVars == <<stage, key, party, credited, lock, acked>>
vars == <<tableVars, paymentVars, requestVars>>

EnsureStages == {"find", "insertWallet", "insertBalance"}
TxStages == {"lock", "debit", "credit", "lookup", "record"}
PayoutStages == {"payout", "markProcessing", "markFailed"}
Stages == {"idle", "active", "pay", "begin", "done"}
              \cup EnsureStages \cup TxStages \cup PayoutStages

-----------------------------------------------------------------------------
(* What a request is about.                                                *)

Op(r) == Intent[key[r]].op
From(r) == Intent[key[r]].from
To(r) == Intent[key[r]].to
Amount(r) == Intent[key[r]].amount

SpendsCoins(r) == Op(r) \in {"gift", "tip", "subscribe"}

\* math.Floor(cost * share), at least 1.
DiamondsFor(cost) ==
    LET share == (cost * SharePercent) \div 100
    IN  IF share < 1 THEN 1 ELSE share

\* The user whose row the credit statement updates.
Payee(r) == IF Op(r) = "buy" THEN From(r) ELSE To(r)
PartyUser(r) == IF party[r] = "from" THEN From(r) ELSE To(r)

Active(r) == stage[r] \notin {"idle", "done"}

\* A connection of the pool is free: every open transaction holds one.
FreeConnection == Cardinality({q \in Requests : stage[q] \in TxStages}) < PoolSize

HasActiveSubscription(u, v) ==
    \E q \in committed : Op(q) = "subscribe" /\ From(q) = u /\ To(q) = v

Unlocked(r) == [u \in Users |-> IF lock[u] = r THEN Nobody ELSE lock[u]]
MoveTo(r, s) == stage' = [stage EXCEPT ![r] = s]

\* The deferred Rollback: nothing written survives, the row locks go.
Rollback(r) ==
    /\ MoveTo(r, "done")
    /\ lock' = Unlocked(r)
    /\ UNCHANGED <<tableVars, paymentVars, key, party, credited, acked>>

-----------------------------------------------------------------------------
Init ==
    /\ wallets = Opening
    /\ balanceRows = Opening
    /\ coins = OpeningCoins
    /\ diamonds = OpeningDiamonds
    /\ lifetimeCoins = OpeningCoins
    /\ lifetimeDiamonds = OpeningDiamonds
    /\ ledger = {}
    /\ committed = {}
    /\ payout = [r \in Requests |-> "none"]
    /\ charged = {}
    /\ paidOut = {}
    /\ stage = [r \in Requests |-> "idle"]
    /\ key = [r \in Requests |-> Nobody]
    /\ party = [r \in Requests |-> "from"]
    /\ credited = [r \in Requests |-> FALSE]
    /\ lock = [u \in Users |-> Nobody]
    /\ acked = {}

\* A client sends a request, or repeats one it has seen no success of.  A gift
\* or tip to oneself is refused at once.
Receive(r, k) ==
    /\ stage[r] = "idle"
    /\ \A q \in acked : key[q] # k
    /\ key' = [key EXCEPT ![r] = k]
    /\ MoveTo(r, CASE Intent[k].op \in {"gift", "tip"}
                          /\ Intent[k].from = Intent[k].to -> "done"
                   [] Intent[k].op = "subscribe" -> "active"
                   [] OTHER -> "find")
    /\ UNCHANGED <<tableVars, paymentVars, party, credited, lock, acked>>

\* GetActiveSubscription, before any lock is taken.
CheckSubscription(r) ==
    /\ stage[r] = "active"
    /\ FreeConnection
    /\ MoveTo(r, IF HasActiveSubscription(From(r), To(r)) THEN "done" ELSE "find")
    /\ UNCHANGED <<tableVars, paymentVars, key, party, credited, lock, acked>>

\* EnsureWallet returned: the counterparty's wallet is next, then the payment
\* or the transaction.
WalletEnsured(r) ==
    IF SpendsCoins(r) /\ party[r] = "from"
    THEN /\ party' = [party EXCEPT ![r] = "to"]
         /\ MoveTo(r, "find")
    ELSE /\ MoveTo(r, IF Op(r) = "buy" THEN "pay" ELSE "begin")
         /\ UNCHANGED party

\* GetWalletByUserID.
FindWallet(r) ==
    /\ stage[r] = "find"
    /\ FreeConnection
    /\ \/ PartyUser(r) \in wallets /\ WalletEnsured(r)
       \/ /\ PartyUser(r) \notin wallets
          /\ MoveTo(r, "insertWallet")
          /\ UNCHANGED party
    /\ UNCHANGED <<tableVars, paymentVars, key, credited, lock, acked>>

\* First statement of CreateWallet.  ON CONFLICT DO NOTHING RETURNING gives the
\* loser of a race no row, which Scan turns into an error.
InsertWallet(r) ==
    /\ stage[r] = "insertWallet"
    /\ FreeConnection
    /\ wallets' = wallets \cup {PartyUser(r)}
    /\ MoveTo(r, IF PartyUser(r) \in wallets THEN "done" ELSE "insertBalance")
    /\ UNCHANGED <<balanceRows, balanceVars, ledger, committed, paymentVars,
                   key, party, credited, lock, acked>>

\* Second, separate statement of CreateWallet.
InsertBalance(r) ==
    /\ stage[r] = "insertBalance"
    /\ FreeConnection
    /\ balanceRows' = balanceRows \cup {PartyUser(r)}
    /\ WalletEnsured(r)
    /\ UNCHANGED <<wallets, balanceVars, ledger, committed, paymentVars,
                   key, credited, lock, acked>>

\* callProcessCoinPurchase.  Payment-service and Stripe deduplicate by the key,
\* so a key is charged at most once and a repeat answers "succeeded" again.
PayByCard(r) ==
    /\ stage[r] = "pay"
    /\ \/ /\ charged' = charged \cup {key[r]}
          /\ \/ MoveTo(r, "begin")
             \/ MoveTo(r, "done")          \* charged, but the reply is lost
       \/ MoveTo(r, "done") /\ UNCHANGED charged   \* declined or unreachable
    /\ UNCHANGED <<tableVars, paidOut, payout, key, party, credited, lock, acked>>

BeginTx(r) ==
    /\ stage[r] = "begin"
    /\ FreeConnection
    /\ MoveTo(r, IF Op(r) = "buy" THEN "credit" ELSE "lock")
    /\ UNCHANGED <<tableVars, paymentVars, key, party, credited, lock, acked>>

-----------------------------------------------------------------------------
(* The transaction.                                                        *)

Balance(r) == IF SpendsCoins(r) THEN coins[From(r)] ELSE diamonds[From(r)]

\* Mutant: the FOR UPDATE is dropped.
SelectWithoutLock(r) ==
    /\ stage[r] = "lock"
    /\ From(r) \in balanceRows
    /\ Balance(r) >= Amount(r)
    /\ MoveTo(r, "debit")
    /\ UNCHANGED <<tableVars, paymentVars, key, party, credited, lock, acked>>

\* SELECT ... FOR UPDATE of DebitCoins / DebitDiamonds and the check on what it
\* read.  ErrNotFound and ErrInsufficientBalance roll back.
SelectForUpdate(r) ==
    /\ stage[r] = "lock"
    /\ From(r) \in balanceRows /\ lock[From(r)] = Nobody
    /\ Balance(r) >= Amount(r)
    /\ lock' = [lock EXCEPT ![From(r)] = r]
    /\ MoveTo(r, "debit")
    /\ UNCHANGED <<tableVars, paymentVars, key, party, credited, acked>>

\* Mutant: the error is shadowed, so the deferred function does not roll back.
RefuseWithoutRollback(r) ==
    /\ stage[r] = "lock"
    /\ From(r) \in balanceRows /\ lock[From(r)] = Nobody /\ Balance(r) < Amount(r)
    /\ lock' = [lock EXCEPT ![From(r)] = r]
    /\ MoveTo(r, "done")
    /\ UNCHANGED <<tableVars, paymentVars, key, party, credited, acked>>

\* The row lock of a refused debit goes with the rollback.
RefuseDebit(r) ==
    /\ stage[r] = "lock"
    /\ \/ From(r) \notin balanceRows
       \/ lock[From(r)] = Nobody /\ Balance(r) < Amount(r)
    /\ Rollback(r)

\* UPDATE ... SET coins = coins - $2 (diamonds for a withdrawal).
Debit(r) ==
    /\ stage[r] = "debit"
    /\ lock[From(r)] \in {Nobody, r}
    /\ lock' = [lock EXCEPT ![From(r)] = r]
    /\ MoveTo(r, IF Op(r) = "withdraw" THEN "record" ELSE "credit")
    /\ UNCHANGED <<tableVars, paymentVars, key, party, credited, acked>>

AfterCredit(r) == IF Op(r) = "gift" THEN "lookup" ELSE "record"

\* Mutant: the credit runs on the pool instead of the transaction.
CreditOutsideTx(r) ==
    /\ stage[r] = "credit"
    /\ Op(r) # "buy" /\ Payee(r) \in balanceRows /\ lock[Payee(r)] = Nobody
    /\ diamonds' = [diamonds EXCEPT ![Payee(r)] = @ + DiamondsFor(Amount(r))]
    /\ lifetimeDiamonds' =
            [lifetimeDiamonds EXCEPT ![Payee(r)] = @ + DiamondsFor(Amount(r))]
    /\ MoveTo(r, AfterCredit(r))
    /\ UNCHANGED <<wallets, balanceRows, coins, lifetimeCoins, ledger, committed,
                   paymentVars, key, party, credited, lock, acked>>

\* CreditCoins / CreditDiamonds: an UPDATE that matches no row is no error.
Credit(r) ==
    /\ stage[r] = "credit"
    /\ \/ /\ Payee(r) \in balanceRows
          /\ lock[Payee(r)] \in {Nobody, r}
          /\ lock' = [lock EXCEPT ![Payee(r)] = r]
          /\ credited' = [credited EXCEPT ![r] = TRUE]
       \/ /\ Payee(r) \notin balanceRows
          /\ UNCHANGED <<lock, credited>>
    /\ MoveTo(r, AfterCredit(r))
    /\ UNCHANGED <<tableVars, paymentVars, key, party, acked>>

\* SendGift reads the receiver's wallet through the POOL while its transaction
\* already holds a connection.
LookupReceiver(r) ==
    /\ stage[r] = "lookup"
    /\ FreeConnection
    /\ MoveTo(r, "record")
    /\ UNCHANGED <<tableVars, paymentVars, key, party, credited, lock, acked>>

\* A gift writes a second entry, for the receiver, under key_recv.
EntrySides(r) == IF Op(r) = "gift" THEN {"sender", "receiver"} ELSE {"sender"}

NewEntries(r) == [key : {key[r]}, side : EntrySides(r), by : {r}]

\* Mutant: no unique key.
AppendAlways(r) == ledger \cup NewEntries(r)

\* ON CONFLICT (idempotency_key) DO NOTHING: a key that is there stays as it is.
LedgerWith(r) ==
    ledger \cup {e \in NewEntries(r) :
                    \A old \in ledger : old.key # e.key \/ old.side # e.side}

\* What the UPDATE statements of the transaction have written.
Spent(r) == IF SpendsCoins(r) THEN Amount(r) ELSE 0
Bought(r) == IF Op(r) = "buy" /\ credited[r] THEN Amount(r) ELSE 0
Withdrawn(r) == IF Op(r) = "withdraw" THEN Amount(r) ELSE 0
Earned(r) == IF SpendsCoins(r) /\ credited[r] THEN DiamondsFor(Amount(r)) ELSE 0

DiamondsLeft(r) == [diamonds EXCEPT ![From(r)] = @ - Withdrawn(r)]

\* The inserts nobody can see before COMMIT, and COMMIT; the row locks go.  A
\* withdrawal then starts the payout goroutine.
Commit(r) ==
    /\ stage[r] = "record"
    /\ ledger' = LedgerWith(r)
    /\ committed' = committed \cup {r}
    /\ coins' = [coins EXCEPT ![From(r)] = @ + Bought(r) - Spent(r)]
    /\ lifetimeCoins' = [lifetimeCoins EXCEPT ![From(r)] = @ + Bought(r)]
    /\ diamonds' = [DiamondsLeft(r) EXCEPT ![To(r)] = @ + Earned(r)]
    /\ lifetimeDiamonds' = [lifetimeDiamonds EXCEPT ![To(r)] = @ + Earned(r)]
    /\ lock' = Unlocked(r)
    /\ IF Op(r) = "withdraw"
       THEN payout' = [payout EXCEPT ![r] = "pending"] /\ MoveTo(r, "payout")
       ELSE UNCHANGED payout /\ MoveTo(r, "done")
    /\ \/ acked' = acked \cup {r}
       \/ UNCHANGED acked              \* the client never sees the answer
    /\ UNCHANGED <<wallets, balanceRows, charged, paidOut, key, party, credited>>

-----------------------------------------------------------------------------
(* The payout goroutine of WithdrawEarnings.                               *)

\* callProcessWithdrawal.  Stripe deduplicates by the key.  A reply other than
\* "paid" or "in_transit", an error reply and a broken connection are marked
\* failed, whatever Stripe did; after the 30 s timeout the context of the status
\* update has expired too, and nothing is marked.
CallPayout(r) ==
    /\ stage[r] = "payout"
    /\ \/ /\ paidOut' = paidOut \cup {key[r]}
          /\ \E next \in {"markProcessing", "markFailed", "done"} : MoveTo(r, next)
       \/ /\ UNCHANGED paidOut
          /\ \E next \in {"markFailed", "done"} : MoveTo(r, next)
    /\ UNCHANGED <<tableVars, charged, payout, key, party, credited, lock, acked>>

\* Mutant: payment-service's status is stored as it came.
MarkRawStatus(r) ==
    /\ stage[r] \in {"markProcessing", "markFailed"}
    /\ payout' = [payout EXCEPT ![r] = "in_transit"]
    /\ MoveTo(r, "done")
    /\ UNCHANGED <<tableVars, charged, paidOut, key, party, credited, lock, acked>>

\* UpdatePayoutStatus.
MarkPayout(r) ==
    /\ stage[r] \in {"markProcessing", "markFailed"}
    /\ FreeConnection
    /\ payout' = [payout EXCEPT ![r] = IF stage[r] = "markProcessing"
                                       THEN "processing" ELSE "failed"]
    /\ MoveTo(r, "done")
    /\ UNCHANGED <<tableVars, charged, paidOut, key, party, credited, lock, acked>>

-----------------------------------------------------------------------------
(* Failures.                                                               *)

\* The request's context is cancelled (client gone, statement error) or the
\* process dies: an open transaction is rolled back, everything else stays.
Abort(r) == Active(r) /\ Rollback(r)

\* r waits for the row lock q holds.
WaitsFor(r, q) ==
    /\ r # q
    /\ \/ stage[r] \in {"lock", "debit"} /\ lock[From(r)] = q
       \/ stage[r] = "credit" /\ lock[Payee(r)] = q

\* Requests that wait for each other in a circle.
WaitCycle(S) ==
    \A p \in S : (\E q \in S : WaitsFor(p, q)) /\ (\E q \in S : WaitsFor(q, p))

\* PostgreSQL aborts a transaction of a circle of waits.
BreakDeadlock(r) ==
    /\ \E S \in SUBSET {q \in Requests : stage[q] \in TxStages} :
            r \in S /\ WaitCycle(S)
    /\ Rollback(r)

\* The steps the server takes by itself once a request is in.
Proceed(r) ==
    \/ CheckSubscription(r)
    \/ FindWallet(r)
    \/ InsertWallet(r)
    \/ InsertBalance(r)
    \/ PayByCard(r)
    \/ BeginTx(r)
    \/ SelectForUpdate(r)
    \/ RefuseDebit(r)
    \/ Debit(r)
    \/ Credit(r)
    \/ LookupReceiver(r)
    \/ Commit(r)
    \/ CallPayout(r)
    \/ MarkPayout(r)
    \/ BreakDeadlock(r)

Next ==
    \E r \in Requests :
        \/ \E k \in Keys : Receive(r, k)
        \/ Proceed(r)
        \/ Abort(r)

Spec == Init /\ [][Next]_vars

\* The Go scheduler runs every goroutine, the database answers every statement
\* it can; nothing obliges a client to send or to hang up.
FairSpec == Spec /\ \A r \in Requests : WF_vars(Proceed(r))

-----------------------------------------------------------------------------
(* Properties.                                                             *)

LedgerEntries == [key : Keys, side : {"sender", "receiver"}, by : Requests]

\* The type of every variable; a request beyond "idle" carries a key.
TypeOK ==
    /\ wallets \subseteq Users
    /\ balanceRows \subseteq Users
    /\ coins \in [Users -> Int]
    /\ diamonds \in [Users -> Int]
    /\ lifetimeCoins \in [Users -> Int]
    /\ lifetimeDiamonds \in [Users -> Int]
    /\ ledger \subseteq LedgerEntries
    /\ committed \subseteq Requests
    /\ payout \in [Requests -> {"none", "pending", "processing", "failed"}]
    /\ charged \subseteq Keys
    /\ paidOut \subseteq Keys
    /\ stage \in [Requests -> Stages]
    /\ key \in [Requests -> Keys \cup {Nobody}]
    /\ \A r \in Requests : stage[r] # "idle" => key[r] \in Keys
    /\ party \in [Requests -> {"from", "to"}]
    /\ credited \in [Requests -> BOOLEAN]
    /\ lock \in [Users -> Requests \cup {Nobody}]
    /\ acked \subseteq committed

\* No interleaving of concurrent debits overdraws an account: the balance is
\* checked under the row lock that the debit holds until it commits.
NoOverdraft == \A u \in Users : coins[u] >= 0 /\ diamonds[u] >= 0

\* A row lock belongs to a transaction that is still open: whichever way a
\* handler leaves its transaction, it leaves no row locked behind it.
LocksAreHeldByOpenTx ==
    \A u \in Users : lock[u] # Nobody => stage[lock[u]] \in TxStages

\* From its balance check to its commit a transaction is alone on the row it
\* debits, and the committed balance still covers what it is about to take.
DebitsAreFunded ==
    \A r \in Requests :
        stage[r] \in {"debit", "credit", "lookup", "record"} /\ Op(r) # "buy" =>
            /\ From(r) \in balanceRows
            /\ lock[From(r)] = r
            /\ Balance(r) >= Amount(r)

\* No account is ever overdrawn or left locked, and what a transaction checked stays true
\* until it commits.
AccountsAreSafe == NoOverdraft /\ LocksAreHeldByOpenTx /\ DebitsAreFunded

\* Money moves outside only behind the database: coins are bought only under a
\* key the card was charged for, Stripe pays out only what a committed
\* withdrawal debited, and a payout marked processing is one Stripe accepted.  Whoever
\* had an account when the requests came is credited by all that commit (a wallet that
\* is just being created may miss its credit: CreateWallet is two statements).
MoneyFollowsTheBooks ==
    /\ \A r \in committed : Op(r) = "buy" => key[r] \in charged
    /\ \A k \in paidOut : \E r \in committed : key[r] = k /\ Op(r) = "withdraw"
    /\ \A r \in Requests : payout[r] = "processing" => key[r] \in paidOut
    /\ \A r \in committed : Op(r) # "withdraw" /\ Payee(r) \in Opening => credited[r]

\* One entry per idempotency key, written by a request that committed under it:
\* a retry, however it races the first attempt, adds or replaces none.
OneEntryPerKey ==
    /\ \A e, f \in ledger : e.key = f.key /\ e.side = f.side => e = f
    /\ \A e \in ledger : e.by \in committed /\ key[e.by] = e.key

\* Ledger, card, payouts and balances tell one story.
BooksAgree == MoneyFollowsTheBooks /\ OneEntryPerKey

\* The ledger is append-only.
LedgerIsImmutable == [][ledger \subseteq ledger']_ledger

\* Every request ends, whatever the order in which requests lock the rows of
\* the two parties (given a pool larger than the number of open gifts).
RequestsFinish == \A r \in Requests : Active(r) ~> stage[r] = "done"

\* What the wallet promises: CoinLedger, over the committed balances.
Books == INSTANCE CoinLedger WITH
            open <- balanceRows,
            Amounts <- {Intent[k].amount : k \in Keys},
            DiamondsOf <- [n \in {Intent[k].amount : k \in Keys} |-> DiamondsFor(n)]

\* Every commit, however its statements interleave with other transactions,
\* deadlock victims and aborts, is one atomic operation on funded accounts.
ImplementsCoinLedger == Books!Spec

-----------------------------------------------------------------------------
(* What the code's comments say and the code does not do.                  *)

\* models/wallet.go:80: "IdempotencyKey prevents duplicate processing."  An
\* idempotency key is processed once.
ProcessedOncePerKey == \A p, q \in committed : key[p] = key[q] => p = q

=============================================================================
