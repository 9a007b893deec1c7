---------------------------- MODULE WalletProofs ----------------------------
(***************************************************************************)
(* Theorems about Wallet for any users, keys, requests, intents, share and *)
(* pool size.                                                              *)
(***************************************************************************)
EXTENDS Wallet, TLAPS

\* A share of a natural number of coins is a natural number of diamonds
\* (coinToDiamonds).
LEMMA DiamondsForType ==
    ASSUME NEW n \in Nat
    PROVE  DiamondsFor(n) \in Nat
<1> DEFINE share == (n * SharePercent) \div 100
<1>1. n * SharePercent \in Nat  BY ShareAssumption, SMT
<1>2. share \in Nat  BY <1>1
<1>3. QED BY <1>2 DEF DiamondsFor

\* A key that was sent names an intent with two users and a positive amount.
LEMMA IntentType ==
    ASSUME NEW r \in Requests, key[r] \in Keys
    PROVE  /\ Op(r) \in Ops
           /\ From(r) \in Users
           /\ To(r) \in Users
           /\ Payee(r) \in Users
           /\ Amount(r) \in Nat \ {0}
<1>1. Intent[key[r]] \in Intents  BY IntentAssumption
<1>2. QED BY <1>1 DEF Intents, Op, From, To, Payee, Amount

\* What an intent adds to and takes from its payer is never negative.
LEMMA EffectType ==
    ASSUME NEW r \in Requests, key[r] \in Keys
    PROVE  /\ Spent(r) \in Nat /\ Bought(r) \in Nat
           /\ Earned(r) \in Nat /\ Withdrawn(r) \in Nat
<1>1. Amount(r) \in Nat  BY IntentType
<1>2. DiamondsFor(Amount(r)) \in Nat  BY <1>1, DiamondsForType
<1>3. QED BY <1>1, <1>2 DEF Spent, Bought, Earned, Withdrawn

-----------------------------------------------------------------------------
(* Type correctness.                                                       *)

\* The opening balances are typed.
LEMMA InitType == Init => TypeOK
BY OpeningAssumption, SMT DEF Init, TypeOK, Stages

\* Giving up a transaction keeps the types, whatever it had locked.
LEMMA RollbackType ==
    ASSUME TypeOK, NEW r \in Requests, Active(r), Rollback(r)
    PROVE  TypeOK'
BY DEF TypeOK, Active, Rollback, Unlocked, MoveTo, Stages, tableVars,
       balanceVars, paymentVars

\* ensureWallet moves one request to the stage after it and no other.
LEMMA WalletEnsuredType ==
    ASSUME TypeOK, NEW r \in Requests, WalletEnsured(r)
    PROVE  /\ stage' \in [Requests -> Stages]
           /\ party' \in [Requests -> {"from", "to"}]
           /\ \A q \in Requests : q # r => stage'[q] = stage[q]
BY DEF TypeOK, WalletEnsured, MoveTo, Stages, EnsureStages

\* The commit of each operation keeps the types (of balances only that they are
\* integers; that none is negative is Solvency).
LEMMA CommitType ==
    ASSUME TypeOK, NEW r \in Requests, Commit(r)
    PROVE  TypeOK'
<1>1. stage[r] = "record" /\ key[r] \in Keys  BY DEF Commit, TypeOK
<1>2. From(r) \in Users /\ To(r) \in Users  BY <1>1, IntentType
<1>3. /\ Spent(r) \in Nat /\ Bought(r) \in Nat
      /\ Earned(r) \in Nat /\ Withdrawn(r) \in Nat
  BY <1>1, EffectType
<1>4. /\ coins' \in [Users -> Int] /\ diamonds' \in [Users -> Int]
      /\ lifetimeCoins' \in [Users -> Int] /\ lifetimeDiamonds' \in [Users -> Int]
  BY <1>2, <1>3 DEF Commit, DiamondsLeft, TypeOK
<1>5. ledger' \subseteq LedgerEntries
  BY <1>1 DEF Commit, TypeOK, LedgerWith, NewEntries, EntrySides, LedgerEntries
<1>6. /\ payout' \in [Requests -> {"none", "pending", "processing", "failed"}]
      /\ stage' \in [Requests -> Stages]
      /\ \A q \in Requests : stage'[q] # "idle" => key'[q] \in Keys
  BY <1>1 DEF Commit, TypeOK, MoveTo, Stages, PayoutStages
<1>7. /\ lock' \in [Users -> Requests \cup {Nobody}]
      /\ committed' \subseteq Requests /\ acked' \subseteq committed'
  BY DEF Commit, TypeOK, Unlocked
<1>8. QED BY <1>4, <1>5, <1>6, <1>7 DEF Commit, TypeOK

\* Every step keeps the types.
LEMMA NextType == TypeOK /\ [Next]_vars => TypeOK'
<1> SUFFICES ASSUME TypeOK, [Next]_vars PROVE TypeOK'  OBVIOUS
<1> USE DEF TypeOK, MoveTo, Stages, EnsureStages, TxStages, PayoutStages,
            tableVars, balanceVars, paymentVars
<1>1. CASE UNCHANGED vars  BY <1>1 DEF vars, requestVars
<1>2. ASSUME NEW r \in Requests, NEW k \in Keys, Receive(r, k) PROVE TypeOK'  BY <1>2 DEF Receive
<1>3. ASSUME NEW r \in Requests, Proceed(r) PROVE TypeOK'
  <2>1. CASE CheckSubscription(r)  BY <2>1 DEF CheckSubscription
  <2>2. CASE FindWallet(r)  BY <2>2, WalletEnsuredType DEF FindWallet
  <2>3. CASE InsertWallet(r)  BY <2>3, IntentType DEF InsertWallet, PartyUser
  <2>4. CASE InsertBalance(r)  BY <2>4, IntentType, WalletEnsuredType DEF InsertBalance, PartyUser
  <2>5. CASE PayByCard(r)  BY <2>5 DEF PayByCard
  <2>6. CASE BeginTx(r)  BY <2>6 DEF BeginTx
  <2>7. CASE SelectForUpdate(r)  BY <2>7 DEF SelectForUpdate
  <2>8. CASE RefuseDebit(r)  BY <2>8, RollbackType DEF RefuseDebit, Active
  <2>9. CASE Debit(r)  BY <2>9 DEF Debit
  <2>10. CASE Credit(r)
    <3>1. credited' \in [Requests -> BOOLEAN]  BY <2>10 DEF Credit
    <3>2. lock' \in [Users -> Requests \cup {Nobody}]  BY <2>10 DEF Credit
    <3>3. stage' \in [Requests -> Stages] /\ stage[r] = "credit"  BY <2>10 DEF Credit, AfterCredit
    <3>4. \A q \in Requests : stage'[q] # "idle" => key'[q] \in Keys  BY <2>10 DEF Credit, AfterCredit
    <3>5. QED BY <2>10, <3>1, <3>2, <3>3, <3>4, Zenon DEF Credit
  <2>11. CASE LookupReceiver(r)  BY <2>11 DEF LookupReceiver
  <2>12. CASE Commit(r)  BY <2>12, CommitType
  <2>13. CASE CallPayout(r)  BY <2>13 DEF CallPayout
  <2>14. CASE MarkPayout(r)  BY <2>14 DEF MarkPayout
  <2>15. CASE BreakDeadlock(r)  BY <2>15, RollbackType DEF BreakDeadlock, Active
  <2>16. QED
    BY <1>3, <2>1, <2>2, <2>3, <2>4, <2>5, <2>6, <2>7, <2>8, <2>9, <2>10,
       <2>11, <2>12, <2>13, <2>14, <2>15 DEF Proceed
<1>4. ASSUME NEW r \in Requests, Abort(r) PROVE TypeOK'  BY <1>4, RollbackType DEF Abort
<1>5. QED BY <1>1, <1>2, <1>3, <1>4 DEF Next

\* Balances, rows, ledger and the stages of requests keep their types for any
\* users, keys, requests and opening balances.
THEOREM TypeCorrect == Spec => []TypeOK
<1>1. Init => TypeOK  BY InitType
<1>2. TypeOK /\ [Next]_vars => TypeOK'  BY NextType
<1>3. QED BY <1>1, <1>2, PTL DEF Spec

-----------------------------------------------------------------------------
(* Solvency.  A debit is safe because its row stays locked from the check to *)
(* the commit, so the inductive invariant ties stages, locks and balances.   *)

BeforeCredit ==
    {"idle", "active", "pay", "begin", "lock", "debit", "credit"} \cup EnsureStages

\* The credited row is locked until the commit too.
CreditsAreLocked ==
    \A r \in Requests : credited[r] =>
        /\ stage[r] \notin BeforeCredit
        /\ stage[r] \in {"lookup", "record"} =>
               Payee(r) \in balanceRows /\ lock[Payee(r)] = r

LockInv == LocksAreHeldByOpenTx /\ DebitsAreFunded /\ CreditsAreLocked

IInv == TypeOK /\ LockInv /\ NoOverdraft

\* No request is open at first, so the lock invariant holds.
LEMMA InitInv == Init => IInv
<1> SUFFICES ASSUME Init PROVE IInv  OBVIOUS
<1>1. TypeOK  BY InitType
<1>2. LockInv  BY DEF Init, LockInv, LocksAreHeldByOpenTx, DebitsAreFunded, CreditsAreLocked
<1>3. NoOverdraft  BY OpeningAssumption DEF Init, NoOverdraft
<1>4. QED BY <1>1, <1>2, <1>3 DEF IInv

\* A step that touches no balance and no lock, and keeps requests out of the
\* stages that follow a balance check unless they buy.
LEMMA QuietStep ==
    ASSUME IInv, NEW r \in Requests, TypeOK',
           UNCHANGED <<coins, diamonds, lock, credited>>,
           balanceRows \subseteq balanceRows',
           \A q \in Requests : q # r => stage'[q] = stage[q],
           \A q \in Requests : stage[q] # "idle" => key'[q] = key[q],
           stage[r] \notin TxStages,
           stage'[r] \in BeforeCredit => stage[r] \in BeforeCredit,
           \/ stage'[r] \notin {"debit", "credit", "lookup", "record"}
           \/ stage'[r] = "credit" /\ stage[r] # "idle" /\ Op(r) = "buy"
    PROVE  IInv'
<1>1. LocksAreHeldByOpenTx'  BY NobodyAssumption DEF IInv, TypeOK, LockInv, LocksAreHeldByOpenTx
<1>2. DebitsAreFunded'
  BY DEF IInv, TypeOK, LockInv, DebitsAreFunded, Op, From, Amount, Balance,
         SpendsCoins, TxStages
<1>3. CreditsAreLocked'
  BY DEF IInv, TypeOK, LockInv, CreditsAreLocked, Op, From, To, Payee, TxStages,
         BeforeCredit
<1>4. NoOverdraft'  BY DEF IInv, NoOverdraft
<1>5. QED BY <1>1, <1>2, <1>3, <1>4 DEF IInv, LockInv

\* Rollback releases the locks of one transaction and touches no balance.
LEMMA RollbackInv ==
    ASSUME IInv, NEW r \in Requests, Rollback(r), TypeOK'
    PROVE  IInv'
<1> USE DEF Rollback, MoveTo, Unlocked, tableVars, balanceVars
<1>1. LocksAreHeldByOpenTx'  BY NobodyAssumption DEF IInv, TypeOK, LockInv, LocksAreHeldByOpenTx
<1>2. DebitsAreFunded'  BY DEF DebitsAreFunded, IInv, TypeOK, Op, LockInv, From, Amount, Balance, SpendsCoins
<1>3. CreditsAreLocked'
  BY DEF IInv, LockInv, CreditsAreLocked, TypeOK, BeforeCredit, EnsureStages, Payee, Op, From, To
<1>4. NoOverdraft'  BY DEF IInv, NoOverdraft
<1>5. QED BY <1>1, <1>2, <1>3, <1>4 DEF IInv, LockInv

\* A statement of r inside its transaction: it may take one more row lock.
LEMMA LockStep ==
    ASSUME IInv, TypeOK', NEW r \in Requests, NEW u \in Users,
           stage[r] \in TxStages, stage'[r] \in TxStages,
           \/ lock' = lock
           \/ lock[u] \in {Nobody, r} /\ lock' = [lock EXCEPT ![u] = r],
           UNCHANGED <<coins, diamonds, balanceRows, key>>,
           \A q \in Requests : q # r =>
               stage'[q] = stage[q] /\ credited'[q] = credited[q],
           stage'[r] # "lock" /\ Op(r) # "buy" =>
               /\ From(r) \in balanceRows
               /\ lock'[From(r)] = r
               /\ Balance(r) >= Amount(r),
           credited'[r] => /\ stage'[r] \in {"lookup", "record"}
                           /\ Payee(r) \in balanceRows
                           /\ lock'[Payee(r)] = r
    PROVE  IInv'
<1> USE DEF Op, From, To, Amount, Payee, SpendsCoins, Balance
<1>1. LocksAreHeldByOpenTx'  BY NobodyAssumption DEF IInv, TypeOK, LockInv, LocksAreHeldByOpenTx
<1>2. DebitsAreFunded'  BY NobodyAssumption DEF DebitsAreFunded, IInv, LockInv, TypeOK
<1>3. CreditsAreLocked'
  BY NobodyAssumption DEF IInv, LockInv, CreditsAreLocked, BeforeCredit, EnsureStages, TypeOK
<1>4. NoOverdraft'  BY DEF IInv, NoOverdraft
<1>5. QED BY <1>1, <1>2, <1>3, <1>4 DEF IInv, LockInv

\* COMMIT moves only the balances of rows r has locked, and covers its debit.
LEMMA CommitInv ==
    ASSUME IInv, TypeOK', NEW r \in Requests, Commit(r)
    PROVE  IInv'
<1>1. stage[r] = "record" /\ key[r] \in Keys  BY DEF Commit, IInv, TypeOK
<1>2. /\ From(r) \in Users /\ To(r) \in Users /\ Amount(r) \in Nat
      /\ Spent(r) \in Nat /\ Bought(r) \in Nat
      /\ Earned(r) \in Nat /\ Withdrawn(r) \in Nat
  BY <1>1, IntentType, EffectType
<1>3. Op(r) # "buy" => lock[From(r)] = r /\ Balance(r) >= Amount(r)
  BY <1>1 DEF IInv, LockInv, DebitsAreFunded
<1>4. /\ stage'[r] \notin TxStages
      /\ stage'[r] # "idle"
      /\ \A q \in Requests : q # r => stage'[q] = stage[q]
  BY <1>1 DEF Commit, MoveTo, IInv, TypeOK, TxStages
<1>5. \A u \in Users : u # From(r) \/ Op(r) = "buy" =>
         coins'[u] >= coins[u] /\ diamonds'[u] >= diamonds[u]
  BY <1>2 DEF Spent, Withdrawn, SpendsCoins, Commit, DiamondsLeft, IInv, TypeOK
<1>6. NoOverdraft'
  BY <1>2, <1>3 DEF IInv, TypeOK, NoOverdraft, Balance, SpendsCoins, Spent, Withdrawn, Commit, DiamondsLeft
<1>7. LocksAreHeldByOpenTx'
  BY <1>4, NobodyAssumption
     DEF Commit, Unlocked, IInv, TypeOK, LockInv, LocksAreHeldByOpenTx
<1>8. DebitsAreFunded'
  <2> SUFFICES ASSUME NEW q \in Requests,
                      stage'[q] \in {"debit", "credit", "lookup", "record"},
                      Op(q)' # "buy"
               PROVE  /\ (From(q) \in balanceRows)'
                      /\ lock'[From(q)'] = q
                      /\ Balance(q)' >= Amount(q)'
    BY DEF DebitsAreFunded
  <2>1. q # r /\ stage[q] = stage'[q]  BY <1>4 DEF TxStages
  <2>2. /\ Op(q)' = Op(q) /\ From(q)' = From(q) /\ Amount(q)' = Amount(q)
        /\ SpendsCoins(q)' = SpendsCoins(q)
    BY DEF Commit, Op, From, Amount, SpendsCoins
  <2>3. From(q) \in balanceRows /\ lock[From(q)] = q /\ Balance(q) >= Amount(q)
    BY <2>1, <2>2 DEF IInv, LockInv, DebitsAreFunded
  <2>4. From(q) \in Users /\ Amount(q) \in Nat  BY <2>1, IntentType DEF IInv, TypeOK
  <2>5. From(q) # From(r) \/ Op(r) = "buy"  BY <2>1, <2>3, <1>3
  <2>6. coins'[From(q)] >= coins[From(q)] /\ diamonds'[From(q)] >= diamonds[From(q)]  BY <2>4, <2>5, <1>5
  <2>7. Balance(q)' >= Amount(q)  BY <2>4, <2>2, <2>3, <2>6 DEF IInv, TypeOK, Balance
  <2>8. lock'[From(q)] = q /\ balanceRows' = balanceRows  BY <2>1, <2>3, <2>4 DEF Commit, Unlocked
  <2>9. QED BY <2>2, <2>3, <2>7, <2>8
<1>9. CreditsAreLocked'
  <2>0. ASSUME NEW q \in Requests, credited'[q] PROVE stage'[q] \notin BeforeCredit
    BY <2>0, <1>1 DEF IInv, LockInv, CreditsAreLocked, TypeOK, Commit, MoveTo,
       BeforeCredit, EnsureStages
  <2> SUFFICES ASSUME NEW q \in Requests,
                      stage'[q] \in {"lookup", "record"}, credited'[q]
               PROVE  Payee(q)' \in balanceRows' /\ lock'[Payee(q)'] = q
    BY <2>0 DEF CreditsAreLocked
  <2>1. q # r /\ stage[q] = stage'[q] /\ credited[q]  BY <1>4 DEF TxStages, Commit
  <2>2. Payee(q) \in balanceRows /\ lock[Payee(q)] = q  BY <2>1 DEF IInv, LockInv, CreditsAreLocked
  <2>3. Payee(q) \in Users /\ Payee(q)' = Payee(q)  BY <2>2 DEF Commit, IInv, TypeOK, Payee, Op, From, To
  <2>4. QED BY <2>1, <2>2, <2>3 DEF Commit, Unlocked
<1>10. QED BY <1>6, <1>7, <1>8, <1>9 DEF IInv, LockInv

\* The inductive step: every action of every request keeps IInv.
LEMMA NextInv == IInv /\ [Next]_vars => IInv'
<1> SUFFICES ASSUME IInv, [Next]_vars PROVE IInv'  OBVIOUS
<1> USE DEF MoveTo, EnsureStages, TxStages, PayoutStages, BeforeCredit, tableVars,
            balanceVars, paymentVars
<1>1. TypeOK /\ TypeOK'  BY NextType DEF IInv
<1>2. CASE UNCHANGED vars
  BY <1>2, <1>1 DEF vars, requestVars, IInv, TypeOK, LockInv,
     LocksAreHeldByOpenTx, DebitsAreFunded, CreditsAreLocked, NoOverdraft,
     Op, From, To, Amount, Payee, SpendsCoins, Balance
<1>3. ASSUME NEW r \in Requests, NEW k \in Keys, Receive(r, k) PROVE IInv'
  BY <1>1, <1>3, QuietStep DEF Receive, TypeOK
<1>4. ASSUME NEW r \in Requests, Proceed(r) PROVE IInv'
  <2>1. CASE CheckSubscription(r)  BY <1>1, <2>1, QuietStep DEF CheckSubscription, TypeOK
  <2>2. CASE FindWallet(r)  BY <1>1, <2>2, QuietStep DEF FindWallet, WalletEnsured, TypeOK
  <2>3. CASE InsertWallet(r)  BY <1>1, <2>3, QuietStep DEF InsertWallet, TypeOK
  <2>4. CASE InsertBalance(r)  BY <1>1, <2>4, QuietStep DEF InsertBalance, WalletEnsured, TypeOK
  <2>5. CASE PayByCard(r)  BY <1>1, <2>5, QuietStep DEF PayByCard, TypeOK
  <2>6. CASE BeginTx(r)  BY <1>1, <2>6, QuietStep DEF BeginTx, TypeOK
  <2>7. CASE SelectForUpdate(r)
    <3>1. From(r) \in Users  BY <2>7, <1>1 DEF SelectForUpdate, TypeOK
    <3>2. ~credited'[r]  BY <2>7 DEF SelectForUpdate, IInv, LockInv, CreditsAreLocked
    <3>3. QED BY <1>1, <2>7, <3>1, <3>2, LockStep DEF SelectForUpdate, TypeOK
  <2>8. CASE RefuseDebit(r)  BY <1>1, <2>8, RollbackInv DEF RefuseDebit
  <2>9. CASE Debit(r)
    <3>1. From(r) \in Users  BY <2>9, <1>1, IntentType DEF Debit, TypeOK
    <3>2. Op(r) # "buy" => /\ From(r) \in balanceRows
                           /\ lock'[From(r)] = r
                           /\ Balance(r) >= Amount(r)
      BY <2>9, <3>1, <1>1 DEF Debit, IInv, LockInv, DebitsAreFunded, TypeOK
    <3>3. ~credited'[r]  BY <2>9 DEF Debit, IInv, LockInv, CreditsAreLocked
    <3>4. QED BY <1>1, <2>9, <3>1, <3>2, <3>3, LockStep DEF Debit, TypeOK
  <2>10. CASE Credit(r)
    BY <2>10, <1>1, IntentType, LockStep DEF Credit, TypeOK, IInv, LockInv, DebitsAreFunded, AfterCredit,
       CreditsAreLocked
  <2>11. CASE LookupReceiver(r)
    BY <2>11, <1>1, IntentType, LockStep DEF LookupReceiver, TypeOK, IInv, LockInv, DebitsAreFunded,
       CreditsAreLocked
  <2>12. CASE Commit(r)  BY <1>1, <2>12, CommitInv
  <2>13. CASE CallPayout(r)  BY <1>1, <2>13, QuietStep DEF CallPayout, TypeOK
  <2>14. CASE MarkPayout(r)  BY <1>1, <2>14, QuietStep DEF MarkPayout, TypeOK
  <2>15. CASE BreakDeadlock(r)  BY <1>1, <2>15, RollbackInv DEF BreakDeadlock
  <2>16. QED
    BY <1>4, <2>1, <2>2, <2>3, <2>4, <2>5, <2>6, <2>7, <2>8, <2>9, <2>10,
       <2>11, <2>12, <2>13, <2>14, <2>15 DEF Proceed
<1>5. ASSUME NEW r \in Requests, Abort(r) PROVE IInv'  BY <1>1, <1>5, RollbackInv DEF Abort
<1>6. QED BY <1>2, <1>3, <1>4, <1>5 DEF Next

\* The inductive invariant holds in every reachable state.
THEOREM InvariantHolds == Spec => []IInv
<1>1. Init => IInv  BY InitInv
<1>2. IInv /\ [Next]_vars => IInv'  BY NextInv
<1>3. QED BY <1>1, <1>2, PTL DEF Spec

\* No interleaving, deadlock victim or abort overdraws an account.
THEOREM Solvency == Spec => []NoOverdraft
<1>1. IInv => NoOverdraft  BY DEF IInv
<1>2. QED BY <1>1, InvariantHolds, PTL

\* Every row lock is released with the transaction that took it.
THEOREM LocksAreReleased == Spec => []LocksAreHeldByOpenTx
<1>1. IInv => LocksAreHeldByOpenTx  BY DEF IInv, LockInv
<1>2. QED BY <1>1, InvariantHolds, PTL

\* What the balance check saw stays true until the commit that relies on it.
THEOREM ChecksStayValid == Spec => []DebitsAreFunded
<1>1. IInv => DebitsAreFunded  BY DEF IInv, LockInv
<1>2. QED BY <1>1, InvariantHolds, PTL

\* Together: whatever the requests and their failures, the accounts are safe.
THEOREM AccountsStaySafe == Spec => []AccountsAreSafe
<1>1. IInv => AccountsAreSafe  BY DEF IInv, LockInv, AccountsAreSafe
<1>2. QED BY <1>1, InvariantHolds, PTL

\* Nothing rewrites or removes a ledger entry.
THEOREM AppendOnly == Spec => LedgerIsImmutable
<1>1. [Next]_vars => [ledger \subseteq ledger']_ledger
  <2> SUFFICES ASSUME Next PROVE ledger \subseteq ledger'  BY DEF vars, tableVars
  <2>1. PICK r \in Requests :
            (\E k \in Keys : Receive(r, k)) \/ Proceed(r) \/ Abort(r)
    BY DEF Next
  <2>2. CASE Commit(r)  BY <2>2 DEF Commit, LedgerWith
  <2>3. CASE ~Commit(r)
    BY <2>1, <2>3
       DEF Proceed, Receive, CheckSubscription, FindWallet, InsertWallet,
           InsertBalance, PayByCard, BeginTx, SelectForUpdate, RefuseDebit, Debit,
           Credit, LookupReceiver, CallPayout, MarkPayout, BreakDeadlock, Abort,
           Rollback, tableVars
  <2>4. QED BY <2>2, <2>3
<1>2. QED BY <1>1, PTL DEF Spec, LedgerIsImmutable

-----------------------------------------------------------------------------
(* Refinement: the wallet implements CoinLedger.                           *)

\* The opening books are those of the abstract ledger.
LEMMA InitRefines == Init => Books!Init
BY OpeningAssumption DEF Init, Books!Init

\* A commit is one operation of the abstract ledger, or nothing at all when a
\* purchase found no balance row.
LEMMA CommitRefines ==
    ASSUME IInv, NEW r \in Requests, Commit(r)
    PROVE  Books!Next \/ UNCHANGED Books!vars
<1> DEFINE Amounts == {Intent[k].amount : k \in Keys}
           n == Amount(r)
<1>1. stage[r] = "record" /\ key[r] \in Keys  BY DEF Commit, IInv, TypeOK
<1>2. /\ Op(r) \in Ops /\ From(r) \in Users /\ To(r) \in Users /\ n \in Nat \ {0}
      /\ DiamondsFor(n) \in Nat
  BY <1>1, IntentType, DiamondsForType
<1>3. n \in Amounts  BY <1>1 DEF Amount
<1>4. Op(r) # "buy" => From(r) \in balanceRows /\ Balance(r) >= n  BY <1>1 DEF IInv, LockInv, DebitsAreFunded
<1>5. credited[r] => Payee(r) \in balanceRows  BY <1>1 DEF IInv, LockInv, CreditsAreLocked
<1>6. /\ coins \in [Users -> Int] /\ diamonds \in [Users -> Int]
      /\ lifetimeCoins \in [Users -> Int] /\ lifetimeDiamonds \in [Users -> Int]
  BY DEF IInv, TypeOK
<1>7. /\ coins' = [coins EXCEPT ![From(r)] = @ + Bought(r) - Spent(r)]
      /\ lifetimeCoins' = [lifetimeCoins EXCEPT ![From(r)] = @ + Bought(r)]
      /\ diamonds' = [DiamondsLeft(r) EXCEPT ![To(r)] = @ + Earned(r)]
      /\ lifetimeDiamonds' = [lifetimeDiamonds EXCEPT ![To(r)] = @ + Earned(r)]
      /\ balanceRows' = balanceRows
  BY DEF Commit
<1>8. CASE Op(r) = "buy"
  <2>1. Spent(r) = 0 /\ Withdrawn(r) = 0 /\ Earned(r) = 0 /\ Payee(r) = From(r)
    BY <1>8 DEF Spent, Withdrawn, Earned, SpendsCoins, Payee
  <2>2. diamonds' = diamonds /\ lifetimeDiamonds' = lifetimeDiamonds  BY <1>2, <1>6, <2>1, <1>7 DEF DiamondsLeft
  <2>3. CASE credited[r]
    <3>1. Bought(r) = n  BY <1>8, <2>3 DEF Bought
    <3>2. /\ coins' = [coins EXCEPT ![From(r)] = @ + n]
          /\ lifetimeCoins' = [lifetimeCoins EXCEPT ![From(r)] = @ + n]
      <4>1. coins[From(r)] + Bought(r) - Spent(r) = coins[From(r)] + n  BY <1>2, <1>6, <2>1, <3>1
      <4>2. QED BY <1>7, <3>1, <4>1, Zenon
    <3>3. Books!Purchase(From(r), n)  BY <1>5, <1>7, <2>1, <2>2, <2>3, <3>2 DEF Books!Purchase
    <3>4. QED BY <1>2, <1>3, <3>3 DEF Books!Next
  <2>4. CASE ~credited[r]  BY <2>4, <1>2, <1>6, <1>7, <2>1, <2>2 DEF Bought, Books!vars
  <2>5. QED BY <2>3, <2>4
<1>9. CASE SpendsCoins(r)
  <2>1. /\ Spent(r) = n /\ Bought(r) = 0 /\ Withdrawn(r) = 0 /\ Payee(r) = To(r)
        /\ From(r) \in balanceRows /\ coins[From(r)] >= n
    BY <1>4, <1>9 DEF Spent, Bought, Withdrawn, SpendsCoins, Payee, Balance
  <2>2. /\ coins' = [coins EXCEPT ![From(r)] = @ - n]
        /\ lifetimeCoins' = lifetimeCoins
    <3>1. coins[From(r)] + Bought(r) - Spent(r) = coins[From(r)] - n  BY <1>2, <1>6, <2>1
    <3>2. [lifetimeCoins EXCEPT ![From(r)] = @ + 0] = lifetimeCoins  BY <1>2, <1>6
    <3>3. QED BY <1>7, <2>1, <3>1, <3>2, Zenon
  <2>6. diamonds' = [diamonds EXCEPT ![To(r)] = @ + Earned(r)]
    <3>1. DiamondsLeft(r) = diamonds  BY <1>2, <1>6, <2>1 DEF DiamondsLeft
    <3>2. QED BY <1>7, <3>1
  <2>3. CASE credited[r]
    BY <1>3, <1>9, <2>3, <1>5, <1>7, <2>1, <2>2, <2>6, <1>2 DEF Earned, Books!Spend, Books!Next
  <2>4. CASE ~credited[r]
    <3>1. Earned(r) = 0  BY <2>4 DEF Earned
    <3>2. diamonds' = diamonds /\ lifetimeDiamonds' = lifetimeDiamonds  BY <1>2, <1>6, <1>7, <2>6, <3>1
    <3>3. Books!SpendUnearned(From(r), n)  BY <1>7, <2>1, <2>2, <3>2 DEF Books!SpendUnearned
    <3>4. QED BY <1>2, <1>3, <3>3 DEF Books!Next
  <2>5. QED BY <2>3, <2>4
<1>10. CASE Op(r) = "withdraw"
  <2>1. /\ Spent(r) = 0 /\ Bought(r) = 0 /\ Withdrawn(r) = n /\ Earned(r) = 0
        /\ From(r) \in balanceRows /\ diamonds[From(r)] >= n
    BY <1>4, <1>10 DEF Spent, Bought, Withdrawn, Earned, SpendsCoins, Balance
  <2>2. /\ coins' = coins /\ lifetimeCoins' = lifetimeCoins
        /\ lifetimeDiamonds' = lifetimeDiamonds
    BY <1>2, <1>6, <1>7, <2>1
  <2>3. diamonds' = [diamonds EXCEPT ![From(r)] = @ - n]
    <3>1. DiamondsLeft(r) = [diamonds EXCEPT ![From(r)] = @ - n]  BY <2>1 DEF DiamondsLeft
    <3>2. DiamondsLeft(r) \in [Users -> Int]  BY <1>2, <1>6, <3>1
    <3>3. [DiamondsLeft(r) EXCEPT ![To(r)] = @ + 0] = DiamondsLeft(r)  BY <1>2, <3>2
    <3>4. QED BY <1>7, <2>1, <3>1, <3>3, Zenon
  <2>4. Books!CashOut(From(r), n)  BY <1>7, <2>1, <2>2, <2>3 DEF Books!CashOut
  <2>5. QED BY <1>2, <1>3, <2>4 DEF Books!Next
<1>11. QED BY <1>2, <1>8, <1>9, <1>10 DEF Ops, SpendsCoins

\* A step is a transfer of the abstract ledger (a commit) or invisible to it.
LEMMA NextRefines == IInv /\ [Next]_vars => [Books!Next]_(Books!vars)
<1> SUFFICES ASSUME IInv, [Next]_vars PROVE Books!Next \/ UNCHANGED Books!vars  OBVIOUS
<1>1. CASE UNCHANGED vars  BY <1>1 DEF vars, tableVars, balanceVars, Books!vars
<1>2. ASSUME NEW r \in Requests,
             (\E k \in Keys : Receive(r, k)) \/ Proceed(r) \/ Abort(r)
      PROVE  Books!Next \/ UNCHANGED Books!vars
  <2>1. CASE Commit(r)  BY <2>1, CommitRefines
  <2>2. CASE InsertBalance(r)
    BY <2>2, IntentType DEF InsertBalance, PartyUser, IInv, TypeOK, balanceVars, Books!Open, Books!Next
  <2>3. CASE ~Commit(r) /\ ~InsertBalance(r)
    BY <1>2, <2>3
       DEF Proceed, Receive, CheckSubscription, FindWallet, InsertWallet,
           PayByCard, BeginTx, SelectForUpdate, RefuseDebit, Debit, Credit,
           LookupReceiver, CallPayout, MarkPayout, BreakDeadlock, Abort, Rollback,
           tableVars, balanceVars, Books!vars
  <2>4. QED BY <2>1, <2>2, <2>3
<1>3. QED BY <1>1, <1>2 DEF Next

\* At every commit the statements of a request, spread over many steps and
\* interleaved with other transactions, amount to one atomic funded operation.
THEOREM Refinement == Spec => ImplementsCoinLedger
<1>1. Init => Books!Init  BY InitRefines
<1>2. IInv /\ [Next]_vars => [Books!Next]_(Books!vars)  BY NextRefines
<1>3. QED BY <1>1, <1>2, InvariantHolds, PTL DEF Spec, ImplementsCoinLedger, Books!Spec

-----------------------------------------------------------------------------
(* The books.  What a request has behind it at each stage: the card was    *)
(* charged before a purchase goes on, the payee was credited before the    *)
(* commit, and only a committed withdrawal reaches Stripe.                 *)

BooksFit(r) ==
    /\ r \in committed => stage[r] \in PayoutStages \cup {"done"}
    /\ stage[r] \in PayoutStages => r \in committed /\ Op(r) = "withdraw"
    /\ payout[r] # "none" => r \in committed
    /\ stage[r] = "markProcessing" \/ payout[r] = "processing" => key[r] \in paidOut
    /\ Op(r) = "buy" /\ (stage[r] \in TxStages \cup {"begin"} \/ r \in committed) => key[r] \in charged
    /\ Op(r) # "withdraw" /\ Payee(r) \in Opening /\ (stage[r] \in {"lookup", "record"} \/ r \in committed)
           => credited[r]

PayoutsAreDebited == \A k \in paidOut : \E r \in committed : key[r] = k /\ Op(r) = "withdraw"

BooksInv ==
    /\ TypeOK /\ Opening \subseteq balanceRows
    /\ \A r \in Requests : BooksFit(r)
    /\ PayoutsAreDebited /\ OneEntryPerKey

\* The invariant is more than BooksAgree.
LEMMA BooksFollow == BooksInv => BooksAgree
<1> SUFFICES ASSUME BooksInv PROVE BooksAgree  OBVIOUS
<1>1. \A r \in committed : r \in Requests /\ BooksFit(r)  BY DEF BooksInv, TypeOK
<1>2. QED BY <1>1 DEF BooksInv, BooksFit, BooksAgree, MoneyFollowsTheBooks, PayoutsAreDebited

\* The initial state: nobody has asked for anything.
LEMMA BooksBegin == Init => BooksInv
<1> SUFFICES ASSUME Init PROVE BooksInv  OBVIOUS
<1>1. TypeOK  BY InitType
<1>2. \A r \in Requests : BooksFit(r)  BY DEF Init, BooksFit, PayoutStages, TxStages
<1>3. QED BY <1>1, <1>2 DEF Init, BooksInv, PayoutsAreDebited, OneEntryPerKey

\* A step of one request that commits nothing and pays nothing out.
LEMMA BooksStep ==
    ASSUME BooksInv, NEW r \in Requests, TypeOK', BooksFit(r)',
           balanceRows \subseteq balanceRows', charged \subseteq charged',
           UNCHANGED <<ledger, committed, paidOut>>,
           key'[r] = key[r] \/ r \notin committed,
           \A q \in Requests : q # r =>
               /\ stage'[q] = stage[q] /\ key'[q] = key[q]
               /\ payout'[q] = payout[q] /\ credited'[q] = credited[q]
    PROVE  BooksInv'
<1> USE DEF BooksInv
<1>1. ASSUME NEW q \in Requests, q # r PROVE BooksFit(q)'  BY <1>1 DEF BooksFit, Op, Payee, From, To
<1>2. \A q \in committed : q \in Requests /\ key'[q] = key[q]  BY DEF TypeOK
<1>3. PayoutsAreDebited'  BY <1>2 DEF PayoutsAreDebited, Op
<1>4. OneEntryPerKey'  BY <1>2 DEF OneEntryPerKey
<1>5. QED BY <1>1, <1>3, <1>4

\* A step that moves a request on and changes nothing the books tell but the card and the credit.
LEMMA BooksMove ==
    ASSUME BooksInv, NEW r \in Requests, NEW s \in Stages, TypeOK', MoveTo(r, s),
           UNCHANGED <<ledger, committed, paidOut, payout, key>>,
           balanceRows \subseteq balanceRows', charged \subseteq charged',
           credited' = credited \/ credited' = [credited EXCEPT ![r] = TRUE],
           stage[r] \notin PayoutStages \cup {"done"} \/ s = "done",
           s \notin PayoutStages,
           Op(r) = "buy" /\ s \in TxStages \cup {"begin"} =>
               stage[r] \in TxStages \cup {"begin"} \/ key[r] \in charged',
           Op(r) # "withdraw" /\ Payee(r) \in Opening /\ s \in {"lookup", "record"} =>
               stage[r] \in {"lookup", "record"} \/ credited'[r]
    PROVE  BooksInv'
<1> USE DEF BooksInv
<1>1. stage'[r] = s /\ \A q \in Requests : q # r => stage'[q] = stage[q]  BY DEF MoveTo, TypeOK
<1>2. credited[r] => credited'[r]  BY DEF TypeOK
<1>3. \A q \in Requests : q # r => credited'[q] = credited[q]  BY DEF TypeOK
<1>4. BooksFit(r)'  BY <1>1, <1>2 DEF BooksFit, PayoutStages, Op, Payee, From, To
<1>5. QED BY <1>1, <1>3, <1>4, BooksStep

\* What the client asks for again and again, one request each.
LEMMA ReceiveBooks ==
    ASSUME BooksInv, TypeOK', NEW r \in Requests, NEW k \in Keys, Receive(r, k)
    PROVE  BooksInv'
<1> USE DEF BooksInv
<1>1. /\ stage[r] = "idle" /\ r \notin committed
      /\ UNCHANGED <<balanceRows, ledger, committed, charged, paidOut, payout, credited>>
  BY DEF Receive, BooksFit, PayoutStages, tableVars, paymentVars
<1>2. /\ stage'[r] \in {"done", "active", "find"}
      /\ \A q \in Requests : q # r => stage'[q] = stage[q] /\ key'[q] = key[q]
  BY DEF Receive, MoveTo, TypeOK
<1>3. BooksFit(r)'  BY <1>1, <1>2 DEF BooksFit, PayoutStages, TxStages
<1>4. QED BY <1>1, <1>2, <1>3, BooksStep

\* Giving up leaves the books as they are.
LEMMA RollbackBooks ==
    ASSUME BooksInv, TypeOK', NEW r \in Requests, Rollback(r)
    PROVE  BooksInv'
<1>1. "done" \in Stages /\ "done" \notin PayoutStages \cup TxStages \cup {"begin"}
  BY DEF Stages, PayoutStages, TxStages
<1>2. /\ MoveTo(r, "done")
      /\ UNCHANGED <<ledger, committed, paidOut, payout, key, balanceRows, charged, credited>>
  BY DEF Rollback, tableVars, paymentVars
<1>3. QED BY <1>1, <1>2, BooksMove DEF BooksInv, TypeOK, TxStages

\* A wallet that is ensured leads to the other wallet, the card or the transaction.
LEMMA EnsuredBooks ==
    ASSUME BooksInv, TypeOK', NEW r \in Requests, WalletEnsured(r),
           stage[r] \in EnsureStages,
           UNCHANGED <<ledger, committed, paidOut, payout, key, charged, credited>>,
           balanceRows \subseteq balanceRows'
    PROVE  BooksInv'
<1>1. PICK s \in {"find", "pay", "begin"} : MoveTo(r, s) /\ (s = "begin" => Op(r) # "buy")
  BY DEF WalletEnsured
<1>2. s \in Stages /\ s \notin PayoutStages /\ stage[r] \notin PayoutStages \cup {"done"}
      /\ s \notin {"lookup", "record"} /\ s \notin TxStages
  BY <1>1 DEF Stages, PayoutStages, EnsureStages, TxStages
<1>3. QED BY <1>1, <1>2, BooksMove DEF BooksInv, TypeOK

\* A step before the transaction: a purchase goes on once the card was charged.
LEMMA BeforeTxBooks ==
    ASSUME BooksInv, TypeOK', NEW r \in Requests,
           CheckSubscription(r) \/ FindWallet(r) \/ InsertWallet(r) \/ InsertBalance(r)
           \/ PayByCard(r) \/ BeginTx(r)
    PROVE  BooksInv'
<1>1. CASE CheckSubscription(r)
  BY <1>1, BooksMove DEF CheckSubscription, tableVars, paymentVars, Stages, EnsureStages, PayoutStages,
     TxStages, BooksInv, TypeOK
<1>2. CASE FindWallet(r)
  BY <1>2, EnsuredBooks, BooksMove DEF FindWallet, tableVars, paymentVars, EnsureStages, Stages, PayoutStages,
     TxStages, BooksInv, TypeOK
<1>3. CASE InsertWallet(r)
  BY <1>3, BooksMove DEF InsertWallet, paymentVars, Stages, EnsureStages, PayoutStages, TxStages, BooksInv,
     TypeOK
<1>4. CASE InsertBalance(r)  BY <1>4, EnsuredBooks DEF InsertBalance, paymentVars, EnsureStages
<1>5. CASE PayByCard(r)
  BY <1>5, BooksMove DEF PayByCard, tableVars, Stages, EnsureStages, PayoutStages, TxStages, BooksInv, TypeOK
<1>6. CASE BeginTx(r)
  BY <1>6, BooksMove DEF BeginTx, tableVars, paymentVars, Stages, TxStages, PayoutStages, BooksInv, TypeOK
<1>7. QED BY <1>1, <1>2, <1>3, <1>4, <1>5, <1>6

\* The statements of the transaction: the payee who has a row is credited before the inserts.
LEMMA TxBooks ==
    ASSUME BooksInv, TypeOK', NEW r \in Requests,
           SelectForUpdate(r) \/ Debit(r) \/ Credit(r) \/ LookupReceiver(r)
    PROVE  BooksInv'
<1>1. CASE SelectForUpdate(r)
  BY <1>1, BooksMove DEF SelectForUpdate, tableVars, paymentVars, Stages, TxStages, PayoutStages, BooksInv,
     TypeOK
<1>2. CASE Debit(r)
  BY <1>2, BooksMove DEF Debit, tableVars, paymentVars, Stages, TxStages, PayoutStages, BooksInv, TypeOK
<1>3. CASE Credit(r)
  BY <1>3, BooksMove DEF Credit, AfterCredit, tableVars, paymentVars, Stages, TxStages, PayoutStages, BooksInv,
     TypeOK
<1>4. CASE LookupReceiver(r)
  BY <1>4, BooksMove DEF LookupReceiver, tableVars, paymentVars, Stages, TxStages, PayoutStages, BooksInv,
     TypeOK
<1>5. QED BY <1>1, <1>2, <1>3, <1>4

\* ON CONFLICT DO NOTHING adds an entry only where the key has none of its side.
LEMMA CommitBooks ==
    ASSUME BooksInv, TypeOK', NEW r \in Requests, Commit(r)
    PROVE  BooksInv'
<1> USE DEF BooksInv
<1>1. /\ stage[r] = "record" /\ ledger' = LedgerWith(r) /\ committed' = committed \cup {r}
      /\ UNCHANGED <<balanceRows, charged, paidOut, key, credited>>
      /\ IF Op(r) = "withdraw"
         THEN payout' = [payout EXCEPT ![r] = "pending"] /\ MoveTo(r, "payout")
         ELSE UNCHANGED payout /\ MoveTo(r, "done")
  BY DEF Commit
<1>2. /\ stage'[r] = IF Op(r) = "withdraw" THEN "payout" ELSE "done"
      /\ payout'[r] = IF Op(r) = "withdraw" THEN "pending" ELSE payout[r]
      /\ \A q \in Requests : q # r => stage'[q] = stage[q] /\ payout'[q] = payout[q]
  BY <1>1 DEF MoveTo, TypeOK
<1>3. Op(r)' = Op(r) /\ Payee(r)' = Payee(r)  BY <1>1 DEF Op, Payee, From, To
<1>4. BooksFit(r)'  BY <1>1, <1>2, <1>3 DEF BooksFit, PayoutStages, TxStages
<1>5. ASSUME NEW q \in Requests, q # r PROVE BooksFit(q)'
  BY <1>1, <1>2, <1>5 DEF BooksFit, Op, Payee, From, To
<1>6. PayoutsAreDebited'  BY <1>1 DEF PayoutsAreDebited, Op
<1>7. OneEntryPerKey'  BY <1>1 DEF LedgerWith, NewEntries, OneEntryPerKey
<1>8. QED BY <1>1, <1>4, <1>5, <1>6, <1>7

\* Only a committed withdrawal reaches Stripe, and "processing" is what Stripe has accepted.
LEMMA PayoutBooks ==
    ASSUME BooksInv, TypeOK', NEW r \in Requests, CallPayout(r) \/ MarkPayout(r)
    PROVE  BooksInv'
<1> USE DEF BooksInv
<1>1. CASE CallPayout(r)
  <2>1. stage[r] = "payout" /\ r \in committed /\ Op(r) = "withdraw"
    BY <1>1 DEF CallPayout, BooksFit, PayoutStages
  <2>2. PICK s \in {"markProcessing", "markFailed", "done"} :
            MoveTo(r, s) /\ (s = "markProcessing" => key[r] \in paidOut')
    BY <1>1 DEF CallPayout
  <2>3. /\ paidOut \subseteq paidOut' /\ paidOut' \subseteq paidOut \cup {key[r]}
        /\ UNCHANGED <<balanceRows, ledger, committed, charged, payout, key, credited>>
    BY <1>1 DEF CallPayout, tableVars
  <2>4. stage'[r] = s /\ \A q \in Requests : q # r => stage'[q] = stage[q]  BY <2>2 DEF MoveTo, TypeOK
  <2>5. BooksFit(r)'  BY <2>1, <2>2, <2>3, <2>4 DEF BooksFit, Op, Payee, From, To, PayoutStages, TxStages
  <2>6. ASSUME NEW q \in Requests, q # r PROVE BooksFit(q)'
    BY <2>3, <2>4, <2>6 DEF BooksFit, Op, Payee, From, To
  <2>7. PayoutsAreDebited'  BY <2>1, <2>3 DEF PayoutsAreDebited, Op
  <2>8. OneEntryPerKey'  BY <2>3 DEF OneEntryPerKey
  <2>9. QED BY <2>3, <2>5, <2>6, <2>7, <2>8
<1>2. CASE MarkPayout(r)
  <2>1. /\ stage[r] \in PayoutStages
        /\ MoveTo(r, "done")
        /\ payout' = [payout EXCEPT ![r] = IF stage[r] = "markProcessing" THEN "processing" ELSE "failed"]
        /\ UNCHANGED <<balanceRows, ledger, committed, charged, paidOut, key, credited>>
    BY <1>2 DEF MarkPayout, PayoutStages, tableVars
  <2>2. /\ stage'[r] = "done"
        /\ payout'[r] = IF stage[r] = "markProcessing" THEN "processing" ELSE "failed"
        /\ \A q \in Requests : q # r => stage'[q] = stage[q] /\ payout'[q] = payout[q]
    BY <2>1 DEF MoveTo, TypeOK
  <2>3. BooksFit(r)'  BY <2>1, <2>2 DEF BooksFit, Op, Payee, From, To, PayoutStages, TxStages
  <2>4. QED BY <2>1, <2>2, <2>3, BooksStep
<1>3. QED BY <1>1, <1>2

\* The invariant is inductive.
LEMMA BooksInductive == BooksInv /\ [Next]_vars => BooksInv'
<1> SUFFICES ASSUME BooksInv, [Next]_vars PROVE BooksInv'  OBVIOUS
<1>1. TypeOK'  BY NextType DEF BooksInv
<1>2. CASE UNCHANGED vars
  <2>1. UNCHANGED <<balanceRows, ledger, committed, charged, paidOut, payout, stage, key, credited>>
    BY <1>2 DEF vars, tableVars, paymentVars, requestVars
  <2>2. PayoutsAreDebited' /\ OneEntryPerKey' /\ \A r \in Requests : BooksFit(r)'
    BY <2>1 DEF BooksInv, BooksFit, PayoutsAreDebited, OneEntryPerKey, Op, Payee, From, To
  <2>3. QED BY <1>1, <2>1, <2>2 DEF BooksInv
<1>3. ASSUME NEW r \in Requests, NEW k \in Keys, Receive(r, k) PROVE BooksInv'  BY <1>1, <1>3, ReceiveBooks
<1>4. ASSUME NEW r \in Requests, Proceed(r) PROVE BooksInv'
  BY <1>1, BeforeTxBooks, TxBooks, CommitBooks, PayoutBooks, RollbackBooks, <1>4 DEF RefuseDebit,
     BreakDeadlock, Proceed
<1>5. ASSUME NEW r \in Requests, Abort(r) PROVE BooksInv'  BY <1>1, <1>5, RollbackBooks DEF Abort
<1>6. QED BY <1>2, <1>3, <1>4, <1>5 DEF Next

\* Ledger, card, payouts and balances tell one story in every interleaving of any number of
\* requests, repeats, aborts and lost answers (wallet_service.go, wallet_repository.go).
THEOREM BooksAlwaysAgree == Spec => []BooksAgree
<1>1. Spec => []BooksInv  BY BooksBegin, BooksInductive, PTL DEF Spec
<1>2. BooksInv => BooksAgree  BY BooksFollow
<1>3. QED BY <1>1, <1>2, PTL

=============================================================================
