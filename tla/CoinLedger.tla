----------------------------- MODULE CoinLedger -----------------------------
(***************************************************************************)
(* What the wallet promises its users, without requests, statements, locks *)
(* or retries: an operation on the balances takes effect in one step, only *)
(* on funds that are there, and either entirely or not at all.  The one    *)
(* weakness of the code that shows at this level is an account without a   *)
(* balance row: what is credited to it is lost.                            *)
(***************************************************************************)
EXTENDS Integers

CONSTANTS
    Users,
    Amounts,          \* amounts that operations move
    DiamondsOf        \* DiamondsOf[n]: diamonds a creator earns from n coins

VARIABLES
    open,             \* users whose account can hold a balance
    coins, diamonds, lifetimeCoins, lifetimeDiamonds

vars == <<open, coins, diamonds, lifetimeCoins, lifetimeDiamonds>>

Init ==
    /\ open \subseteq Users
    /\ coins \in [Users -> Nat] /\ lifetimeCoins = coins
    /\ diamonds \in [Users -> Nat] /\ lifetimeDiamonds = diamonds

Open(u) ==
    /\ open' = open \cup {u}
    /\ UNCHANGED <<coins, diamonds, lifetimeCoins, lifetimeDiamonds>>

Purchase(u, n) ==
    /\ u \in open
    /\ coins' = [coins EXCEPT ![u] = @ + n]
    /\ lifetimeCoins' = [lifetimeCoins EXCEPT ![u] = @ + n]
    /\ UNCHANGED <<open, diamonds, lifetimeDiamonds>>

\* A fan's coins become a creator's diamonds, both or neither.
Spend(u, v, n) ==
    /\ u \in open /\ coins[u] >= n
    /\ coins' = [coins EXCEPT ![u] = @ - n]
    /\ v \in open
    /\ diamonds' = [diamonds EXCEPT ![v] = @ + DiamondsOf[n]]
    /\ lifetimeDiamonds' = [lifetimeDiamonds EXCEPT ![v] = @ + DiamondsOf[n]]
    /\ UNCHANGED <<open, lifetimeCoins>>

\* The earnings of a creator without a balance row are lost.  The row may be
\* created between the credit and the commit, so v may be open by now.
SpendUnearned(u, n) ==
    /\ u \in open /\ coins[u] >= n
    /\ coins' = [coins EXCEPT ![u] = @ - n]
    /\ UNCHANGED <<open, diamonds, lifetimeCoins, lifetimeDiamonds>>

CashOut(u, n) ==
    /\ u \in open /\ diamonds[u] >= n
    /\ diamonds' = [diamonds EXCEPT ![u] = @ - n]
    /\ UNCHANGED <<open, coins, lifetimeCoins, lifetimeDiamonds>>

Next ==
    \E u \in Users :
        \/ Open(u)
        \/ \E n \in Amounts :
              \/ Purchase(u, n)
              \/ \E v \in Users : Spend(u, v, n)
              \/ SpendUnearned(u, n)
              \/ CashOut(u, n)

Spec == Init /\ [][Next]_vars
=============================================================================
