----------------------------- MODULE MCRequests -----------------------------
(***************************************************************************)
(* Requests come to their end: those of the wallet-service, and those of   *)
(* the backend that share its connection pool.  The two share no state; a  *)
(* behaviour is one of theirs.                                             *)
(***************************************************************************)
EXTENDS MCWallet, ListPool

VARIABLE active
twoVars == <<active, vars, poolVars>>

TwoInit == active \in {"wallet", "pool"} /\ Init /\ PoolInit

InWallet(step) == active = "wallet" /\ step /\ UNCHANGED <<active, poolVars>>
InPool(step) == active = "pool" /\ step /\ UNCHANGED <<active, vars>>
TwoNext == InWallet(Next) \/ InPool(PoolNext)

\* The fairness of Wallet!FairSpec and of ListPool!PoolFairness.
TwoSpec ==
    /\ TwoInit /\ [][TwoNext]_twoVars
    /\ \A r \in Requests : WF_twoVars(InWallet(Proceed(r)))
    /\ \A r \in Listings : WF_twoVars(InPool(ListSteps(r)))
    /\ \A s \in Singles : WF_twoVars(InPool(SingleSteps(s)))

=============================================================================
