------------------------------ MODULE MCWallet ------------------------------
(* Instances of Wallet for TLC. *)
EXTENDS Wallet, TLC

CONSTANTS alice, bob, kBuy, kGift, kBack, kTip, kSub, kOut

intent(op, from, to, amount) ==
    [op |-> op, from |-> from, to |-> to, amount |-> amount]

\* Operations of the two users; a run picks some of the keys.
MCIntent == [k \in Keys |->
    CASE k = kBuy -> intent("buy", alice, alice, 3)
      [] k = kGift -> intent("gift", alice, bob, 2)
      [] k = kBack -> intent("gift", bob, alice, 1)
      [] k = kTip -> intent("tip", alice, bob, 3)
      [] k = kSub -> intent("subscribe", alice, bob, 1)
      [] k = kOut -> intent("withdraw", bob, bob, 1)]

EverybodyOpen == Users
OnlyBobOpen == {bob}
ThreeCoins == [u \in Users |-> IF u \in Opening THEN 3 ELSE 0]
OneDiamond == [u \in Users |-> IF u \in Opening THEN 1 ELSE 0]
RequestSymmetry == Permutations(Requests)

=============================================================================
