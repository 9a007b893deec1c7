---- MODULE StoresProofs ----
\* Proofs about what is kept beside the tables, and about the shop.
EXTENDS MCStores, FiniteSetTheorems, TLAPS

\* Sums of units, as numbers of them.

\* One's own units are as many as they are said to be.
LEMMA OwnUnits == ASSUME NEW g, NEW n \in Nat
                  PROVE  IsFiniteSet({g} \X (1..n)) /\ Cardinality({g} \X (1..n)) = n
<1>1. IsFiniteSet(1..n) /\ Cardinality(1..n) = n  BY FS_Interval
<1>2. IsFiniteSet({g}) /\ Cardinality({g}) = 1  BY FS_Singleton
<1>3. /\ IsFiniteSet({g} \X (1..n))
      /\ Cardinality({g} \X (1..n)) = Cardinality({g}) * Cardinality(1..n)
  BY <1>1, <1>2, FS_Product
<1>4. 1 * n = n  OBVIOUS
<1> QED BY <1>1, <1>2, <1>3, <1>4

\* A sum is what one has and what the others have.
LEMMA UnitsSplit ==
    ASSUME NEW S, IsFiniteSet(S), NEW h \in [S -> Nat], NEW g \in S
    PROVE  LET others == UNION {{x} \X (1..h[x]) : x \in S \ {g}}
           IN Cardinality(others) \in Nat /\ UnitsOf(h) = Cardinality(others) + h[g]
<1> DEFINE of(x) == {x} \X (1..h[x])
           others == UNION {of(x) : x \in S \ {g}}
<1>1. \A x \in S : IsFiniteSet(of(x)) /\ Cardinality(of(x)) = h[x]  BY OwnUnits
<1>2. IsFiniteSet(others)
  <2> DEFINE parts == {of(x) : x \in S \ {g}}
  <2>1. [x \in S \ {g} |-> of(x)] \in Surjection(S \ {g}, parts)  BY DEF Surjection
  <2>2. \A p \in parts : IsFiniteSet(p)  BY <1>1
  <2>3. IsFiniteSet(S \ {g})  BY FS_Subset
  <2> HIDE DEF parts
  <2>4. IsFiniteSet(UNION parts)  BY <2>1, <2>2, <2>3, FS_Surjection, FS_UNION
  <2> QED BY <2>4 DEF parts
<1>3. UNION {{x} \X (1..h[x]) : x \in DOMAIN h} = others \cup of(g)  OBVIOUS
<1>4. others \cap of(g) = {}  OBVIOUS
<1>5. UnitsOf(h) = Cardinality(others \cup of(g))  BY <1>3 DEF UnitsOf
<1> HIDE DEF of, others
<1>6. Cardinality(others \cup of(g)) = Cardinality(others) + Cardinality(of(g))
  <2>1. IsFiniteSet(of(g))  BY <1>1
  <2>2. Cardinality(others) \in Nat /\ Cardinality(of(g)) \in Nat  BY <1>2, <2>1, FS_CardinalityType
  <2>3. Cardinality(others \cup of(g))
           = Cardinality(others) + Cardinality(of(g)) - Cardinality(others \cap of(g))
    BY <1>2, <2>1, FS_Union
  <2>4. Cardinality(others \cap of(g)) = 0  BY <1>4, FS_EmptySet
  <2> QED BY <2>2, <2>3, <2>4
<1>7. Cardinality(others) \in Nat  BY <1>2, FS_CardinalityType
<1> QED BY <1>1, <1>5, <1>6, <1>7 DEF others, of

\* When one of them changes, the sum changes by as much.
LEMMA UnitsMove ==
    ASSUME NEW S, IsFiniteSet(S), NEW h \in [S -> Nat], NEW k \in [S -> Nat], NEW g \in S,
           \A x \in S \ {g} : k[x] = h[x]
    PROVE  /\ UnitsOf(h) \in Nat /\ UnitsOf(k) \in Nat
           /\ UnitsOf(k) + h[g] = UnitsOf(h) + k[g]
<1> DEFINE rest(f) == Cardinality(UNION {{x} \X (1..f[x]) : x \in S \ {g}})
<1>1. rest(h) \in Nat /\ UnitsOf(h) = rest(h) + h[g]  BY UnitsSplit
<1>2. rest(k) \in Nat /\ UnitsOf(k) = rest(k) + k[g]  BY UnitsSplit
<1>3. rest(k) = rest(h)  OBVIOUS
<1>4. h[g] \in Nat /\ k[g] \in Nat  OBVIOUS
<1> HIDE DEF rest
<1> QED BY <1>1, <1>2, <1>3, <1>4

--------
\* The cart of a buyer: what is put in, held and ordered.

\* A request knows the item it is about and its units; only who orders, or is through, has an
\* order; and who gives stock back has seen a statement fail.
CallFits(c) ==
    /\ cartCall[c].step \in {"set", "delete"} => cartCall[c].item # {}
    /\ cartCall[c].step = "set" => cartCall[c].units > 0
    /\ cartCall[c].step = "delete" => cartCall[c].units = 0
    /\ cartCall[c].step = "soft" /\ cartCall[c].kind = "quantity" =>
          cartCall[c].item # {} /\ cartCall[c].units > 0
    /\ cartCall[c].step = "soft" /\ cartCall[c].kind # "checkout" => cartCall[c].units > 0
    /\ cartCall[c].step \in {"find", "create", "upsert"} => cartCall[c].units > 0
    /\ cartCall[c].step \notin {"clear", "ended"} => ordered[c] = 0
    /\ cartCall[c].step = "release" => cartFaults > 0
CartCallsFit == \A c \in CartCalls : CallFits(c)

\* What was ordered is still in the cart until that is cleared.
InClears == UnitsOf([c \in CartCalls |-> IF cartCall[c].step = "clear" THEN cartCall[c].units ELSE 0])
UnitsAddUp == ~changedMeanwhile /\ cartFaults = 0 => put + InClears = InCarts + InOrders

\* There is one cart or one about to be made, and one more for each failure.
CartsToCome == Cardinality(carts) + Cardinality(CartsAt("create"))
CartsComing == ~missedAtOnce => CartsToCome <= 1 + cartFaults

CartInv == CartTypeOK /\ CartCallsFit /\ UnitsAddUp /\ StockIsHeld /\ CartsComing

HeldBy(c) == IF cartCall[c].step \in {"order", "release"} THEN cartCall[c].units ELSE 0
ClearsOf(c) == IF cartCall[c].step = "clear" THEN cartCall[c].units ELSE 0

\* A step of one request moves what it holds, its order and the line of one cart.
LEMMA CartSums ==
    ASSUME CartTypeOK, CartTypeOK', NEW c \in CartCalls, NEW g \in CartCalls,
           \A d \in CartCalls \ {c} : cartCall'[d] = cartCall[d] /\ ordered'[d] = ordered[d],
           \A h \in CartCalls \ {g} : line'[h] = line[h]
    PROVE  /\ InCarts \in Nat /\ InOrders \in Nat /\ Held \in Nat /\ InClears \in Nat
           /\ InCarts' \in Nat /\ InOrders' \in Nat /\ Held' \in Nat /\ InClears' \in Nat
           /\ InCarts' + line[g].qty = InCarts + line'[g].qty
           /\ InOrders' + ordered[c] = InOrders + ordered'[c]
           /\ Held' + HeldBy(c) = Held + HeldBy(c)'
           /\ InClears' + ClearsOf(c) = InClears + ClearsOf(c)'
<1>0. IsFiniteSet(CartCalls)  BY CartAssumption
<1>1. PICK in, in2 : in = [h \in CartCalls |-> line[h].qty] /\ in2 = [h \in CartCalls |-> line'[h].qty]
  OBVIOUS
<1>2. PICK held, held2 : held = [d \in CartCalls |-> HeldBy(d)] /\ held2 = [d \in CartCalls |-> HeldBy(d)']
  OBVIOUS
<1>3. PICK out, out2 : out = [d \in CartCalls |-> ClearsOf(d)] /\ out2 = [d \in CartCalls |-> ClearsOf(d)']
  OBVIOUS
<1>4. \A x \in {in, in2, held, held2, out, out2, ordered, ordered'} : x \in [CartCalls -> Nat]
  <2>1. {in, in2, ordered, ordered'} \subseteq [CartCalls -> Nat]  BY <1>1 DEF CartTypeOK
  <2>2. \A d \in CartCalls : cartCall[d].units \in Nat /\ cartCall'[d].units \in Nat  BY DEF CartTypeOK
  <2>3. \A d \in CartCalls : {HeldBy(d), HeldBy(d)', ClearsOf(d), ClearsOf(d)'} \subseteq Nat
    BY <2>2 DEF HeldBy, ClearsOf
  <2>4. {held, held2} \subseteq [CartCalls -> Nat]  BY <1>2, <2>3
  <2>5. {out, out2} \subseteq [CartCalls -> Nat]  BY <1>3, <2>3
  <2> QED BY <2>1, <2>4, <2>5
<1>5. /\ InCarts = UnitsOf(in) /\ InOrders = UnitsOf(ordered)
      /\ InCarts' = UnitsOf(in2) /\ InOrders' = UnitsOf(ordered')
  BY <1>1 DEF InCarts, InOrders, UnitsOf
<1>6. Held = UnitsOf(held) /\ Held' = UnitsOf(held2)  BY <1>2 DEF Held, UnitsOf, HeldBy
<1>7. InClears = UnitsOf(out) /\ InClears' = UnitsOf(out2)  BY <1>3 DEF InClears, UnitsOf, ClearsOf
<1>8. \A d \in CartCalls \ {c} : HeldBy(d)' = HeldBy(d) /\ ClearsOf(d)' = ClearsOf(d)  BY DEF HeldBy, ClearsOf
<1>9. /\ UnitsOf(in) \in Nat /\ UnitsOf(in2) \in Nat
      /\ UnitsOf(in2) + in[g] = UnitsOf(in) + in2[g]
  <2>1. \A x \in CartCalls \ {g} : in2[x] = in[x]  BY <1>1
  <2>2. in \in [CartCalls -> Nat] /\ in2 \in [CartCalls -> Nat]  BY <1>4
  <2> QED BY <1>0, <2>1, <2>2, UnitsMove
<1>10. /\ UnitsOf(ordered) \in Nat /\ UnitsOf(ordered') \in Nat
       /\ UnitsOf(ordered') + ordered[c] = UnitsOf(ordered) + ordered'[c]
  <2>1. PICK old, new : old = ordered /\ new = ordered'  OBVIOUS
  <2>2. old \in [CartCalls -> Nat] /\ new \in [CartCalls -> Nat] /\ \A x \in CartCalls \ {c} : new[x] = old[x]
    BY <1>4, <2>1
  <2>3. UnitsOf(old) \in Nat /\ UnitsOf(new) \in Nat /\ UnitsOf(new) + old[c] = UnitsOf(old) + new[c]
    BY <1>0, <2>2, UnitsMove
  <2> QED BY <2>1, <2>3
<1>11. /\ UnitsOf(held) \in Nat /\ UnitsOf(held2) \in Nat
       /\ UnitsOf(held2) + held[c] = UnitsOf(held) + held2[c]
  <2>1. \A x \in CartCalls \ {c} : held2[x] = held[x]  BY <1>2, <1>8
  <2>2. held \in [CartCalls -> Nat] /\ held2 \in [CartCalls -> Nat]  BY <1>4
  <2> QED BY <1>0, <2>1, <2>2, UnitsMove
<1>12. /\ UnitsOf(out) \in Nat /\ UnitsOf(out2) \in Nat
       /\ UnitsOf(out2) + out[c] = UnitsOf(out) + out2[c]
  <2>1. \A x \in CartCalls \ {c} : out2[x] = out[x]  BY <1>3, <1>8
  <2>2. out \in [CartCalls -> Nat] /\ out2 \in [CartCalls -> Nat]  BY <1>4
  <2> QED BY <1>0, <2>1, <2>2, UnitsMove
<1>13. in[g] = line[g].qty /\ in2[g] = line'[g].qty  BY <1>1
<1>14. held[c] = HeldBy(c) /\ held2[c] = HeldBy(c)' /\ out[c] = ClearsOf(c) /\ out2[c] = ClearsOf(c)'
  BY <1>2, <1>3
<1> QED BY <1>5, <1>6, <1>7, <1>9, <1>10, <1>11, <1>12, <1>13, <1>14

\* What a request holds is part of what is held.
LEMMA CartHolds ==
    ASSUME CartTypeOK, NEW c \in CartCalls
    PROVE  Held \in Nat /\ InOrders \in Nat /\ HeldBy(c) <= Held
<1>1. PICK held : held = [d \in CartCalls |-> HeldBy(d)]  OBVIOUS
<1>2. Held = UnitsOf(held)  BY <1>1 DEF Held, UnitsOf, HeldBy
<1>3. \A d \in CartCalls : HeldBy(d) \in Nat  BY DEF CartTypeOK, HeldBy
<1>4. held \in [CartCalls -> Nat] /\ IsFiniteSet(CartCalls) /\ held[c] = HeldBy(c)
  BY <1>1, <1>3, CartAssumption
<1>5. PICK n : n = Cardinality(UNION {{x} \X (1..held[x]) : x \in CartCalls \ {c}})  OBVIOUS
<1>6. n \in Nat /\ UnitsOf(held) = n + held[c]  BY <1>4, <1>5, UnitsSplit
<1>7. InOrders \in Nat  BY <1>4, UnitsMove DEF InOrders, CartTypeOK
<1> QED BY <1>2, <1>3, <1>4, <1>6, <1>7

\* The sums in numbers: what was in balance stays so, if what is moved is.
LEMMA UnitsBalance ==
    ASSUME NEW c \in CartCalls, NEW g \in CartCalls, put \in Int, put' \in Int,
           InCarts \in Nat, InCarts' \in Nat, InOrders \in Nat, InOrders' \in Nat,
           InClears \in Nat, InClears' \in Nat, ClearsOf(c) \in Nat, ClearsOf(c)' \in Nat,
           line[g].qty \in Nat, line'[g].qty \in Nat, ordered[c] \in Nat, ordered'[c] \in Nat,
           InCarts' + line[g].qty = InCarts + line'[g].qty,
           InOrders' + ordered[c] = InOrders + ordered'[c],
           InClears' + ClearsOf(c) = InClears + ClearsOf(c)',
           put + InClears = InCarts + InOrders,
           (put' + ClearsOf(c)') + (line[g].qty + ordered[c]) = (put + ClearsOf(c)) + (line'[g].qty + ordered'[c])
    PROVE  put' + InClears' = InCarts' + InOrders'
<1>1. PICK p \in Int, p2 \in Int, l \in Int, l2 \in Int, v \in Int, v2 \in Int :
         /\ p = put /\ p2 = put' /\ l = InClears /\ l2 = InClears' /\ v = ClearsOf(c) /\ v2 = ClearsOf(c)'
  OBVIOUS
<1>2. PICK i \in Int, i2 \in Int, q \in Int, q2 \in Int :
         i = InCarts /\ i2 = InCarts' /\ q = line[g].qty /\ q2 = line'[g].qty
  OBVIOUS
<1>3. PICK o \in Int, o2 \in Int, u \in Int, u2 \in Int :
         o = InOrders /\ o2 = InOrders' /\ u = ordered[c] /\ u2 = ordered'[c]
  OBVIOUS
<1>4. i2 + q = i + q2 /\ o2 + u = o + u2 /\ l2 + v = l + v2  BY <1>1, <1>2, <1>3
<1>5. p + l = i + o /\ (p2 + v2) + (q + u) = (p + v) + (q2 + u2)  BY <1>1, <1>2, <1>3
<1>6. p2 + l2 = i2 + o2  BY <1>4, <1>5
<1> QED BY <1>1, <1>2, <1>3, <1>6

\* The same for what is reserved, of which some may be lost.
LEMMA StockBalance ==
    ASSUME NEW c \in CartCalls, NEW lost \in Nat, reservedQty \in Nat, reservedQty' \in Nat,
           InOrders \in Nat, InOrders' \in Nat, Held \in Nat, Held' \in Nat,
           HeldBy(c) \in Nat, HeldBy(c)' \in Nat, ordered[c] \in Nat, ordered'[c] \in Nat,
           InOrders' + ordered[c] = InOrders + ordered'[c],
           Held' + HeldBy(c) = Held + HeldBy(c)',
           (HeldBy(c)' + ordered'[c]) + (reservedQty + lost) = (HeldBy(c) + ordered[c]) + reservedQty',
           Held + InOrders <= reservedQty
    PROVE  /\ Held' + InOrders' <= reservedQty'
           /\ lost = 0 /\ reservedQty = Held + InOrders => reservedQty' = Held' + InOrders'
<1>1. PICK r \in Int, r2 \in Int, h \in Int, h2 \in Int, v \in Int, v2 \in Int :
         /\ r = reservedQty /\ r2 = reservedQty' /\ h = Held /\ h2 = Held'
         /\ v = HeldBy(c) /\ v2 = HeldBy(c)'
  OBVIOUS
<1>2. PICK o \in Int, o2 \in Int, u \in Int, u2 \in Int :
         o = InOrders /\ o2 = InOrders' /\ u = ordered[c] /\ u2 = ordered'[c]
  OBVIOUS
<1>3. o2 + u = o + u2 /\ h2 + v = h + v2  BY <1>1, <1>2
<1>4. (v2 + u2) + (r + lost) = (v + u) + r2 /\ h + o <= r  BY <1>1, <1>2
<1>5. h2 + o2 <= r2 /\ (lost = 0 /\ r = h + o => r2 = h2 + o2)  BY <1>3, <1>4
<1> QED BY <1>1, <1>2, <1>5

\* What one step does to the sums decides whether they still agree.
LEMMA CartAddsUp ==
    ASSUME CartInv, CartTypeOK', NEW c \in CartCalls, NEW g \in CartCalls,
           \A d \in CartCalls \ {c} : cartCall'[d] = cartCall[d] /\ ordered'[d] = ordered[d],
           \A h \in CartCalls \ {g} : line'[h] = line[h],
           UnitsAddUp' \/ (/\ UnitsAddUp /\ ~changedMeanwhile /\ cartFaults = 0
                           /\ (put' + ClearsOf(c)') + (line[g].qty + ordered[c])
                                 = (put + ClearsOf(c)) + (line'[g].qty + ordered'[c])),
           NEW lost \in Nat,
           (HeldBy(c)' + ordered'[c]) + (reservedQty + lost) = (HeldBy(c) + ordered[c]) + reservedQty',
           cartFaults' = 0 => lost = 0 /\ cartFaults = 0
    PROVE  UnitsAddUp' /\ StockIsHeld'
<1>1. /\ InCarts \in Nat /\ InOrders \in Nat /\ Held \in Nat /\ InClears \in Nat
      /\ InCarts' \in Nat /\ InOrders' \in Nat /\ Held' \in Nat /\ InClears' \in Nat
      /\ InCarts' + line[g].qty = InCarts + line'[g].qty
      /\ InOrders' + ordered[c] = InOrders + ordered'[c]
      /\ Held' + HeldBy(c) = Held + HeldBy(c)'
      /\ InClears' + ClearsOf(c) = InClears + ClearsOf(c)'
  <2>1. CartTypeOK  BY DEF CartInv
  <2> QED BY <2>1, CartSums
<1>2. /\ line[g].qty \in Nat /\ line'[g].qty \in Nat /\ ordered[c] \in Nat /\ ordered'[c] \in Nat
      /\ reservedQty \in Nat /\ reservedQty' \in Nat /\ put \in Int /\ put' \in Int
  BY CartAssumption DEF CartInv, CartTypeOK
<1>3. HeldBy(c) \in Nat /\ HeldBy(c)' \in Nat /\ ClearsOf(c) \in Nat /\ ClearsOf(c)' \in Nat
  BY DEF CartInv, CartTypeOK, HeldBy, ClearsOf
<1>4. UnitsAddUp'  BY <1>1, <1>2, <1>3, UnitsBalance DEF UnitsAddUp
<1>5. Held + InOrders <= reservedQty /\ (cartFaults = 0 => reservedQty = Held + InOrders)
  BY DEF CartInv, StockIsHeld
<1>6. /\ Held' + InOrders' <= reservedQty'
      /\ lost = 0 /\ reservedQty = Held + InOrders => reservedQty' = Held' + InOrders'
  BY <1>1, <1>2, <1>3, <1>5, StockBalance
<1> QED BY <1>4, <1>5, <1>6 DEF StockIsHeld

CartRecords == [step : CartSteps, kind : CartKinds, units : Nat, cart : CartCalls, item : SUBSET CartCalls]
OthersShop(c) == \A d \in CartCalls \ {c} : cartCall'[d] = cartCall[d]

\* How many are about to make a cart changes with the request that steps.
LEMMA CreatorsAre ==
    ASSUME CartInv, NEW c \in CartCalls, OthersShop(c)
    PROVE  /\ Cardinality(carts) \in Nat /\ Cardinality(CartsAt("create")) \in Nat /\ cartFaults \in Nat
           /\ Cardinality(carts \cup {c}) \in Nat /\ Cardinality(carts \cup {c}) <= Cardinality(carts) + 1
           /\ (cartCall[c].step = "create") = (cartCall'[c].step = "create")
                 => CartsAt("create")' = CartsAt("create")
           /\ cartCall[c].step = "create" /\ cartCall'[c].step # "create"
                 => Cardinality(CartsAt("create")') = Cardinality(CartsAt("create")) - 1
           /\ cartCall[c].step # "create" /\ cartCall'[c].step = "create"
                 => Cardinality(CartsAt("create")') = Cardinality(CartsAt("create")) + 1
<1>1. /\ IsFiniteSet(carts) /\ IsFiniteSet(CartsAt("create")) /\ cartFaults \in Nat
  <2>1. carts \subseteq CartCalls /\ CartsAt("create") \subseteq CartCalls /\ IsFiniteSet(CartCalls)
    BY CartAssumption DEF CartInv, CartTypeOK, CartsAt
  <2>2. cartFaults \in Nat  BY CartAssumption DEF CartInv, CartTypeOK
  <2> QED BY <2>1, <2>2, FS_Subset
<1>2. Cardinality(carts) \in Nat /\ Cardinality(CartsAt("create")) \in Nat  BY <1>1, FS_CardinalityType
<1>3. Cardinality(carts \cup {c}) = Cardinality(carts) \/ Cardinality(carts \cup {c}) = Cardinality(carts) + 1
  BY <1>1, FS_AddElement
<1>4. ASSUME (cartCall[c].step = "create") = (cartCall'[c].step = "create")
      PROVE  CartsAt("create")' = CartsAt("create")
  BY <1>4 DEF CartsAt, OthersShop
<1>5. ASSUME cartCall[c].step = "create", cartCall'[c].step # "create"
      PROVE  Cardinality(CartsAt("create")') = Cardinality(CartsAt("create")) - 1
  <2>1. CartsAt("create")' = CartsAt("create") \ {c} /\ c \in CartsAt("create")  BY <1>5 DEF CartsAt, OthersShop
  <2> QED BY <1>1, <2>1, FS_RemoveElement
<1>6. ASSUME cartCall[c].step # "create", cartCall'[c].step = "create"
      PROVE  Cardinality(CartsAt("create")') = Cardinality(CartsAt("create")) + 1
  <2>1. CartsAt("create")' = CartsAt("create") \cup {c} /\ c \notin CartsAt("create")  BY <1>6 DEF CartsAt, OthersShop
  <2> QED BY <1>1, <2>1, FS_AddElement
<1> QED BY <1>1, <1>2, <1>3, <1>4, <1>5, <1>6

\* A step by which none comes to make a cart, and none is made.
LEMMA NoCartComes ==
    ASSUME CartInv, NEW c \in CartCalls, OthersShop(c), cartCall[c].step # "create", cartCall'[c].step # "create",
           carts' = carts, missedAtOnce' = missedAtOnce, cartFaults' \in Nat, cartFaults' >= cartFaults
    PROVE  CartsComing'
<1>1. /\ CartsAt("create")' = CartsAt("create") /\ Cardinality(carts) \in Nat
      /\ Cardinality(CartsAt("create")) \in Nat /\ cartFaults \in Nat
  BY CreatorsAre
<1>2. ~missedAtOnce => CartsToCome <= 1 + cartFaults  BY DEF CartInv, CartsComing
<1>3. CartsToCome' = CartsToCome /\ CartsToCome \in Nat  BY <1>1 DEF CartsToCome
<1>4. PICK k \in Nat, f \in Nat, f2 \in Nat : k = CartsToCome /\ f = cartFaults /\ f2 = cartFaults' /\ f2 >= f
  BY <1>1, <1>3
<1>5. k <= 1 + f => k <= 1 + f2
  <2>1. f <= f2  BY <1>4
  <2> QED BY <2>1
<1>6. ~missedAtOnce' => ~missedAtOnce  OBVIOUS
<1>7. ~missedAtOnce => k <= 1 + f  BY <1>2, <1>4
<1>8. CartsToCome' = k /\ cartFaults' = f2  BY <1>3, <1>4
<1> QED BY <1>5, <1>6, <1>7, <1>8 DEF CartsComing

\* Where a request goes next.
LEMMA CartGoesOn ==
    ASSUME CartInv, NEW c \in CartCalls, NEW step \in CartSteps, CartGoes(c, step)
    PROVE  /\ cartCall' \in [CartCalls -> CartRecords] /\ OthersShop(c)
           /\ cartCall'[c] = [cartCall[c] EXCEPT !.step = step]
BY DEF CartInv, CartTypeOK, CartRecords, CartGoes, OthersShop

\* A request turns into another record; the others do not.
LEMMA CartTurns ==
    ASSUME CartInv, NEW c \in CartCalls, NEW new \in CartRecords, cartCall' = [cartCall EXCEPT ![c] = new]
    PROVE  cartCall' \in [CartCalls -> CartRecords] /\ OthersShop(c) /\ cartCall'[c] = new
BY DEF CartInv, CartTypeOK, CartRecords, OthersShop

\* A request begins with what it is asked for, and changes no row.
LEMMA CartBeginsWith ==
    ASSUME CartInv, NEW c \in CartCalls, NEW kind \in CartKinds, NEW step \in CartSteps, NEW units \in Nat,
           NEW cart \in CartCalls, NEW item \in SUBSET CartCalls, CartBegins(c, kind, step, units, cart, item)
    PROVE  /\ cartCall' \in [CartCalls -> CartRecords] /\ OthersShop(c) /\ cartCall[c].step = "new"
           /\ cartCall'[c] = [step |-> step, kind |-> kind, units |-> units, cart |-> cart, item |-> item]
           /\ carts' = carts /\ line' = line /\ reservedQty' = reservedQty /\ ordered' = ordered /\ put' = put
           /\ missedAtOnce' = missedAtOnce /\ changedMeanwhile' = changedMeanwhile /\ cartFaults' = cartFaults
BY DEF CartInv, CartTypeOK, CartRecords, CartBegins, OthersShop

\* A step by which no units move keeps everything but what it says of its own request.
LEMMA CartIsQuiet ==
    ASSUME CartInv, NEW c \in CartCalls, cartCall' \in [CartCalls -> CartRecords], OthersShop(c), CallFits(c)',
           cartCall[c].step \notin {"order", "release", "clear"},
           cartCall'[c].step \notin {"order", "release", "clear"},
           line' = line, reservedQty' = reservedQty, ordered' = ordered, put' = put,
           changedMeanwhile' = changedMeanwhile, cartFaults' = cartFaults,
           carts' \subseteq CartCalls, missedAtOnce' \in BOOLEAN, CartsComing'
    PROVE  CartInv'
<1>1. CartTypeOK'  BY DEF CartInv, CartTypeOK, CartRecords
<1>2. CartCallsFit'  BY DEF CartInv, CartCallsFit, CallFits, OthersShop
<1>3. HeldBy(c) = 0 /\ HeldBy(c)' = 0 /\ ClearsOf(c) = 0 /\ ClearsOf(c)' = 0  BY DEF HeldBy, ClearsOf
<1>4. UnitsAddUp' \/ (UnitsAddUp /\ ~changedMeanwhile /\ cartFaults = 0)  BY DEF CartInv, UnitsAddUp
<1>5. UnitsAddUp' /\ StockIsHeld'
  <2>1. /\ \A d \in CartCalls \ {c} : cartCall'[d] = cartCall[d] /\ ordered'[d] = ordered[d]
        /\ \A h \in CartCalls \ {c} : line'[h] = line[h]
    BY DEF OthersShop
  <2>2. /\ ordered[c] \in Nat /\ reservedQty \in Nat /\ line[c].qty \in Nat /\ put \in Int
    BY CartAssumption DEF CartInv, CartTypeOK
  <2>3. (HeldBy(c)' + ordered'[c]) + (reservedQty + 0) = (HeldBy(c) + ordered[c]) + reservedQty'
    BY <1>3, <2>2
  <2>4. (put' + ClearsOf(c)') + (line[c].qty + ordered[c]) = (put + ClearsOf(c)) + (line'[c].qty + ordered'[c])
    BY <1>3, <2>2
  <2>5. cartFaults' = 0 => 0 = 0 /\ cartFaults = 0  OBVIOUS
  <2> QED BY <1>1, <1>4, <2>1, <2>3, <2>4, <2>5, CartAddsUp
<1> QED BY <1>1, <1>2, <1>5 DEF CartInv

\* A request begins.
LEMMA CartRequestBegins ==
    ASSUME CartInv, NEW c \in CartCalls,
           AddToCart(c) \/ UpdateQuantity(c) \/ RemoveFromCart(c) \/ CheckoutCart(c)
    PROVE  CartInv'
<1>1. ASSUME NEW kind \in CartKinds, NEW step \in {"soft", "set", "delete"}, NEW units \in Nat,
             NEW g \in CartCalls, NEW item \in SUBSET CartCalls, CartBegins(c, kind, step, units, g, item),
             kind \in {"quantity", "remove"} => item # {},
             kind \in {"add", "quantity"} => units > 0, step = "set" => kind = "quantity",
             step = "delete" <=> kind = "remove", kind = "remove" => units = 0
      PROVE  CartInv'
  <2>1. step \in CartSteps  BY DEF CartSteps
  <2>2. /\ cartCall' \in [CartCalls -> CartRecords] /\ OthersShop(c) /\ cartCall[c].step = "new"
        /\ cartCall'[c] = [step |-> step, kind |-> kind, units |-> units, cart |-> g, item |-> item]
        /\ carts' = carts /\ line' = line /\ reservedQty' = reservedQty /\ ordered' = ordered /\ put' = put
        /\ missedAtOnce' = missedAtOnce /\ changedMeanwhile' = changedMeanwhile /\ cartFaults' = cartFaults
    BY <1>1, <2>1, CartBeginsWith
  <2>3. ordered[c] = 0  BY <2>2 DEF CartInv, CartCallsFit, CallFits
  <2>4. CallFits(c)'  BY <2>2, <1>1, <2>3 DEF CallFits, CartKinds
  <2>5. carts' \subseteq CartCalls /\ missedAtOnce' \in BOOLEAN /\ cartFaults \in Nat
    BY <2>2, CartAssumption DEF CartInv, CartTypeOK
  <2>6. cartCall'[c].step \notin {"order", "release", "clear", "create"}  BY <2>2
  <2>7. CartsComing'  BY <2>2, <2>5, <2>6, NoCartComes
  <2> QED BY <2>2, <2>4, <2>5, <2>6, <2>7, CartIsQuiet
<1>2. /\ carts \subseteq CartCalls /\ \A q \in Units : q \in Nat /\ q > 0
      /\ \A g \in CartCalls : line[g].id \in SUBSET CartCalls /\ line[g].qty \in Nat
  BY CartAssumption DEF CartInv, CartTypeOK
<1>3. CASE AddToCart(c)  BY <1>1, <1>2, <1>3 DEF AddToCart, CartKinds
<1>4. CASE UpdateQuantity(c)  BY <1>4, <1>1, <1>2 DEF UpdateQuantity, CartKinds
<1>5. CASE RemoveFromCart(c)  BY <1>1, <1>2, <1>5 DEF RemoveFromCart, CartKinds
<1>6. CASE CheckoutCart(c)  BY <1>1, <1>2, <1>6 DEF CheckoutCart, CartKinds
<1> QED BY <1>3, <1>4, <1>5, <1>6

\* A request finds the stock, the cart, or what to order.
LEMMA CartRequestFinds ==
    ASSUME CartInv, NEW c \in CartCalls, GetInventory(c) \/ GetCart(c) \/ CreateCart(c) \/ GetCartByID(c)
    PROVE  CartInv'
<1>1. /\ line' = line /\ reservedQty' = reservedQty /\ ordered' = ordered /\ put' = put
      /\ changedMeanwhile' = changedMeanwhile /\ cartFaults' = cartFaults
  BY DEF GetInventory, GetCart, CreateCart, GetCartByID
<1>2. /\ cartCall \in [CartCalls -> CartRecords] /\ carts \subseteq CartCalls /\ missedAtOnce \in BOOLEAN
      /\ CallFits(c) /\ cartFaults \in Nat /\ \A g \in CartCalls : line[g].id \in SUBSET CartCalls /\ line[g].qty \in Nat
  BY CartAssumption DEF CartInv, CartTypeOK, CartRecords, CartCallsFit
<1>8. cartCall[c] \in CartRecords  BY <1>2
<1>3. CASE GetInventory(c)
  <2>1. PICK step \in {"ended", "find", "set", "load"} :
           /\ CartGoes(c, step)
           /\ step = "find" => cartCall[c].kind = "add"
           /\ step = "set" => cartCall[c].kind = "quantity"
    BY <1>3 DEF GetInventory
  <2>2. step \in CartSteps  BY DEF CartSteps
  <2>3. /\ cartCall' \in [CartCalls -> CartRecords] /\ OthersShop(c)
        /\ cartCall'[c] = [cartCall[c] EXCEPT !.step = step]
    <3>1. CartGoes(c, step)  BY <2>1
    <3> QED BY <2>2, <3>1, CartGoesOn
  <2>4. cartCall[c].step = "soft" /\ carts' = carts /\ missedAtOnce' = missedAtOnce  BY <1>3 DEF GetInventory
  <2>5. CallFits(c)'  BY <1>2, <2>3, <1>1, <2>4, <2>1 DEF CartRecords, CallFits
  <2>6. CartsComing'
    <3>1. cartCall'[c].step # "create" /\ cartCall[c].step # "create"  BY <1>8, <2>1, <2>3, <2>4 DEF CartRecords
    <3>2. cartFaults' \in Nat /\ cartFaults' >= cartFaults  BY <1>1, <1>2
    <3> QED BY <2>3, <2>4, <3>1, <3>2, NoCartComes
  <2> QED BY <1>1, <1>2, <2>3, <2>4, <2>5, <2>6, CartIsQuiet DEF CartRecords
<1>4. ASSUME NEW step \in {"create", "upsert", "ended", "reserve"}, cartCall[c].step \in {"find", "create", "load"},
             cartCall' \in [CartCalls -> CartRecords], OthersShop(c), cartCall'[c].step = step,
             cartCall[c].step # "load" => cartCall'[c].units = cartCall[c].units,
             step \in {"create", "upsert"} => cartCall[c].step # "load",
             carts' \subseteq CartCalls, missedAtOnce' \in BOOLEAN, CartsComing'
      PROVE  CartInv'
  <2>1. CallFits(c)'  BY <1>1, <1>2, <1>4 DEF CallFits
  <2> QED BY <1>1, <1>4, <2>1, CartIsQuiet
<1>5. CASE GetCart(c)
  <2>1. /\ carts' = carts /\ carts' \subseteq CartCalls /\ missedAtOnce' \in BOOLEAN /\ cartCall[c].step = "find"
        /\ missedAtOnce' = (missedAtOnce \/ (carts = {} /\ CartsAt("create") # {}))
    BY <1>5, <1>2 DEF GetCart
  <2>2. CASE carts = {}
    <3>1. /\ cartCall' \in [CartCalls -> CartRecords] /\ OthersShop(c)
          /\ cartCall'[c].step = "create" /\ cartCall'[c].units = cartCall[c].units
      BY <1>5, <2>2, <1>2 DEF GetCart, CartGoes, CartRecords, CartSteps, OthersShop
    <3>2. ASSUME ~missedAtOnce' PROVE CartsToCome' <= 1 + cartFaults'
      <4>1. CartsAt("create") = {}  BY <2>1, <2>2, <3>2
      <4>2. Cardinality(CartsAt("create")') = Cardinality(CartsAt("create")) + 1  BY <2>1, <3>1, CreatorsAre
      <4>3. Cardinality(CartsAt("create")') = 1 /\ Cardinality(carts') = 0  BY <2>1, <2>2, <4>1, <4>2, FS_EmptySet
      <4>4. CartsToCome' = 1  BY <4>3 DEF CartsToCome
      <4> QED BY <1>1, <1>2, <4>4
    <3>3. CartsComing'  BY <3>2 DEF CartsComing
    <3> QED BY <1>4, <2>1, <3>1, <3>3
  <2>3. CASE carts # {}
    <3>1. PICK g \in carts : cartCall' = [cartCall EXCEPT ![c] = [@ EXCEPT !.step = "upsert", !.cart = g]]
      BY <1>5, <2>3, Zenon DEF GetCart
    <3>2. /\ cartCall' \in [CartCalls -> CartRecords] /\ OthersShop(c)
          /\ cartCall'[c].step = "upsert" /\ cartCall'[c].units = cartCall[c].units
      BY <1>2, <1>8, <3>1, CartTurns DEF CartRecords, CartSteps
    <3>3. missedAtOnce' = missedAtOnce  BY <1>2, <2>1, <2>3
    <3>4. CartsComing'  BY <1>1, <1>2, <2>1, <3>2, <3>3, NoCartComes
    <3> QED BY <1>4, <2>1, <3>2, <3>4
  <2> QED BY <2>2, <2>3
<1>6. CASE CreateCart(c)
  <2>1. carts' = carts \cup {c} /\ missedAtOnce' = missedAtOnce /\ cartCall[c].step = "create"
    BY <1>6 DEF CreateCart
  <2>3. /\ cartCall' \in [CartCalls -> CartRecords] /\ OthersShop(c)
        /\ cartCall'[c].step = "upsert" /\ cartCall'[c].units = cartCall[c].units
    BY <1>8, <1>6, CartTurns DEF CartRecords, CartSteps, CreateCart
  <2>2. CartsComing'
    <3>1. PICK k \in Nat, k2 \in Nat, n \in Nat, n2 \in Int, f \in Nat :
             /\ k = Cardinality(carts) /\ k2 = Cardinality(carts') /\ k2 <= k + 1
             /\ n = Cardinality(CartsAt("create")) /\ n2 = Cardinality(CartsAt("create")') /\ n2 = n - 1
             /\ f = cartFaults
      <4>1. /\ Cardinality(carts) \in Nat /\ Cardinality(CartsAt("create")) \in Nat /\ cartFaults \in Nat
            /\ Cardinality(carts') \in Nat /\ Cardinality(carts') <= Cardinality(carts) + 1
            /\ Cardinality(CartsAt("create")') = Cardinality(CartsAt("create")) - 1
        BY <2>1, <2>3, CreatorsAre
      <4> QED BY <4>1
    <3>2. CartsToCome = k + n /\ CartsToCome' = k2 + n2  BY <3>1 DEF CartsToCome
    <3>3. ~missedAtOnce => CartsToCome <= 1 + cartFaults  BY DEF CartInv, CartsComing
    <3>4. ~missedAtOnce => k2 + n2 <= 1 + f  BY <3>1, <3>2, <3>3
    <3> QED BY <1>1, <2>1, <3>1, <3>2, <3>4 DEF CartsComing
  <2>4. carts' \subseteq CartCalls /\ missedAtOnce' \in BOOLEAN  BY <1>2, <2>1
  <2> QED BY <1>4, <2>1, <2>2, <2>3, <2>4
<1>7. CASE GetCartByID(c)
  <2>1. PICK kept : kept = line[cartCall[c].cart]  OBVIOUS
  <2>2. kept.qty \in Nat /\ kept.id \in SUBSET CartCalls  BY <1>2, <2>1 DEF CartRecords
  <2>3. PICK step \in {"ended", "reserve"} :
           cartCall' = [cartCall EXCEPT ![c] = [@ EXCEPT !.step = step, !.units = kept.qty, !.item = kept.id]]
    BY <1>7, <2>1 DEF GetCartByID
  <2>4. /\ carts' = carts /\ carts' \subseteq CartCalls /\ missedAtOnce' = missedAtOnce /\ missedAtOnce' \in BOOLEAN
        /\ cartCall[c].step = "load"
    BY <1>2, <1>7 DEF GetCartByID
  <2>5. cartCall' \in [CartCalls -> CartRecords] /\ OthersShop(c) /\ cartCall'[c].step = step
    BY <1>8, <2>2, <2>3, CartTurns DEF CartRecords, CartSteps
  <2>6. CartsComing'  BY <1>1, <1>2, <2>4, <2>5, NoCartComes
  <2> QED BY <1>4, <2>4, <2>5, <2>6
<1> QED BY <1>3, <1>5, <1>6, <1>7

\* A step by which units move: what it has to say of the line, the order and the stock it touches.
LEMMA CartMovesUnits ==
    ASSUME CartInv, NEW c \in CartCalls, NEW g \in CartCalls, NEW step \in CartSteps, CartGoes(c, step),
           CallFits(c)', carts' = carts, missedAtOnce' = missedAtOnce, CartsComing',
           \A h \in CartCalls \ {g} : line'[h] = line[h],
           line' \in [CartCalls -> [id : SUBSET CartCalls, qty : Nat]], (line'[g].id = {}) = (line'[g].qty = 0),
           \A d \in CartCalls \ {c} : ordered'[d] = ordered[d], ordered' \in [CartCalls -> Nat],
           reservedQty' \in 0..Stock, put' \in Int, changedMeanwhile' \in BOOLEAN,
           cartFaults' \in 0..MaxCartFaults, cartFaults' >= cartFaults,
           UnitsAddUp' \/ (/\ UnitsAddUp /\ ~changedMeanwhile /\ cartFaults = 0
                           /\ (put' + ClearsOf(c)') + (line[g].qty + ordered[c])
                                 = (put + ClearsOf(c)) + (line'[g].qty + ordered'[c])),
           NEW lost \in Nat,
           (HeldBy(c)' + ordered'[c]) + (reservedQty + lost) = (HeldBy(c) + ordered[c]) + reservedQty',
           cartFaults' = 0 => lost = 0 /\ cartFaults = 0
    PROVE  CartInv'
<1>1. cartCall' \in [CartCalls -> CartRecords] /\ OthersShop(c)  BY CartGoesOn
<1>2. CartTypeOK'
  <2>1. carts \subseteq CartCalls /\ missedAtOnce \in BOOLEAN  BY DEF CartInv, CartTypeOK
  <2>2. ASSUME NEW h \in CartCalls PROVE (line'[h].id = {}) = (line'[h].qty = 0)
    <3>1. CASE h = g  BY <3>1
    <3>2. CASE h # g  BY <3>2 DEF CartInv, CartTypeOK
    <3> QED BY <3>1, <3>2
  <2> QED BY <1>1, <2>1, <2>2 DEF CartTypeOK, CartRecords
<1>3. CartCallsFit'
  <2> SUFFICES ASSUME NEW d \in CartCalls, d # c PROVE CallFits(d)'  BY DEF CartCallsFit
  <2>1. cartCall'[d] = cartCall[d] /\ ordered'[d] = ordered[d] /\ CallFits(d)
    BY <1>1 DEF OthersShop, CartInv, CartCallsFit
  <2>2. cartFaults > 0 => cartFaults' > 0  BY CartAssumption DEF CartInv, CartTypeOK
  <2> QED BY <2>1, <2>2 DEF CallFits
<1>4. UnitsAddUp' /\ StockIsHeld'  BY <1>1, <1>2, CartAddsUp DEF OthersShop
<1> QED BY <1>2, <1>3, <1>4 DEF CartInv

\* What is there of a request, and what its sums are before and after it goes on.
LEMMA CartFacts ==
    ASSUME CartInv, NEW c \in CartCalls
    PROVE  /\ cartCall[c] \in CartRecords /\ CallFits(c) /\ ordered \in [CartCalls -> Nat] /\ put \in Int
           /\ line \in [CartCalls -> [id : SUBSET CartCalls, qty : Nat]]
           /\ \A g \in CartCalls : (line[g].id = {}) = (line[g].qty = 0)
           /\ reservedQty \in 0..Stock /\ Stock \in Nat /\ changedMeanwhile \in BOOLEAN
           /\ cartFaults \in 0..MaxCartFaults /\ MaxCartFaults \in Nat
           /\ HeldBy(c) \in Nat /\ ClearsOf(c) \in Nat
           /\ cartCall[c].units \in Nat /\ cartCall[c].cart \in CartCalls /\ ordered[c] \in Nat
BY CartAssumption DEF CartInv, CartTypeOK, CartCallsFit, CartRecords, HeldBy, ClearsOf

\* A request goes on to its last statements, or is through, with what it holds and clears then.
LEMMA CartIsThrough ==
    ASSUME CartInv, NEW c \in CartCalls, NEW step \in {"ended", "create", "order", "clear", "release"},
           CartGoes(c, step)
    PROVE  /\ cartCall'[c].step = step /\ cartCall'[c].units = cartCall[c].units /\ step \in CartSteps
           /\ step \in {"ended", "create"} => HeldBy(c)' = 0 /\ ClearsOf(c)' = 0
           /\ step = "ended" => CallFits(c)'
           /\ step \in {"order", "release"} => HeldBy(c)' = cartCall[c].units /\ ClearsOf(c)' = 0
           /\ step = "clear" => HeldBy(c)' = 0 /\ ClearsOf(c)' = cartCall[c].units /\ CallFits(c)'
<1>1. step \in CartSteps  BY DEF CartSteps
<1>2. cartCall'[c] = [cartCall[c] EXCEPT !.step = step]  BY <1>1, CartGoesOn
<1>3. cartCall[c] \in CartRecords  BY CartFacts
<1>4. cartCall'[c].step = step /\ cartCall'[c].units = cartCall[c].units  BY <1>2, <1>3 DEF CartRecords
<1> QED BY <1>1, <1>4 DEF HeldBy, ClearsOf, CallFits

\* An item is put in, or its quantity set, or it is taken out.
LEMMA CartIsWritten ==
    ASSUME CartInv, NEW c \in CartCalls, UpsertItem(c) \/ UpdateCartQuantity(c)
    PROVE  CartInv'
<1>1. PICK g : g = cartCall[c].cart  OBVIOUS
<1>2. /\ g \in CartCalls /\ CartGoes(c, "ended") /\ carts' = carts /\ missedAtOnce' = missedAtOnce
      /\ ordered' = ordered /\ reservedQty' = reservedQty /\ changedMeanwhile' = changedMeanwhile
      /\ cartFaults' = cartFaults /\ cartCall[c].step \in {"upsert", "set", "delete"}
  BY <1>1, CartFacts DEF UpsertItem, UpdateCartQuantity
<1>3. /\ HeldBy(c)' = 0 /\ ClearsOf(c)' = 0 /\ CallFits(c)' /\ HeldBy(c) = 0 /\ ClearsOf(c) = 0
      /\ "ended" \in CartSteps
  BY <1>2, CartIsThrough DEF HeldBy, ClearsOf
<1>4. PICK n \in Nat : n = cartCall[c].units  BY CartFacts
<1>5. PICK new : /\ line' = [line EXCEPT ![g] = new]
                 /\ \/ new = line[g] /\ put' = put
                    \/ /\ new.qty \in Nat /\ new.id \in SUBSET CartCalls
                       /\ new \in [id : SUBSET CartCalls, qty : Nat]
                       /\ (new.id = {}) = (new.qty = 0) /\ put' + line[g].qty = put + new.qty
  <2>1. CASE UpsertItem(c)
    <3>1. PICK new : /\ new = [id |-> IF line[g].id = {} THEN {c} ELSE line[g].id, qty |-> line[g].qty + n]
                     /\ line' = [line EXCEPT ![g] = new] /\ put' = put + n
      BY <1>1, <1>4, <2>1 DEF UpsertItem, Added
    <3>2. n > 0 /\ line[g].id \in SUBSET CartCalls /\ line[g].qty \in Nat /\ put \in Int
      BY <1>2, <1>4, <2>1, CartFacts DEF UpsertItem, CallFits
    <3>3. /\ new.id # {} /\ new.id \in SUBSET CartCalls /\ new.qty = line[g].qty + n /\ new.qty \in Nat
          /\ new.qty # 0
      BY <3>1, <3>2
    <3>4. put' + line[g].qty = put + new.qty  BY <3>1, <3>2, <3>3
    <3>5. new \in [id : SUBSET CartCalls, qty : Nat]  BY <3>1, <3>2
    <3> QED BY <3>1, <3>3, <3>4, <3>5
  <2>2. CASE UpdateCartQuantity(c)
    <3>0. line[g].qty \in Nat /\ line[g].id \in SUBSET CartCalls /\ put \in Int
          /\ line \in [CartCalls -> [id : SUBSET CartCalls, qty : Nat]] /\ CallFits(c)
      BY <1>2, CartFacts
    <3>1. CASE line[g].id # cartCall[c].item  BY <1>1, <3>1, <2>2, <3>0 DEF UpdateCartQuantity
    <3>2. CASE line[g].id = cartCall[c].item /\ cartCall[c].step = "set"
      <4>1. PICK new : /\ new = [line[g] EXCEPT !.qty = n] /\ line' = [line EXCEPT ![g] = new]
                       /\ put' = put + n - line[g].qty
        BY <1>1, <1>4, <2>2, <3>2 DEF UpdateCartQuantity
      <4>2. n > 0 /\ line[g].id # {}  BY <1>4, <3>0, <3>2 DEF CallFits
      <4>3. new \in [id : SUBSET CartCalls, qty : Nat] /\ new.qty = n /\ new.id = line[g].id
        BY <1>2, <3>0, <4>1
      <4>4. put' + line[g].qty = put + new.qty  BY <3>0, <4>1, <4>3
      <4>5. (new.id = {}) = (new.qty = 0) /\ new.qty \in Nat /\ new.id \in SUBSET CartCalls
        BY <3>0, <4>2, <4>3
      <4> QED BY <4>1, <4>3, <4>4, <4>5
    <3>3. CASE line[g].id = cartCall[c].item /\ cartCall[c].step # "set"
      <4>1. line' = [line EXCEPT ![g] = NoLine] /\ put' = put + n - line[g].qty
        BY <1>1, <1>4, <2>2, <3>3 DEF UpdateCartQuantity
      <4>2. n = 0  BY <1>4, <2>2, <3>0, <3>3 DEF CallFits, UpdateCartQuantity
      <4>3. /\ NoLine \in [id : SUBSET CartCalls, qty : Nat] /\ NoLine.qty = 0 /\ NoLine.id = {}
        BY DEF NoLine
      <4>4. put' + line[g].qty = put + NoLine.qty  BY <3>0, <4>1, <4>2, <4>3
      <4> QED BY <4>1, <4>3, <4>4
    <3> QED BY <3>1, <3>2, <3>3
  <2> QED BY <2>1, <2>2
<1>6. /\ \A h \in CartCalls \ {g} : line'[h] = line[h]
      /\ line'[g] = new /\ line' \in [CartCalls -> [id : SUBSET CartCalls, qty : Nat]]
      /\ (line'[g].id = {}) = (line'[g].qty = 0)
  BY <1>2, <1>5, CartFacts
<1>7. put' + line[g].qty = put + line'[g].qty /\ put' \in Int
  BY <1>2, <1>6, CartFacts, <1>5 DEF UpsertItem, UpdateCartQuantity
<1>8. (put' + ClearsOf(c)') + (line[g].qty + ordered[c]) = (put + ClearsOf(c)) + (line'[g].qty + ordered'[c])
  <2>1. put \in Int /\ line[g].qty \in Nat /\ line'[g].qty \in Nat /\ ordered[c] \in Nat
    BY <1>2, <1>6, CartFacts
  <2>2. PICK o \in Nat : o = ordered[c] /\ o = ordered'[c]  BY <1>2, <2>1
  <2>3. PICK p \in Int, p2 \in Int, q \in Int, q2 \in Int :
           p = put /\ p2 = put' /\ q = line[g].qty /\ q2 = line'[g].qty
    BY <1>7, <2>1
  <2>4. p2 + q = p + q2  BY <1>7, <2>3
  <2>5. (p2 + 0) + (q + o) = (p + 0) + (q2 + o)  BY <2>4
  <2> QED BY <1>3, <2>2, <2>3, <2>5
<1>9. (HeldBy(c)' + ordered'[c]) + (reservedQty + 0) = (HeldBy(c) + ordered[c]) + reservedQty'
  BY CartFacts, <1>2, <1>3
<1>10. UnitsAddUp' \/ (UnitsAddUp /\ ~changedMeanwhile /\ cartFaults = 0)  BY <1>2 DEF UnitsAddUp, CartInv
<1>11. /\ \A d \in CartCalls \ {c} : ordered'[d] = ordered[d]
       /\ ordered' \in [CartCalls -> Nat] /\ reservedQty' \in 0..Stock /\ changedMeanwhile' \in BOOLEAN
       /\ cartFaults' \in 0..MaxCartFaults /\ cartFaults' >= cartFaults
       /\ cartFaults' = 0 => 0 = 0 /\ cartFaults = 0
  BY <1>2, CartFacts
<1>12. CartsComing'
  <2>1. cartCall'[c].step = "ended"  BY <1>2, CartIsThrough
  <2>2. OthersShop(c)  BY <1>2, <1>3, CartGoesOn
  <2>3. cartFaults' \in Nat /\ cartFaults' >= cartFaults  BY <1>2, CartFacts
  <2> QED BY <1>2, <2>1, <2>2, <2>3, NoCartComes
<1> QED BY <1>2, <1>3, <1>6, <1>7, <1>8, <1>9, <1>10, <1>11, <1>12, CartMovesUnits

\* Stock is reserved, ordered or given back, or the cart is emptied, or a statement fails.
LEMMA CartIsSettled ==
    ASSUME CartInv, NEW c \in CartCalls,
           \/ ReserveStock(c) \/ CreateOrder(c) \/ releaseAllReservations(c) \/ ClearCart(c) \/ CartCallFails(c)
    PROVE  CartInv'
<1>1. /\ cartCall[c] \in CartRecords /\ CallFits(c) /\ ordered \in [CartCalls -> Nat] /\ put \in Int
      /\ line \in [CartCalls -> [id : SUBSET CartCalls, qty : Nat]]
      /\ \A h \in CartCalls : (line[h].id = {}) = (line[h].qty = 0)
      /\ reservedQty \in 0..Stock /\ Stock \in Nat /\ changedMeanwhile \in BOOLEAN
      /\ cartFaults \in 0..MaxCartFaults /\ MaxCartFaults \in Nat
      /\ HeldBy(c) \in Nat /\ ClearsOf(c) \in Nat
  BY CartFacts
<1>2. PICK n \in Nat, g \in CartCalls : n = cartCall[c].units /\ g = cartCall[c].cart  BY CartFacts
<1>3. carts' = carts /\ missedAtOnce' = missedAtOnce /\ put' = put
  BY DEF ReserveStock, CreateOrder, releaseAllReservations, ClearCart, CartCallFails
<1>4. UnitsAddUp  BY DEF CartInv
<1>5. HeldBy(c) = (IF cartCall[c].step \in {"order", "release"} THEN n ELSE 0)
      /\ ClearsOf(c) = (IF cartCall[c].step = "clear" THEN n ELSE 0)
  BY <1>2 DEF HeldBy, ClearsOf
<1>6. \A k \in CartCalls : line[k].qty \in Nat /\ ordered[k] \in Nat  BY <1>1
<1>7. reservedQty \in Nat  BY <1>1
<1>14. ASSUME NEW step \in {"ended", "order", "clear", "release"}, CartGoes(c, step), cartCall[c].step # "create",
              cartFaults' \in Nat, cartFaults' >= cartFaults
       PROVE  CartsComing'
  <2>1. cartCall'[c].step = step /\ step \in CartSteps  BY <1>14, CartIsThrough
  <2>2. OthersShop(c)  BY <1>14, <2>1, CartGoesOn
  <2> QED BY <1>3, <1>14, <2>1, <2>2, NoCartComes
\* Nothing but the request, its order and the stock is touched.
<1>8. ASSUME NEW step \in {"ended", "create", "order", "clear", "release"}, CartGoes(c, step), CallFits(c)', line' = line,
             changedMeanwhile' = changedMeanwhile, ordered' \in [CartCalls -> Nat],
             \A d \in CartCalls \ {c} : ordered'[d] = ordered[d], reservedQty' \in 0..Stock,
             cartFaults' \in 0..MaxCartFaults, cartFaults' >= cartFaults, CartsComing',
             cartFaults' = 0 => ClearsOf(c)' + ordered[c] = ClearsOf(c) + ordered'[c],
             NEW lost \in Nat, cartFaults' = 0 => lost = 0,
             (HeldBy(c)' + ordered'[c]) + (reservedQty + lost) = (HeldBy(c) + ordered[c]) + reservedQty'
      PROVE  CartInv'
  <2>1. cartFaults' = 0 => cartFaults = 0  BY <1>1, <1>8
  <2>2. \/ UnitsAddUp'
        \/ /\ UnitsAddUp /\ ~changedMeanwhile /\ cartFaults = 0
           /\ (put' + ClearsOf(c)') + (line[c].qty + ordered[c])
                 = (put + ClearsOf(c)) + (line'[c].qty + ordered'[c])
    <3>1. CASE changedMeanwhile \/ cartFaults' # 0  BY <1>8, <3>1 DEF UnitsAddUp
    <3>2. CASE ~changedMeanwhile /\ cartFaults' = 0
      <4>1. ClearsOf(c)' \in Nat /\ ordered'[c] \in Nat  BY <1>2, <1>8, CartIsThrough
      <4>2. PICK p \in Int, q \in Int, v \in Int, v2 \in Int, u \in Int, u2 \in Int :
               p = put /\ q = line[c].qty /\ v = ClearsOf(c) /\ v2 = ClearsOf(c)' /\ u = ordered[c] /\ u2 = ordered'[c]
        <5>1. put \in Int /\ line[c].qty \in Int /\ ClearsOf(c) \in Int /\ ordered[c] \in Int  BY <1>1, <1>6
        <5>2. ClearsOf(c)' \in Int /\ ordered'[c] \in Int  BY <4>1
        <5> QED BY <5>1, <5>2
      <4>3. v2 + u = v + u2  BY <1>8, <3>2, <4>2
      <4>4. (p + v2) + (q + u) = (p + v) + (q + u2)  BY <4>3
      <4>5. (put' + ClearsOf(c)') + (line[c].qty + ordered[c]) = (put + ClearsOf(c)) + (line'[c].qty + ordered'[c])
        BY <1>3, <1>8, <4>2, <4>4
      <4> QED BY <1>4, <2>1, <3>2, <4>5
    <3> QED BY <1>1, <3>1, <3>2
  <2>3. /\ \A h \in CartCalls \ {c} : line'[h] = line[h]
        /\ line' \in [CartCalls -> [id : SUBSET CartCalls, qty : Nat]] /\ (line'[c].id = {}) = (line'[c].qty = 0)
    BY <1>1, <1>8
  <2>4. put' \in Int /\ changedMeanwhile' \in BOOLEAN /\ step \in CartSteps  BY <1>1, <1>3, <1>8 DEF CartSteps
  <2>5. cartFaults' = 0 => lost = 0 /\ cartFaults = 0  BY <1>8, <2>1
  <2> QED BY <1>3, <1>8, <2>2, <2>3, <2>4, <2>5, CartMovesUnits
<1>9. CASE ReserveStock(c)
  <2>1. cartCall[c].step = "reserve" /\ line' = line /\ ordered' = ordered /\ changedMeanwhile' = changedMeanwhile
        /\ cartFaults' = cartFaults
    BY <1>9 DEF ReserveStock
  <2>2. HeldBy(c) = 0 /\ ClearsOf(c) = 0 /\ ordered[c] = 0  BY <1>1, <1>5, <2>1 DEF CallFits
  <2>3. CASE Available < n
    <3>1. CartGoes(c, "ended") /\ reservedQty' = reservedQty  BY <1>2, <1>9, <2>3 DEF ReserveStock
    <3>2. HeldBy(c)' = 0 /\ ClearsOf(c)' = 0 /\ CallFits(c)'  BY <3>1, CartIsThrough
    <3>3. (HeldBy(c)' + ordered'[c]) + (reservedQty + 0) = (HeldBy(c) + ordered[c]) + reservedQty'
      BY <1>7, <2>1, <2>2, <3>1, <3>2
    <3>4. CartsComing'  BY <1>1, <1>14, <2>1, <3>1
    <3> QED BY <1>1, <1>8, <2>1, <2>2, <3>1, <3>2, <3>3, <3>4
  <2>4. CASE ~(Available < n)
    <3>1. CartGoes(c, "order") /\ reservedQty' = reservedQty + n  BY <1>2, <1>9, <2>4 DEF ReserveStock
    <3>2. /\ HeldBy(c)' = n /\ ClearsOf(c)' = 0
          /\ cartCall'[c].step = "order" /\ cartCall'[c].units = n
      BY <1>2, <3>1, CartIsThrough
    <3>3. CallFits(c)'  BY <2>1, <2>2, <3>2 DEF CallFits
    <3>4. reservedQty' \in 0..Stock  BY <1>1, <2>4, <3>1 DEF Available
    <3>5. (HeldBy(c)' + ordered'[c]) + (reservedQty + 0) = (HeldBy(c) + ordered[c]) + reservedQty'
      BY <1>7, <2>1, <2>2, <3>1, <3>2
    <3>6. CartsComing'  BY <1>1, <1>14, <2>1, <3>1
    <3> QED BY <1>1, <1>8, <2>1, <2>2, <3>1, <3>2, <3>3, <3>4, <3>5, <3>6
  <2> QED BY <2>3, <2>4
<1>10. CASE CreateOrder(c)
  <2>1. /\ cartCall[c].step = "order" /\ line' = line /\ ordered' = [ordered EXCEPT ![c] = n]
        /\ changedMeanwhile' = changedMeanwhile /\ cartFaults' = cartFaults /\ reservedQty' = reservedQty
        /\ CartGoes(c, "clear")
    BY <1>2, <1>10 DEF CreateOrder
  <2>2. HeldBy(c) = n /\ ClearsOf(c) = 0 /\ ordered[c] = 0  BY <1>1, <1>5, <2>1 DEF CallFits
  <2>3. HeldBy(c)' = 0 /\ ClearsOf(c)' = n /\ CallFits(c)'  BY <1>2, <2>1, CartIsThrough
  <2>4. /\ ordered'[c] = n /\ ordered' \in [CartCalls -> Nat]
        /\ \A d \in CartCalls \ {c} : ordered'[d] = ordered[d]
    BY <1>1, <2>1
  <2>5. (HeldBy(c)' + ordered'[c]) + (reservedQty + 0) = (HeldBy(c) + ordered[c]) + reservedQty'
        /\ ClearsOf(c)' + ordered[c] = ClearsOf(c) + ordered'[c]
    BY <1>7, <2>1, <2>2, <2>3, <2>4
  <2>6. reservedQty' \in 0..Stock /\ changedMeanwhile' = changedMeanwhile /\ cartFaults' \in 0..MaxCartFaults
        /\ cartFaults' >= cartFaults
    BY <1>1, <2>1
  <2>7. CartsComing'  BY <1>1, <1>14, <2>1
  <2> QED BY <1>8, <2>1, <2>3, <2>4, <2>5, <2>6, <2>7
<1>11. CASE releaseAllReservations(c)
  <2>1. /\ cartCall[c].step = "release" /\ line' = line /\ ordered' = ordered
        /\ changedMeanwhile' = changedMeanwhile /\ cartFaults' = cartFaults /\ reservedQty' = reservedQty - n
        /\ CartGoes(c, "ended")
    BY <1>2, <1>11 DEF releaseAllReservations
  <2>2. HeldBy(c) = n /\ ClearsOf(c) = 0 /\ ordered[c] = 0 /\ cartFaults > 0  BY <1>1, <1>5, <2>1 DEF CallFits
  <2>3. HeldBy(c)' = 0 /\ ClearsOf(c)' = 0 /\ CallFits(c)'  BY <2>1, CartIsThrough
  <2>4. n <= reservedQty  BY CartHolds, <1>7, <2>2 DEF CartInv, StockIsHeld
  <2>5. reservedQty' \in 0..Stock  BY <1>1, <1>7, <2>1, <2>4
  <2>6. (HeldBy(c)' + ordered'[c]) + (reservedQty + 0) = (HeldBy(c) + ordered[c]) + reservedQty'
    BY <1>7, <2>1, <2>2, <2>3
  <2>7. ordered' = ordered /\ (cartFaults' = 0 => cartFaults = 0) /\ cartFaults' # 0  BY <1>1, <2>1, <2>2
  <2>8. CartsComing'  BY <1>1, <1>14, <2>1
  <2> QED BY <1>1, <1>8, <2>1, <2>2, <2>3, <2>5, <2>6, <2>7, <2>8
<1>12. CASE CartCallFails(c)
  <2>1. /\ cartFaults < MaxCartFaults /\ cartFaults' = cartFaults + 1
        /\ line' = line /\ ordered' = ordered /\ changedMeanwhile' = changedMeanwhile /\ reservedQty' = reservedQty
    BY <1>12 DEF CartCallFails
  <2>2. cartFaults' \in 0..MaxCartFaults /\ cartFaults' > 0 /\ cartFaults' >= cartFaults  BY <1>1, <2>1
  <2>3. CASE CartGoes(c, "ended")
    <3>1. HeldBy(c)' = 0 /\ ClearsOf(c)' = 0 /\ CallFits(c)'  BY <2>3, CartIsThrough
    <3>2. PICK lost \in Nat : lost = HeldBy(c)  BY <1>1
    <3>3. (HeldBy(c)' + ordered'[c]) + (reservedQty + lost) = (HeldBy(c) + ordered[c]) + reservedQty'
      BY <1>6, <1>7, <2>1, <3>1, <3>2
    <3>4. CartsComing'
      <4>1. CASE cartCall[c].step # "create"  BY <1>1, <1>14, <2>1, <2>2, <2>3, <4>1
      <4>2. CASE cartCall[c].step = "create"
        <5>1. cartCall'[c].step = "ended" /\ "ended" \in CartSteps  BY <2>3, CartIsThrough
        <5>2. OthersShop(c)  BY <2>3, <5>1, CartGoesOn
        <5>3. PICK k \in Nat, m \in Nat, m2 \in Int, f \in Nat :
                 /\ k = Cardinality(carts) /\ k = Cardinality(carts') /\ m = Cardinality(CartsAt("create"))
                 /\ m2 = Cardinality(CartsAt("create")') /\ m2 = m - 1 /\ f = cartFaults /\ cartFaults' = f + 1
          <6>1. /\ Cardinality(carts) \in Nat /\ Cardinality(CartsAt("create")) \in Nat /\ cartFaults \in Nat
                /\ Cardinality(CartsAt("create")') = Cardinality(CartsAt("create")) - 1
            BY <4>2, <5>1, <5>2, CreatorsAre
          <6> QED BY <1>3, <2>1, <6>1
        <5>4. CartsToCome = k + m /\ CartsToCome' = k + m2  BY <5>3 DEF CartsToCome
        <5>5. ~missedAtOnce => CartsToCome <= 1 + cartFaults  BY DEF CartInv, CartsComing
        <5>6. ~missedAtOnce => k + m2 <= 1 + (f + 1)  BY <5>3, <5>4, <5>5
        <5> QED BY <1>3, <5>3, <5>4, <5>6 DEF CartsComing
      <4> QED BY <4>1, <4>2
    <3> QED BY <1>1, <1>8, <2>1, <2>2, <2>3, <3>1, <3>3, <3>4
  <2>5. CASE cartCall[c].step = "find" /\ CartGoes(c, "create")
    <3>1. /\ HeldBy(c)' = 0 /\ ClearsOf(c)' = 0 /\ HeldBy(c) = 0 /\ ClearsOf(c) = 0 /\ ordered[c] = 0
          /\ cartCall'[c].step = "create" /\ cartCall'[c].units = cartCall[c].units /\ "create" \in CartSteps
      BY <1>1, <1>5, <2>5, CartIsThrough DEF CallFits
    <3>2. CallFits(c)'  BY <1>1, <2>1, <2>5, <3>1 DEF CallFits
    <3>3. (HeldBy(c)' + ordered'[c]) + (reservedQty + 0) = (HeldBy(c) + ordered[c]) + reservedQty'
      BY <1>7, <2>1, <3>1
    <3>4. OthersShop(c)  BY <2>5, <3>1, CartGoesOn
    <3>5. CartsComing'
      <4>1. PICK k \in Nat, m \in Nat, m2 \in Int, f \in Nat :
               /\ k = Cardinality(carts) /\ k = Cardinality(carts') /\ m = Cardinality(CartsAt("create"))
               /\ m2 = Cardinality(CartsAt("create")') /\ m2 = m + 1 /\ f = cartFaults /\ cartFaults' = f + 1
        <5>1. /\ Cardinality(carts) \in Nat /\ Cardinality(CartsAt("create")) \in Nat /\ cartFaults \in Nat
              /\ Cardinality(CartsAt("create")') = Cardinality(CartsAt("create")) + 1
          BY <2>5, <3>1, <3>4, CreatorsAre
        <5> QED BY <1>3, <2>1, <5>1
      <4>2. CartsToCome = k + m /\ CartsToCome' = k + m2  BY <4>1 DEF CartsToCome
      <4>3. ~missedAtOnce => CartsToCome <= 1 + cartFaults  BY DEF CartInv, CartsComing
      <4>4. ~missedAtOnce => k + m2 <= 1 + (f + 1)  BY <4>1, <4>2, <4>3
      <4> QED BY <1>3, <4>1, <4>2, <4>4 DEF CartsComing
    <3>6. ~(cartFaults' = 0)  BY <1>1, <2>2
    <3>7. CartGoes(c, "create") /\ ordered' \in [CartCalls -> Nat] /\ reservedQty' \in 0..Stock
          /\ \A d \in CartCalls \ {c} : ordered'[d] = ordered[d]
      BY <1>1, <2>1, <2>5
    <3> QED BY <1>8, <2>1, <2>2, <3>2, <3>3, <3>5, <3>6, <3>7
  <2>4. CASE cartCall[c].step = "order" /\ CartGoes(c, "release")
    <3>1. /\ HeldBy(c)' = n /\ ClearsOf(c)' = 0 /\ HeldBy(c) = n /\ ordered[c] = 0
          /\ cartCall'[c].step = "release" /\ cartCall'[c].units = n
      BY <1>1, <1>2, <1>5, <2>4, CartIsThrough DEF CallFits
    <3>2. CallFits(c)'  BY <2>1, <2>2, <3>1 DEF CallFits
    <3>3. (HeldBy(c)' + ordered'[c]) + (reservedQty + 0) = (HeldBy(c) + ordered[c]) + reservedQty'
      BY <1>7, <2>1, <3>1
    <3>4. ~(cartFaults' = 0)  BY <1>1, <2>2
    <3>5. CartGoes(c, "release") /\ line' = line /\ changedMeanwhile' = changedMeanwhile
          /\ ordered' \in [CartCalls -> Nat] /\ reservedQty' \in 0..Stock
          /\ \A d \in CartCalls \ {c} : ordered'[d] = ordered[d]
      BY <1>1, <2>1, <2>4
    <3>6. CartsComing'  BY <1>1, <1>14, <2>1, <2>2, <2>4
    <3> QED BY <1>8, <2>2, <3>2, <3>3, <3>4, <3>5, <3>6
  <2> QED BY <1>12, <2>3, <2>4, <2>5 DEF CartCallFails
<1>13. CASE ClearCart(c)
  <2>1. /\ cartCall[c].step = "clear" /\ line' = [line EXCEPT ![g] = NoLine] /\ ordered' = ordered
        /\ cartFaults' = cartFaults /\ reservedQty' = reservedQty /\ CartGoes(c, "ended")
        /\ changedMeanwhile' = (changedMeanwhile \/ line[g] # [id |-> cartCall[c].item, qty |-> n])
    BY <1>2, <1>13 DEF ClearCart
  <2>2. HeldBy(c) = 0 /\ ClearsOf(c) = n  BY <1>5, <2>1
  <2>3. HeldBy(c)' = 0 /\ ClearsOf(c)' = 0 /\ CallFits(c)' /\ "ended" \in CartSteps  BY <2>1, CartIsThrough
  <2>4. (HeldBy(c)' + ordered'[c]) + (reservedQty + 0) = (HeldBy(c) + ordered[c]) + reservedQty'
    BY <1>6, <1>7, <2>1, <2>2, <2>3
  <2>5. /\ NoLine \in [id : SUBSET CartCalls, qty : Nat] /\ NoLine.qty = 0 /\ NoLine.id = {}  BY DEF NoLine
  <2>6. /\ \A h \in CartCalls \ {g} : line'[h] = line[h]
        /\ line' \in [CartCalls -> [id : SUBSET CartCalls, qty : Nat]] /\ (line'[g].id = {}) = (line'[g].qty = 0)
        /\ line'[g].qty = 0
    BY <1>1, <2>1, <2>5
  <2>7. \/ UnitsAddUp'
        \/ /\ UnitsAddUp /\ ~changedMeanwhile /\ cartFaults = 0
           /\ (put' + ClearsOf(c)') + (line[g].qty + ordered[c])
                 = (put + ClearsOf(c)) + (line'[g].qty + ordered'[c])
    <3>1. CASE changedMeanwhile' \/ cartFaults' # 0  BY <3>1 DEF UnitsAddUp
    <3>2. CASE ~changedMeanwhile' /\ cartFaults' = 0
      <4>1. ~changedMeanwhile /\ line[g].qty = n /\ cartFaults = 0
        <5>1. ~changedMeanwhile /\ line[g] = [id |-> cartCall[c].item, qty |-> n] /\ cartFaults' = cartFaults
          BY <2>1, <3>2, Zenon
        <5> QED BY <3>2, <5>1
      <4>2. PICK p \in Int, u \in Int : p = put /\ u = ordered[c]  BY <1>1, <1>6
      <4>3. (p + 0) + (n + u) = (p + n) + (0 + u)  OBVIOUS
      <4>4. (put' + ClearsOf(c)') + (line[g].qty + ordered[c]) = (put + ClearsOf(c)) + (line'[g].qty + ordered'[c])
        BY <1>3, <2>1, <2>2, <2>3, <2>6, <4>1, <4>2, <4>3
      <4> QED BY <1>4, <4>1, <4>4
    <3> QED BY <3>1, <3>2
  <2>8. /\ \A d \in CartCalls \ {c} : ordered'[d] = ordered[d]
        /\ ordered' \in [CartCalls -> Nat] /\ reservedQty' \in 0..Stock /\ changedMeanwhile' \in BOOLEAN
        /\ put' \in Int /\ cartFaults' \in 0..MaxCartFaults /\ cartFaults' >= cartFaults
        /\ cartFaults' = 0 => 0 = 0 /\ cartFaults = 0
    BY <1>1, <1>3, <2>1
  <2>9. CartsComing'  BY <1>1, <1>14, <2>1
  <2> QED BY <1>3, <2>1, <2>3, <2>4, <2>6, <2>7, <2>8, <2>9, CartMovesUnits
<1> QED BY <1>9, <1>10, <1>11, <1>12, <1>13

\* The carts' invariant holds at first and is kept.
LEMMA CartInvAtFirst == CartInit => CartInv
<1> SUFFICES ASSUME CartInit PROVE CartInv  OBVIOUS
<1>1. PICK c \in CartCalls, first \in {0, 1} :
         /\ carts = IF first = 0 THEN {} ELSE {c}
         /\ line = [g \in CartCalls |-> IF first = 1 /\ g = c THEN [id |-> {c}, qty |-> 1] ELSE NoLine]
         /\ put = first
         /\ cartCall = [d \in CartCalls |->
                [step |-> IF first = 1 /\ d = c THEN "ended" ELSE "new", kind |-> "add", units |-> 0,
                 cart |-> d, item |-> {}]]
  BY DEF CartInit
<1>2. /\ reservedQty = 0 /\ ordered = [d \in CartCalls |-> 0]
      /\ missedAtOnce = FALSE /\ changedMeanwhile = FALSE /\ cartFaults = 0
  BY DEF CartInit
<1>3. CartTypeOK
  <2>1. cartFaults \in 0..MaxCartFaults /\ reservedQty \in 0..Stock /\ ordered \in [CartCalls -> Nat]
    BY <1>2, CartAssumption
  <2>5. carts \subseteq CartCalls /\ put \in Int  BY <1>1
  <2>6. missedAtOnce \in BOOLEAN /\ changedMeanwhile \in BOOLEAN  BY <1>2
  <2>2. line \in [CartCalls -> [id : SUBSET CartCalls, qty : Nat]]  BY <1>1 DEF NoLine
  <2>3. \A g \in CartCalls : (line[g].id = {}) = (line[g].qty = 0)  BY <1>1 DEF NoLine
  <2>4. cartCall \in [CartCalls -> [step : CartSteps, kind : CartKinds, units : Nat, cart : CartCalls, item : SUBSET CartCalls]]
    BY <1>1 DEF CartSteps, CartKinds
  <2> QED BY <2>1, <2>2, <2>3, <2>4, <2>5, <2>6 DEF CartTypeOK
<1>4. CartCallsFit  BY <1>1, <1>2 DEF CartCallsFit, CallFits
<1>5. CartsComing
  <2>1. Cardinality({}) = 0 /\ Cardinality({c}) = 1  BY FS_Singleton, FS_EmptySet
  <2>2. (carts = {} \/ carts = {c}) /\ CartsAt("create") = {}  BY <1>1 DEF CartsAt
  <2>3. CartsToCome = 0 \/ CartsToCome = 1  BY <2>1, <2>2 DEF CartsToCome
  <2> QED BY <1>2, <2>3 DEF CartsComing
<1>6. InClears = 0 /\ Held = 0 /\ InOrders = 0
  <2>1. UnitsOf([d \in CartCalls |-> 0]) = 0  BY FS_EmptySet DEF UnitsOf
  <2>2. \A d \in CartCalls : cartCall[d].step \notin {"clear", "order", "release"}  BY <1>1
  <2>3. /\ [d \in CartCalls |-> IF cartCall[d].step = "clear" THEN cartCall[d].units ELSE 0] = [d \in CartCalls |-> 0]
        /\ [d \in CartCalls |-> IF cartCall[d].step \in {"order", "release"} THEN cartCall[d].units ELSE 0]
              = [d \in CartCalls |-> 0]
    BY <2>2
  <2> QED BY <1>2, <2>1, <2>3 DEF InClears, Held, InOrders
<1>7. InCarts = first  BY <1>1, CartAssumption, UnitsSplit, FS_EmptySet DEF NoLine, InCarts
<1>8. UnitsAddUp /\ StockIsHeld  BY <1>1, <1>2, <1>6, <1>7 DEF UnitsAddUp, StockIsHeld
<1> QED BY <1>3, <1>4, <1>5, <1>8 DEF CartInv

\* Every step of the cart, or none of it, keeps its invariant.
LEMMA CartInvKept == CartInv /\ [CartNext]_cartVars => CartInv'
<1> SUFFICES ASSUME CartInv, [CartNext]_cartVars PROVE CartInv'  OBVIOUS
<1>1. CASE UNCHANGED cartVars
  BY <1>1 DEF cartVars, CartInv, CartTypeOK, CartCallsFit, CallFits, UnitsAddUp, InClears, InCarts, InOrders,
     StockIsHeld, Held, CartsComing, CartsToCome, CartsAt
<1>2. CASE CartNext  BY <1>2, CartRequestBegins, CartRequestFinds, CartIsWritten, CartIsSettled DEF CartNext
<1> QED BY <1>1, <1>2

\* The invariant says what the run checks of the carts.
LEMMA CartsTrue == CartInv => CartTypeOK /\ CartsAreTrue
<1> SUFFICES ASSUME CartInv PROVE CartTypeOK /\ CartsAreTrue  OBVIOUS
<1>1. ASSUME CartsAt("clear") = {}, ~changedMeanwhile, cartFaults = 0 PROVE put = InCarts + InOrders
  <2>1. [c \in CartCalls |-> IF cartCall[c].step = "clear" THEN cartCall[c].units ELSE 0] = [c \in CartCalls |-> 0]
    BY <1>1 DEF CartsAt
  <2>2. InClears = 0  BY <2>1, FS_EmptySet DEF InClears, UnitsOf
  <2>3. put + InClears = InCarts + InOrders /\ put \in Int  BY <1>1 DEF CartInv, UnitsAddUp, CartTypeOK
  <2> QED BY <2>2, <2>3
<1>2. ASSUME ~missedAtOnce PROVE Cardinality(carts) <= 1 + cartFaults
  <2>1. /\ IsFiniteSet(carts) /\ IsFiniteSet(CartsAt("create")) /\ cartFaults \in Nat
    <3>1. carts \subseteq CartCalls /\ CartsAt("create") \subseteq CartCalls  BY DEF CartInv, CartTypeOK, CartsAt
    <3>2. cartFaults \in Nat  BY CartAssumption DEF CartInv, CartTypeOK
    <3> QED BY <3>1, <3>2, CartAssumption, FS_Subset
  <2>2. Cardinality(carts) \in Nat /\ Cardinality(CartsAt("create")) \in Nat  BY <2>1, FS_CardinalityType
  <2>3. Cardinality(carts) + Cardinality(CartsAt("create")) <= 1 + cartFaults
    BY <1>2 DEF CartInv, CartsComing, CartsToCome
  <2> QED BY <2>1, <2>2, <2>3
<1> QED BY <1>1, <1>2 DEF CartInv, CartsAreTrue, UnitsAreKept, OneCart

--------
\* The catalogue: the row of a product, its document and its reviews.

\* A request writes what it read but for its own part; what it has written is numbered.
WriteFits(c) ==
    /\ shopCall[c].step = "write" =>
          /\ shopCall[c].of = 0 /\ shopCall[c].kind \in {"update", "images", "delete"}
          /\ shopCall[c].kind = "update" =>
                /\ shopCall[c].writes.images = shopCall[c].read.images
                /\ shopCall[c].writes.deleted = shopCall[c].read.deleted
          /\ shopCall[c].kind = "images" =>
                shopCall[c].writes = [shopCall[c].read EXCEPT !.images = @ \cup {c}]
    /\ shopCall[c].step \in {"new", "count", "lock", "commit"} => shopCall[c].of = 0
    /\ shopCall[c].step \in {"index", "unindex"} => shopCall[c].of > 0
    /\ shopCall[c].step = "index" => shopCall[c].kind \in {"create", "update"}
    /\ shopCall[c].step = "unindex" => shopCall[c].kind = "delete"
    /\ shopCall[c].step \in {"count", "lock", "commit"} => shopCall[c].kind = "review"
    /\ shopCall[c].of > 0 => shopCall[c].kind # "review"
    /\ shopCall[c].kind = "delete" /\ shopCall[c].of > 0 => product.deleted
WritesFit == \A c \in ShopCalls : WriteFits(c)

Numbered == {c \in ShopCalls : shopCall[c].of > 0}
NumbersFit ==
    /\ \A c \in Numbered : shopCall[c].of <= Cardinality(Numbered)
    /\ \A c, d \in Numbered : shopCall[c].of = shopCall[d].of => c = d

\* The document is of the latest row that was indexed, and later ones are still to be.
Indexers == {c \in Numbered : shopCall[c].kind \in {"create", "update"}}
DocumentFits ==
    shopFaults = 0 /\ ~overrun /\ ~undone /\ ~product.deleted =>
        /\ Indexers = {} => product.status = "draft"
        /\ \A c \in Indexers :
              /\ shopCall[c].step = "index" \/ shopCall[c].of <= document.of
              /\ (\A d \in Indexers : shopCall[d].of <= shopCall[c].of) => shopCall[c].writes.status = product.status
        /\ \/ document = [status |-> "none", of |-> 0]
           \/ \E c \in Indexers : document = [status |-> shopCall[c].writes.status, of |-> shopCall[c].of]

\* A review that is under way is not committed.
ReviewsFit ==
    \A c \in ShopCalls :
        /\ c \in reviews => shopCall[c].step = "ended"
        /\ c \in rowLock => shopCall[c].step = "commit"

\* What a review counted is true of it still if none has counted meanwhile.
CountsFit ==
    ~countedAtOnce =>
        /\ reviewCount = Cardinality(reviews)
        /\ \A c \in Counted : shopCall[c].counted = Cardinality(reviews) + 1 /\ \A d \in Counted : c = d

CatalogueInv ==
    /\ CatalogueTypeOK /\ WritesFit /\ NumbersFit /\ DocumentFits /\ ReviewsFit
    /\ EditsAdd /\ CountsFit

ShopRecords == [kind : {"create", "update", "images", "delete", "review"}, step : ShopSteps,
                of : 0..Cardinality(ShopCalls), read : Rows, writes : Rows,
                counted : 0..Cardinality(ShopCalls)]

\* A request turns into another record; the others do not.
LEMMA ShopTurns ==
    ASSUME CatalogueInv, NEW c \in ShopCalls, NEW new \in ShopRecords, shopCall' = [shopCall EXCEPT ![c] = new]
    PROVE  /\ shopCall' \in [ShopCalls -> ShopRecords] /\ shopCall'[c] = new
           /\ \A d \in ShopCalls \ {c} : shopCall'[d] = shopCall[d]
BY DEF CatalogueInv, CatalogueTypeOK, ShopRecords

\* One more of the requests is still no more than there are.
LEMMA OneMoreRequest ==
    ASSUME NEW C \in SUBSET ShopCalls, NEW c \in ShopCalls, c \notin C
    PROVE  /\ Cardinality(C) \in Nat /\ Cardinality(C \cup {c}) = Cardinality(C) + 1
           /\ Cardinality(C) + 1 <= Cardinality(ShopCalls) /\ Cardinality(ShopCalls) \in Nat
<1>1. IsFiniteSet(ShopCalls) /\ IsFiniteSet(C)  BY CatalogueAssumption, FS_Subset
<1>2. Cardinality(C) \in Nat /\ Cardinality(C \cup {c}) = Cardinality(C) + 1
  BY <1>1, FS_AddElement, FS_CardinalityType
<1>3. Cardinality(C \cup {c}) <= Cardinality(ShopCalls) /\ Cardinality(ShopCalls) \in Nat
  BY <1>1, FS_Subset, FS_CardinalityType
<1> QED BY <1>2, <1>3

\* A step that writes no row and no document keeps everything but what it says of the reviews.
LEMMA ShopIsQuiet ==
    ASSUME CatalogueInv, NEW c \in ShopCalls, NEW new \in ShopRecords, shopCall' = [shopCall EXCEPT ![c] = new],
           WriteFits(c)', product' = product, document' = document, asked' = asked, undone' = undone,
           overrun' = overrun, new.of = shopCall[c].of, shopCall[c].of = 0 \/ shopFaults' # 0,
           shopFaults' = 0 => shopFaults = 0, shopFaults' \in 0..MaxShopFaults,
           reviews' \subseteq ShopCalls, reviewCount' \in 0..Cardinality(ShopCalls), countedAtOnce' \in BOOLEAN,
           rowLock' \subseteq ShopCalls, Cardinality(rowLock') <= 1, ReviewsFit', CountsFit'
    PROVE  CatalogueInv'
<1>1. /\ shopCall' \in [ShopCalls -> ShopRecords] /\ shopCall'[c] = new
      /\ \A d \in ShopCalls \ {c} : shopCall'[d] = shopCall[d]
  BY ShopTurns
<1>2. CatalogueTypeOK'  BY <1>1 DEF CatalogueInv, CatalogueTypeOK, ShopRecords
<1>3. WritesFit'
  <2>1. ASSUME NEW d \in ShopCalls \ {c} PROVE WriteFits(d)'  BY <1>1 DEF CatalogueInv, WritesFit, WriteFits
  <2> QED BY <2>1 DEF WritesFit
<1>4. Numbered' = Numbered /\ \A d \in Numbered : shopCall'[d].of = shopCall[d].of  BY <1>1 DEF Numbered
<1>5. NumbersFit'  BY <1>4 DEF CatalogueInv, NumbersFit
<1>6. DocumentFits'  BY <1>1, <1>4 DEF DocumentFits, Numbered, Indexers, CatalogueInv
<1>7. EditsAdd'  BY DEF CatalogueInv, EditsAdd
<1> QED BY <1>2, <1>3, <1>5, <1>6, <1>7 DEF CatalogueInv

\* What the invariant says of one request of the catalogue.
LEMMA ShopFacts ==
    ASSUME CatalogueInv, NEW c \in ShopCalls
    PROVE  /\ shopCall[c] \in ShopRecords /\ WriteFits(c) /\ ReviewsFit /\ CountsFit
           /\ product \in Rows /\ asked \in Rows /\ document \in Documents /\ undone \in BOOLEAN
           /\ reviews \subseteq ShopCalls /\ reviewCount \in 0..Cardinality(ShopCalls) /\ countedAtOnce \in BOOLEAN
           /\ rowLock \subseteq ShopCalls /\ Cardinality(rowLock) <= 1
           /\ shopFaults \in 0..MaxShopFaults /\ MaxShopFaults \in Nat
BY CatalogueAssumption DEF CatalogueInv, CatalogueTypeOK, ShopRecords, WritesFit

\* A request reads the product, or inserts a review and counts them.
LEMMA ShopReads ==
    ASSUME CatalogueInv, NEW c \in ShopCalls,
           \/ UpdateProduct(c) \/ UploadProductImages(c) \/ DeleteProduct(c)
           \/ InsertReview(c) \/ CountReviews(c)
    PROVE  CatalogueInv'
<1>1. /\ shopCall[c] \in ShopRecords /\ WriteFits(c) /\ ReviewsFit /\ CountsFit /\ product \in Rows
      /\ reviews \subseteq ShopCalls /\ reviewCount \in 0..Cardinality(ShopCalls) /\ countedAtOnce \in BOOLEAN
      /\ rowLock \subseteq ShopCalls /\ Cardinality(rowLock) <= 1
      /\ shopFaults \in 0..MaxShopFaults
  BY ShopFacts
<1>2. ASSUME NEW new \in ShopRecords, shopCall' = [shopCall EXCEPT ![c] = new], new.of = 0, WriteFits(c)',
             shopCall[c].step \in {"new", "count"}, new.step \notin {"lock", "commit"},
             UNCHANGED <<product, document, reviews, reviewCount, rowLock, asked, undone, overrun, countedAtOnce, shopFaults>>
      PROVE  CatalogueInv'
  <2>1. ReviewsFit'  BY <1>1, <1>2, ShopTurns DEF ReviewsFit
  <2>2. shopCall'[c] = new /\ \A d \in ShopCalls \ {c} : shopCall'[d] = shopCall[d]  BY <1>2, ShopTurns
  <2>3. Counted' = Counted /\ c \notin Counted  BY <1>2, <2>2 DEF Counted
  <2>4. \A d \in Counted : shopCall'[d] = shopCall[d]  BY <2>2, <2>3 DEF Counted
  <2>5. CountsFit'  BY <1>1, <1>2, <2>3, <2>4 DEF CountsFit
  <2> QED BY <1>1, <1>2, <2>1, <2>5, ShopIsQuiet DEF WriteFits
<1>3. ASSUME NEW kind \in {"update", "images", "delete"}, NEW row \in Rows, ReadProduct(c, kind, row),
             kind = "update" => row.images = product.images /\ row.deleted = product.deleted,
             kind = "images" => row = [product EXCEPT !.images = @ \cup {c}]
      PROVE  CatalogueInv'
  <2>1. PICK new : new = [shopCall[c] EXCEPT !.kind = kind, !.step = "write", !.read = product, !.writes = row]
    OBVIOUS
  <2>2. shopCall[c].step = "new" /\ shopCall' = [shopCall EXCEPT ![c] = new]
        /\ UNCHANGED <<product, document, reviews, reviewCount, rowLock, asked, undone, overrun, countedAtOnce, shopFaults>>
    BY <1>3, <2>1 DEF ReadProduct
  <2>3. /\ new \in ShopRecords /\ new.kind = kind /\ new.step = "write" /\ new.read = product /\ new.writes = row
        /\ new.of = shopCall[c].of
    BY <1>1, <2>1 DEF ShopRecords, ShopSteps
  <2>4. new.of = 0  BY <1>1, <2>2, <2>3 DEF WriteFits
  <2>5. shopCall'[c] = new  BY <2>2, <2>3, ShopTurns
  <2>6. WriteFits(c)'  BY <1>3, <2>3, <2>4, <2>5 DEF WriteFits
  <2> QED BY <1>2, <2>2, <2>3, <2>4, <2>6
<1>4. CASE UpdateProduct(c)  BY <1>4, <1>1, <1>3 DEF UpdateProduct, Rows
<1>5. CASE UploadProductImages(c)  BY <1>1, <1>3, <1>5 DEF Rows, UploadProductImages
<1>6. CASE DeleteProduct(c)  BY <1>1, <1>3, <1>6 DEF Rows, DeleteProduct
<1>7. ASSUME NEW new \in ShopRecords, new.kind = "review", new.step = "count", new.of = shopCall[c].of,
             shopCall[c].step \in {"new", "count"}, shopCall' = [shopCall EXCEPT ![c] = new],
             UNCHANGED <<product, document, reviews, reviewCount, rowLock, asked, undone, overrun, countedAtOnce, shopFaults>>
      PROVE  CatalogueInv'
  <2>1. new.of = 0  BY <1>1, <1>7 DEF WriteFits
  <2>2. shopCall'[c] = new  BY <1>7, ShopTurns
  <2>3. WriteFits(c)'  BY <1>7, <2>1, <2>2 DEF WriteFits
  <2> QED BY <1>2, <1>7, <2>1, <2>3
<1>8. CASE InsertReview(c)  BY <1>1, <1>8, <1>7 DEF ShopRecords, ShopSteps, InsertReview
<1>9. CASE CountReviews(c)
  <2>1. c \notin reviews /\ shopCall[c].kind = "review" /\ shopCall[c].step = "count"
    BY <1>1, <1>9 DEF CountReviews, ReviewsFit, WriteFits
  <2>2. PICK new : new = [shopCall[c] EXCEPT !.step = "lock", !.counted = Cardinality(reviews) + 1]  OBVIOUS
  <2>3. Cardinality(reviews) + 1 \in 0..Cardinality(ShopCalls)
    <3>1. /\ Cardinality(reviews) \in Nat /\ Cardinality(reviews) + 1 <= Cardinality(ShopCalls)
          /\ Cardinality(ShopCalls) \in Nat
      BY <1>1, <2>1, OneMoreRequest
    <3> QED BY <3>1
  <2>4. /\ new \in ShopRecords /\ new.kind = "review" /\ new.step = "lock" /\ new.of = shopCall[c].of
        /\ new.counted = Cardinality(reviews) + 1 /\ new.of = 0
    BY <1>1, <2>1, <2>2, <2>3 DEF ShopRecords, ShopSteps, WriteFits
  <2>5. /\ shopCall' = [shopCall EXCEPT ![c] = new]
        /\ UNCHANGED <<product, document, reviews, reviewCount, rowLock, asked, undone, overrun, shopFaults>>
        /\ countedAtOnce' = (countedAtOnce \/ Counted # {})
    BY <1>9, <2>2 DEF CountReviews
  <2>6. shopCall'[c] = new /\ \A d \in ShopCalls \ {c} : shopCall'[d] = shopCall[d]  BY <2>4, <2>5, ShopTurns
  <2>7. WriteFits(c)'  BY <2>4, <2>6 DEF WriteFits
  <2>8. ReviewsFit'  BY <1>1, <2>1, <2>5, <2>6 DEF ReviewsFit
  <2>9. CountsFit'
    <3> SUFFICES ASSUME ~countedAtOnce'
                 PROVE  /\ reviewCount' = Cardinality(reviews')
                        /\ \A e \in Counted' : /\ shopCall'[e].counted = Cardinality(reviews') + 1
                                              /\ \A d \in Counted' : e = d
      BY DEF CountsFit
    <3>1. Counted = {} /\ ~countedAtOnce  BY <2>5
    <3>2. Counted' \subseteq {c}  BY <2>6, <3>1 DEF Counted
    <3>3. \A e \in Counted' : e = c  BY <3>2
    <3>4. reviewCount' = Cardinality(reviews')  BY <1>1, <2>5, <3>1 DEF CountsFit
    <3> QED BY <2>4, <2>5, <2>6, <3>3, <3>4
  <2>10. countedAtOnce' \in BOOLEAN  BY <1>1, <2>5
  <2> QED BY <1>1, <2>1, <2>4, <2>5, <2>7, <2>8, <2>9, <2>10, ShopIsQuiet DEF WriteFits
<1> QED BY <1>4, <1>5, <1>6, <1>8, <1>9

\* A review takes the row and commits; a statement fails.
LEMMA ShopReviewsEnd ==
    ASSUME CatalogueInv, NEW c \in ShopCalls, LockProduct(c) \/ CommitReview(c) \/ ShopCallFails(c)
    PROVE  CatalogueInv'
<1>1. /\ shopCall[c] \in ShopRecords /\ WriteFits(c) /\ ReviewsFit /\ CountsFit
      /\ reviews \subseteq ShopCalls /\ reviewCount \in 0..Cardinality(ShopCalls) /\ countedAtOnce \in BOOLEAN
      /\ rowLock \subseteq ShopCalls /\ Cardinality(rowLock) <= 1
      /\ shopFaults \in 0..MaxShopFaults /\ MaxShopFaults \in Nat
  BY ShopFacts
<1>2. ASSUME NEW step \in {"commit", "ended"}, Shop(c, step)
      PROVE  \E new \in ShopRecords :
                /\ shopCall' = [shopCall EXCEPT ![c] = new] /\ new.step = step /\ new.of = shopCall[c].of
                /\ new.kind = shopCall[c].kind /\ new.counted = shopCall[c].counted /\ shopCall'[c] = new
                /\ \A d \in ShopCalls \ {c} : shopCall'[d] = shopCall[d]
  <2>1. PICK new : new = [shopCall[c] EXCEPT !.step = step]  OBVIOUS
  <2>2. /\ new \in ShopRecords /\ new.step = step /\ new.of = shopCall[c].of /\ new.kind = shopCall[c].kind
        /\ new.counted = shopCall[c].counted
    BY <1>1, <2>1 DEF ShopRecords, ShopSteps
  <2>3. shopCall' = [shopCall EXCEPT ![c] = new]  BY <1>2, <2>1 DEF Shop
  <2>4. shopCall'[c] = new /\ \A d \in ShopCalls \ {c} : shopCall'[d] = shopCall[d]  BY <2>2, <2>3, ShopTurns
  <2> QED BY <2>2, <2>3, <2>4
<1>3. CASE LockProduct(c)
  <2>1. /\ shopCall[c].step = "lock" /\ rowLock' = {c} /\ Shop(c, "commit")
        /\ product' = product /\ document' = document /\ reviews' = reviews /\ reviewCount' = reviewCount
        /\ asked' = asked /\ undone' = undone /\ overrun' = overrun /\ countedAtOnce' = countedAtOnce
        /\ shopFaults' = shopFaults
    BY <1>3 DEF LockProduct
  <2>2. PICK new \in ShopRecords :
           /\ shopCall' = [shopCall EXCEPT ![c] = new] /\ new.step = "commit" /\ new.of = shopCall[c].of
           /\ new.counted = shopCall[c].counted
           /\ new.kind = shopCall[c].kind /\ shopCall'[c] = new
           /\ \A d \in ShopCalls \ {c} : shopCall'[d] = shopCall[d]
    BY <1>2, <2>1
  <2>3. shopCall[c].of = 0 /\ shopCall[c].kind = "review" /\ c \notin reviews
    BY <1>1, <2>1 DEF WriteFits, ReviewsFit
  <2>4. WriteFits(c)'  BY <2>2, <2>3 DEF WriteFits
  <2>5. ReviewsFit'  BY <1>1, <2>1, <2>2, <2>3 DEF ReviewsFit
  <2>7. CountsFit'
    <3>1. Counted' = Counted  BY <2>1, <2>2 DEF Counted
    <3>2. shopCall'[c].counted = shopCall[c].counted  BY <2>2
    <3>3. \A d \in Counted : shopCall'[d].counted = shopCall[d].counted  BY <2>2, <3>2 DEF Counted
    <3> QED BY <1>1, <2>1, <3>1, <3>3 DEF CountsFit
  <2>6. rowLock' \subseteq ShopCalls /\ Cardinality(rowLock') <= 1
    <3>1. Cardinality({c}) = 1  BY FS_Singleton
    <3> QED BY <2>1, <3>1
  <2> QED BY <1>1, <2>1, <2>2, <2>3, <2>4, <2>5, <2>6, <2>7, ShopIsQuiet
<1>4. CASE CommitReview(c)
  <2>1. /\ shopCall[c].step = "commit" /\ reviews' = reviews \cup {c} /\ reviewCount' = shopCall[c].counted
        /\ countedAtOnce' = countedAtOnce
        /\ rowLock' = {} /\ Shop(c, "ended")
        /\ product' = product /\ document' = document /\ asked' = asked /\ undone' = undone
        /\ overrun' = overrun /\ shopFaults' = shopFaults
    BY <1>4 DEF CommitReview
  <2>2. PICK new \in ShopRecords :
           /\ shopCall' = [shopCall EXCEPT ![c] = new] /\ new.step = "ended" /\ new.of = shopCall[c].of
           /\ new.kind = shopCall[c].kind /\ shopCall'[c] = new
           /\ \A d \in ShopCalls \ {c} : shopCall'[d] = shopCall[d]
    BY <1>2, <2>1
  <2>3. shopCall[c].of = 0 /\ shopCall[c].kind = "review" /\ c \notin reviews
    BY <1>1, <2>1 DEF WriteFits, ReviewsFit
  <2>4. WriteFits(c)'  BY <2>2, <2>3 DEF WriteFits
  <2>5. ReviewsFit'  BY <1>1, <2>1, <2>2 DEF ReviewsFit
  <2>6. CountsFit'
    <3> SUFFICES ASSUME ~countedAtOnce'
                 PROVE  reviewCount' = Cardinality(reviews') /\ Counted' = {}
      BY DEF CountsFit
    <3>1. c \in Counted /\ \A d \in Counted : c = d  BY <1>1, <2>1 DEF CountsFit, Counted
    <3>2. shopCall[c].counted = Cardinality(reviews) + 1  BY <1>1, <2>1, <3>1 DEF CountsFit
    <3>3. Cardinality(reviews \cup {c}) = Cardinality(reviews) + 1  BY <1>1, <2>3, OneMoreRequest
    <3>4. Counted' = {}  BY <2>2, <3>1 DEF Counted
    <3> QED BY <2>1, <3>2, <3>3, <3>4
  <2>7. /\ reviews' \subseteq ShopCalls /\ reviewCount' \in 0..Cardinality(ShopCalls) /\ countedAtOnce' \in BOOLEAN
        /\ rowLock' \subseteq ShopCalls
    BY <1>1, <2>1 DEF ShopRecords
  <2>8. Cardinality(rowLock') <= 1  BY <2>1, FS_EmptySet
  <2> QED BY <1>1, <2>1, <2>2, <2>3, <2>4, <2>5, <2>6, <2>7, <2>8, ShopIsQuiet
<1>5. CASE ShopCallFails(c)
  <2>1. /\ shopCall[c].step \notin {"new", "ended"} /\ shopFaults < MaxShopFaults
        /\ rowLock' = rowLock \ {c} /\ Shop(c, "ended") /\ shopFaults' = shopFaults + 1
        /\ product' = product /\ document' = document /\ reviews' = reviews /\ reviewCount' = reviewCount
        /\ asked' = asked /\ undone' = undone /\ overrun' = overrun /\ countedAtOnce' = countedAtOnce
    BY <1>5 DEF ShopCallFails
  <2>2. PICK new \in ShopRecords :
           /\ shopCall' = [shopCall EXCEPT ![c] = new] /\ new.step = "ended" /\ new.of = shopCall[c].of
           /\ new.kind = shopCall[c].kind /\ shopCall'[c] = new
           /\ \A d \in ShopCalls \ {c} : shopCall'[d] = shopCall[d]
    BY <1>2, <2>1
  <2>3. c \notin reviews  BY <1>1, <2>1 DEF ReviewsFit
  <2>4. WriteFits(c)'  BY <1>1, <2>1, <2>2 DEF WriteFits
  <2>5. ReviewsFit'  BY <1>1, <2>1, <2>2, <2>3 DEF ReviewsFit
  <2>8. CountsFit'
    <3>1. Counted' \subseteq Counted /\ c \notin Counted'  BY <2>2 DEF Counted
    <3>2. \A d \in Counted' : shopCall'[d] = shopCall[d]  BY <2>2, <3>1 DEF Counted
    <3> QED BY <1>1, <2>1, <3>1, <3>2 DEF CountsFit
  <2>6. shopFaults' \in 0..MaxShopFaults /\ shopFaults' # 0  BY <1>1, <2>1
  <2>7. Cardinality(rowLock') <= 1  BY <1>1, CatalogueAssumption, FS_Subset, <2>1, FS_CardinalityType
  <2> QED BY <1>1, <2>1, <2>2, <2>4, <2>5, <2>6, <2>7, <2>8, ShopIsQuiet
<1> QED BY <1>3, <1>4, <1>5

\* A row with a part of it changed is a row.
LEMMA ImagesAreAdded ==
    ASSUME NEW r \in Rows, NEW c \in ShopCalls
    PROVE  /\ [r EXCEPT !.images = @ \cup {c}] \in Rows
           /\ [r EXCEPT !.images = @ \cup {c}].deleted = r.deleted
           /\ [r EXCEPT !.images = @ \cup {c}].status = r.status
BY DEF Rows

\* A row is its four parts.
LEMMA RowHasParts ==
    ASSUME NEW r \in Rows
    PROVE  /\ r.status \in ProductStatuses /\ r.title \in Titles /\ r.images \in SUBSET ShopCalls /\ r.deleted \in BOOLEAN
           /\ r = [status |-> r.status, title |-> r.title, images |-> r.images, deleted |-> r.deleted]
<1>1. r.status \in ProductStatuses /\ r.title \in Titles /\ r.images \in SUBSET ShopCalls /\ r.deleted \in BOOLEAN
  BY DEF Rows
<1>2. r = [status |-> r.status, title |-> r.title, images |-> r.images, deleted |-> r.deleted]  BY DEF Rows
<1> QED BY <1>1, <1>2

\* A row that an edit changes keeps its images and its mark.
LEMMA TitleIsChanged ==
    ASSUME NEW r \in Rows, NEW s \in ProductStatuses, NEW t \in Titles
    PROVE  /\ [r EXCEPT !.status = s, !.title = t]
                = [status |-> s, title |-> t, images |-> r.images, deleted |-> r.deleted]
           /\ [r EXCEPT !.status = s, !.title = t] \in Rows
<1>1. PICK q : q = [r EXCEPT !.status = s, !.title = t]  OBVIOUS
<1>2. q \in Rows  BY <1>1 DEF Rows
<1>3. q.status = s /\ q.title = t /\ q.images = r.images /\ q.deleted = r.deleted  BY <1>1 DEF Rows
<1>4. q = [status |-> q.status, title |-> q.title, images |-> q.images, deleted |-> q.deleted]
  BY <1>2, RowHasParts
<1> QED BY <1>1, <1>2, <1>3, <1>4

\* What was asked for, with the part of c, is what is written if c read what was there.
LEMMA AskedIsWritten ==
    ASSUME CatalogueInv, NEW c \in ShopCalls, shopCall[c].step = "write", ~product.deleted, NEW row,
           row = IF shopCall[c].kind = "delete" THEN [product EXCEPT !.deleted = TRUE] ELSE shopCall[c].writes
    PROVE  /\ row \in Rows /\ AskedBy(c) \in Rows
           /\ AskedBy(c).deleted => row.deleted
           /\ ~undone /\ (shopCall[c].kind = "delete" \/ shopCall[c].read = product) => row = AskedBy(c)
<1>1. /\ shopCall[c] \in ShopRecords /\ WriteFits(c) /\ product \in Rows /\ asked \in Rows
      /\ shopCall[c].read \in Rows /\ shopCall[c].writes \in Rows
  BY ShopFacts DEF ShopRecords
<1>2. ~asked.deleted /\ (~undone => product = asked)  BY DEF CatalogueInv, EditsAdd
<1>3. shopCall[c].kind \in {"update", "images", "delete"}  BY <1>1 DEF WriteFits
<1>4. CASE shopCall[c].kind = "delete"  BY <1>4, <1>1, <1>2 DEF AskedBy, Rows
<1>5. CASE shopCall[c].kind = "images"  BY <1>1, <1>5, ImagesAreAdded, <1>2 DEF AskedBy, WriteFits
<1>6. CASE shopCall[c].kind = "update"
  <2>1. PICK s, t : /\ s = IF shopCall[c].writes.status # shopCall[c].read.status
                           THEN shopCall[c].writes.status ELSE asked.status
                    /\ t = IF shopCall[c].writes.title # shopCall[c].read.title
                           THEN shopCall[c].writes.title ELSE asked.title
    OBVIOUS
  <2>2. row = shopCall[c].writes /\ AskedBy(c) = [asked EXCEPT !.status = s, !.title = t]
    BY <1>6, <2>1 DEF AskedBy
  <2>3. s \in ProductStatuses /\ t \in Titles  BY <1>1, <2>1 DEF Rows
  <2>4. /\ row \in Rows /\ AskedBy(c) \in Rows
        /\ AskedBy(c) = [status |-> s, title |-> t, images |-> asked.images, deleted |-> asked.deleted]
        /\ AskedBy(c).deleted = asked.deleted
        /\ row = [status |-> row.status, title |-> row.title, images |-> row.images, deleted |-> row.deleted]
    <3>1. row \in Rows  BY <1>1, <2>2
    <3>2. row = [status |-> row.status, title |-> row.title, images |-> row.images, deleted |-> row.deleted]
      BY <3>1, RowHasParts
    <3>3. /\ [asked EXCEPT !.status = s, !.title = t]
                = [status |-> s, title |-> t, images |-> asked.images, deleted |-> asked.deleted]
          /\ [asked EXCEPT !.status = s, !.title = t] \in Rows
      BY <1>1, <2>3, TitleIsChanged, Zenon
    <3>4. [status |-> s, title |-> t, images |-> asked.images, deleted |-> asked.deleted].deleted = asked.deleted
      OBVIOUS
    <3> QED BY <2>2, <3>1, <3>2, <3>3, <3>4
  <2>5. ASSUME ~undone, shopCall[c].read = product PROVE row = AskedBy(c)
    BY <1>2, <2>5, <1>1, <1>6, <2>2, <2>1, <2>4 DEF WriteFits
  <2> QED BY <1>2, <1>6, <2>4, <2>5
<1> QED BY <1>3, <1>4, <1>5, <1>6

\* A row that is written gets the next number.
LEMMA NextIsLargest ==
    ASSUME CatalogueInv, NEW c \in ShopCalls, shopCall[c].of = 0, NEW new \in ShopRecords, new.of = NextNumber,
           shopCall' = [shopCall EXCEPT ![c] = new]
    PROVE  /\ NumbersFit' /\ Numbered' = Numbered \cup {c} /\ c \notin Numbered
           /\ \A d \in Numbered : shopCall[d].of < new.of /\ d # c
<1>1. /\ shopCall' \in [ShopCalls -> ShopRecords] /\ shopCall'[c] = new
      /\ \A d \in ShopCalls \ {c} : shopCall'[d] = shopCall[d]
  BY ShopTurns
<1>2. c \notin Numbered /\ Numbered \in SUBSET ShopCalls  BY DEF Numbered
<1>3. Cardinality(Numbered) \in Nat /\ Cardinality(Numbered \cup {c}) = Cardinality(Numbered) + 1
  BY <1>2, OneMoreRequest
<1>4. new.of = Cardinality(Numbered) + 1  BY DEF NextNumber, Numbered
<1>5. Numbered' = Numbered \cup {c}  BY <1>1, <1>3, <1>4 DEF Numbered
<1>6. \A d \in Numbered : shopCall[d].of <= Cardinality(Numbered) /\ shopCall[d].of \in Nat
  BY DEF CatalogueInv, CatalogueTypeOK, NumbersFit, Numbered
<1>7. \A d \in Numbered : shopCall[d].of < new.of /\ d # c /\ shopCall'[d] = shopCall[d]
  BY <1>1, <1>2, <1>3, <1>4, <1>6
<1>8. Cardinality(Numbered)' = Cardinality(Numbered) + 1  BY <1>3, <1>5
<1>9. \A d \in Numbered' : shopCall'[d].of <= Cardinality(Numbered)'
  BY <1>1, <1>3, <1>4, <1>5, <1>6, <1>7, <1>8
<1>10. \A d, e \in Numbered' : shopCall'[d].of = shopCall'[e].of => d = e
  BY <1>1, <1>3, <1>4, <1>5, <1>6, <1>7 DEF CatalogueInv, NumbersFit
<1> QED BY <1>2, <1>5, <1>7, <1>9, <1>10 DEF NumbersFit

\* A step that changes a request no review has keeps the reviews as they are.
LEMMA ReviewsStay ==
    ASSUME CatalogueInv, NEW c \in ShopCalls, shopCall[c].step \in {"write", "index", "unindex"},
           shopCall'[c].step \notin {"lock", "commit"}, \A d \in ShopCalls \ {c} : shopCall'[d] = shopCall[d],
           reviews' = reviews, reviewCount' = reviewCount, rowLock' = rowLock, countedAtOnce' = countedAtOnce
    PROVE  /\ ReviewsFit' /\ CountsFit'
           /\ reviews' \subseteq ShopCalls /\ reviewCount' \in 0..Cardinality(ShopCalls) /\ countedAtOnce' \in BOOLEAN
           /\ rowLock' \subseteq ShopCalls /\ Cardinality(rowLock') <= 1
<1>1. /\ ReviewsFit /\ CountsFit
      /\ reviews \subseteq ShopCalls /\ reviewCount \in 0..Cardinality(ShopCalls) /\ countedAtOnce \in BOOLEAN
      /\ rowLock \subseteq ShopCalls /\ Cardinality(rowLock) <= 1
  BY ShopFacts
<1>2. c \notin reviews /\ c \notin rowLock  BY <1>1 DEF ReviewsFit
<1>3. ReviewsFit'  BY <1>1, <1>2 DEF ReviewsFit
<1>4. CountsFit'
  <2>1. Counted' = Counted /\ c \notin Counted  BY DEF Counted
  <2>2. \A d \in Counted : shopCall'[d] = shopCall[d]  BY <2>1 DEF Counted
  <2> QED BY <1>1, <2>1, <2>2 DEF CountsFit
<1> QED BY <1>1, <1>3, <1>4

\* The goroutines: the document becomes that of the row their request wrote.
LEMMA DocumentIsReplaced ==
    ASSUME CatalogueInv, NEW c \in ShopCalls, indexProduct(c) \/ deleteFromIndex(c)
    PROVE  CatalogueInv'
<1>1. /\ shopCall[c] \in ShopRecords /\ WriteFits(c) /\ product \in Rows /\ asked \in Rows /\ undone \in BOOLEAN
      /\ shopFaults \in 0..MaxShopFaults
  BY ShopFacts
<1>2. PICK status \in ProductStatuses \cup {"none"} :
         /\ Replaces(c, status) /\ shopCall[c].step \in {"index", "unindex"}
         /\ shopCall[c].step = "index" => status = shopCall[c].writes.status
  BY <1>1 DEF ShopRecords, Rows, indexProduct, deleteFromIndex
<1>3. /\ document' = [status |-> status, of |-> shopCall[c].of] /\ Shop(c, "ended")
      /\ overrun' = (overrun \/ shopCall[c].of < document.of)
      /\ product' = product /\ reviews' = reviews /\ reviewCount' = reviewCount /\ rowLock' = rowLock
      /\ asked' = asked /\ undone' = undone /\ countedAtOnce' = countedAtOnce /\ shopFaults' = shopFaults
  BY <1>2 DEF Replaces
<1>4. PICK new \in ShopRecords :
         /\ shopCall' = [shopCall EXCEPT ![c] = new] /\ new.step = "ended" /\ new.of = shopCall[c].of
         /\ new.kind = shopCall[c].kind /\ new.writes = shopCall[c].writes
  <2>1. PICK new : new = [shopCall[c] EXCEPT !.step = "ended"]  OBVIOUS
  <2>2. /\ new \in ShopRecords /\ new.step = "ended" /\ new.of = shopCall[c].of /\ new.kind = shopCall[c].kind
        /\ new.writes = shopCall[c].writes
    BY <1>1, <2>1 DEF ShopRecords, ShopSteps
  <2> QED BY <1>3, <2>1, <2>2 DEF Shop
<1>5. /\ shopCall' \in [ShopCalls -> ShopRecords] /\ shopCall'[c] = new
      /\ \A d \in ShopCalls \ {c} : shopCall'[d] = shopCall[d]
  BY <1>4, ShopTurns
<1>6. /\ ReviewsFit' /\ CountsFit'
      /\ reviews' \subseteq ShopCalls /\ reviewCount' \in 0..Cardinality(ShopCalls) /\ countedAtOnce' \in BOOLEAN
      /\ rowLock' \subseteq ShopCalls /\ Cardinality(rowLock') <= 1
  BY <1>2, <1>3, <1>4, <1>5, ReviewsStay
<1>7. CatalogueTypeOK'  BY <1>1, <1>3, <1>5, <1>6 DEF ShopRecords, Documents, CatalogueInv, CatalogueTypeOK
<1>8. WritesFit'  BY <1>1, <1>3, <1>4, <1>5 DEF WriteFits, CatalogueInv, WritesFit
<1>9. /\ Numbered' = Numbered /\ Indexers' = Indexers /\ Indexers \subseteq ShopCalls
      /\ \A d \in ShopCalls : shopCall'[d].of = shopCall[d].of /\ shopCall'[d].writes = shopCall[d].writes
  BY <1>4, <1>5 DEF Numbered, Indexers
<1>10. NumbersFit'
  <2>1. Numbered \subseteq ShopCalls  BY DEF Numbered
  <2> QED BY <1>9, <2>1 DEF CatalogueInv, NumbersFit
<1>11. DocumentFits'
  <2> SUFFICES ASSUME shopFaults' = 0, ~overrun', ~undone', ~product'.deleted PROVE DocumentFits'
    BY DEF DocumentFits
  <2>1. shopCall[c].step = "index" /\ shopCall[c].kind \in {"create", "update"} /\ shopCall[c].of > 0
    BY <1>1, <1>2, <1>3 DEF WriteFits
  <2>2. c \in Indexers /\ status = shopCall[c].writes.status  BY <1>2, <2>1 DEF Indexers, Numbered
  <2>3. /\ Indexers = {} => product.status = "draft"
        /\ \A d \in Indexers :
              /\ shopCall[d].step = "index" \/ shopCall[d].of <= document.of
              /\ (\A e \in Indexers : shopCall[e].of <= shopCall[d].of) => shopCall[d].writes.status = product.status
    BY <1>3 DEF CatalogueInv, DocumentFits
  <2>4. PICK m \in Int, n \in Int : m = document.of /\ n = shopCall[c].of /\ m <= n
    <3>1. document.of \in Int /\ shopCall[c].of \in Int /\ ~(shopCall[c].of < document.of)
      <4>1. document.of \in Int  BY DEF CatalogueInv, CatalogueTypeOK, Documents
      <4>2. shopCall[c].of \in Int  BY <1>1 DEF ShopRecords
      <4>3. ~(shopCall[c].of < document.of)  BY <1>3
      <4> QED BY <4>1, <4>2, <4>3
    <3> QED BY <3>1
  <2>5. document'.of = n /\ document' = [status |-> shopCall'[c].writes.status, of |-> shopCall'[c].of]
    BY <1>3, <1>9, <2>2, <2>4
  <2>6. ASSUME NEW d \in Indexers PROVE shopCall'[d].step = "index" \/ shopCall'[d].of <= document'.of
    BY <1>9, <2>4, <2>5, <1>5, <2>3 DEF CatalogueInv, CatalogueTypeOK
  <2>7. ASSUME NEW d \in Indexers, \A e \in Indexers : shopCall'[e].of <= shopCall'[d].of
        PROVE  shopCall'[d].writes.status = product'.status
    BY <1>3, <1>9, <2>3, <2>7
  <2> QED BY <1>3, <1>9, <2>2, <2>3, <2>5, <2>6, <2>7 DEF DocumentFits
<1>12. EditsAdd'  BY <1>3 DEF CatalogueInv, EditsAdd
<1> QED BY <1>6, <1>7, <1>8, <1>10, <1>11, <1>12 DEF CatalogueInv

\* A row is written, or is found deleted.
LEMMA RowIsWritten ==
    ASSUME CatalogueInv, NEW c \in ShopCalls, WriteProduct(c)
    PROVE  CatalogueInv'
<1>1. /\ shopCall[c] \in ShopRecords /\ WriteFits(c) /\ product \in Rows /\ asked \in Rows /\ undone \in BOOLEAN
      /\ document \in Documents /\ shopFaults \in 0..MaxShopFaults
  BY ShopFacts
<1>2. /\ shopCall[c].step = "write" /\ document' = document /\ reviews' = reviews /\ reviewCount' = reviewCount
      /\ rowLock' = rowLock /\ overrun' = overrun /\ countedAtOnce' = countedAtOnce /\ shopFaults' = shopFaults
  BY DEF WriteProduct
<1>3. shopCall[c].of = 0 /\ shopCall[c].kind \in {"update", "images", "delete"}  BY <1>1, <1>2 DEF WriteFits
<1>4. CASE product.deleted
  <2>1. Shop(c, "ended") /\ product' = product /\ asked' = asked /\ undone' = undone
    BY <1>4 DEF WriteProduct, Stands
  <2>2. PICK new : new = [shopCall[c] EXCEPT !.step = "ended"]  OBVIOUS
  <2>3. new \in ShopRecords /\ new.step = "ended" /\ new.of = shopCall[c].of /\ new.kind = shopCall[c].kind
    BY <1>1, <2>2 DEF ShopRecords, ShopSteps
  <2>4. shopCall' = [shopCall EXCEPT ![c] = new]  BY <2>1, <2>2 DEF Shop
  <2>5. shopCall'[c] = new /\ \A d \in ShopCalls \ {c} : shopCall'[d] = shopCall[d]  BY <2>3, <2>4, ShopTurns
  <2>6. WriteFits(c)'  BY <1>3, <2>3, <2>5 DEF WriteFits
  <2>7. /\ ReviewsFit' /\ CountsFit'
        /\ reviews' \subseteq ShopCalls /\ reviewCount' \in 0..Cardinality(ShopCalls) /\ countedAtOnce' \in BOOLEAN
        /\ rowLock' \subseteq ShopCalls /\ Cardinality(rowLock') <= 1
    BY <1>2, <2>3, <2>5, ReviewsStay
  <2> QED BY <1>1, <1>2, <1>3, <2>1, <2>3, <2>4, <2>6, <2>7, ShopIsQuiet
<1>5. CASE ~product.deleted
  <2>1. PICK step \in {"index", "unindex", "ended"} :
           /\ step = (CASE shopCall[c].kind = "update" -> "index"
                        [] shopCall[c].kind = "delete" -> "unindex"
                        [] OTHER -> "ended")
           /\ shopCall[c].kind = "update" => step = "index"
           /\ shopCall[c].kind = "delete" => step = "unindex"
           /\ shopCall[c].kind = "images" => step = "ended"
    BY <1>3
  <2>2. PICK new : new = [shopCall[c] EXCEPT !.of = NextNumber, !.step = step]  OBVIOUS
  <2>3. /\ product' = IF shopCall[c].kind = "delete" THEN [product EXCEPT !.deleted = TRUE]
                      ELSE shopCall[c].writes
        /\ asked' = AskedBy(c)
        /\ undone' = (undone \/ (shopCall[c].kind # "delete" /\ shopCall[c].read # product))
        /\ shopCall' = [shopCall EXCEPT ![c] = new]  BY <1>5, <2>1, <2>2 DEF WriteProduct, Stands
  <2>4. NextNumber \in 1..Cardinality(ShopCalls)
    <3>1. Numbered \in SUBSET ShopCalls /\ c \notin Numbered  BY <1>3 DEF Numbered
    <3>2. /\ Cardinality(Numbered) \in Nat /\ Cardinality(Numbered) + 1 <= Cardinality(ShopCalls)
          /\ Cardinality(ShopCalls) \in Nat
      BY <3>1, OneMoreRequest
    <3>3. NextNumber = Cardinality(Numbered) + 1  BY DEF NextNumber, Numbered
    <3> QED BY <3>2, <3>3
  <2>5. /\ new \in ShopRecords /\ new.kind = shopCall[c].kind /\ new.of = NextNumber /\ new.step = step
        /\ new.writes = shopCall[c].writes
    <3>1. NextNumber \in 0..Cardinality(ShopCalls)  BY <2>4
    <3> QED BY <1>1, <2>1, <2>2, <3>1 DEF ShopRecords, ShopSteps
  <2>6. /\ shopCall' \in [ShopCalls -> ShopRecords] /\ shopCall'[c] = new
        /\ \A d \in ShopCalls \ {c} : shopCall'[d] = shopCall[d]
    BY <2>3, <2>5, ShopTurns
  <2>7. /\ NumbersFit' /\ Numbered' = Numbered \cup {c} /\ c \notin Numbered
        /\ \A d \in Numbered : shopCall[d].of < new.of /\ d # c
    BY <1>3, <2>3, <2>5, NextIsLargest
  <2>8. /\ product' \in Rows /\ asked' \in Rows /\ (asked'.deleted => product'.deleted)
        /\ ~undone /\ (shopCall[c].kind = "delete" \/ shopCall[c].read = product) => product' = asked'
    BY <1>2, <1>5, <2>3, AskedIsWritten
  <2>9. undone' \in BOOLEAN /\ EditsAdd'  BY <1>1, <2>3, <2>8 DEF EditsAdd
  <2>10. /\ ReviewsFit' /\ CountsFit'
         /\ reviews' \subseteq ShopCalls /\ reviewCount' \in 0..Cardinality(ShopCalls) /\ countedAtOnce' \in BOOLEAN
         /\ rowLock' \subseteq ShopCalls /\ Cardinality(rowLock') <= 1
    BY <1>2, <2>1, <2>5, <2>6, ReviewsStay
  <2>11. CatalogueTypeOK'  BY <1>1, <1>2, <2>6, <2>8, <2>9, <2>10 DEF CatalogueInv, CatalogueTypeOK, ShopRecords
  <2>12. WritesFit'
    <3>1. shopCall[c].kind = "delete" => product'.deleted  BY <1>1, <2>3 DEF Rows
    <3>2. WriteFits(c)'
      <4>1. new.of > 0  BY <2>4, <2>5
      <4> QED BY <1>3, <2>1, <2>5, <2>6, <3>1, <4>1 DEF WriteFits
    <3>3. ASSUME NEW d \in ShopCalls \ {c} PROVE WriteFits(d)'
      BY <2>6, <1>5 DEF CatalogueInv, WritesFit, WriteFits
    <3> QED BY <3>2, <3>3 DEF WritesFit
  <2>13. DocumentFits'
    <3> SUFFICES ASSUME shopFaults' = 0, ~overrun', ~undone', ~product'.deleted PROVE DocumentFits'
      BY DEF DocumentFits
    <3>1. shopCall[c].kind \in {"update", "images"} /\ shopCall[c].read = product /\ ~undone
      BY <1>1, <1>3, <2>3 DEF Rows
    <3>2. /\ Indexers = {} => product.status = "draft"
          /\ \A d \in Indexers :
                /\ shopCall[d].step = "index" \/ shopCall[d].of <= document.of
                /\ (\A e \in Indexers : shopCall[e].of <= shopCall[d].of)
                      => shopCall[d].writes.status = product.status
          /\ \/ document = [status |-> "none", of |-> 0]
             \/ \E d \in Indexers : document = [status |-> shopCall[d].writes.status, of |-> shopCall[d].of]
      BY <1>2, <1>5, <3>1 DEF CatalogueInv, DocumentFits
    <3>3. /\ Indexers \subseteq Numbered /\ c \notin Indexers
          /\ \A d \in Indexers : shopCall'[d] = shopCall[d] /\ shopCall[d].of < new.of
      BY <2>6, <2>7 DEF Indexers, Numbered
    <3>4. product' = shopCall[c].writes  BY <2>3, <3>1
    <3>5. CASE shopCall[c].kind = "update"
      <4>1. Indexers' = Indexers \cup {c}  BY <2>6, <2>7, <2>5, <3>5 DEF Numbered, Indexers
      <4>2. shopCall'[c].step = "index" /\ shopCall'[c].of = new.of /\ shopCall'[c].writes.status = product'.status
        BY <2>1, <2>5, <2>6, <3>4, <3>5
      <4>3. ASSUME NEW d \in Indexers', \A e \in Indexers' : shopCall'[e].of <= shopCall'[d].of
            PROVE  shopCall'[d].writes.status = product'.status
        BY <4>1, <4>2, <4>3, <2>5, <3>3 DEF ShopRecords, CatalogueInv, CatalogueTypeOK, Numbered
      <4>4. \A d \in Indexers' : shopCall'[d].step = "index" \/ shopCall'[d].of <= document'.of
        BY <1>2, <3>2, <3>3, <4>1, <4>2
      <4>5. \/ document' = [status |-> "none", of |-> 0]
            \/ \E d \in Indexers' : document' = [status |-> shopCall'[d].writes.status, of |-> shopCall'[d].of]
        BY <1>2, <3>2, <3>3, <4>1
      <4> QED BY <4>1, <4>3, <4>4, <4>5 DEF DocumentFits
    <3>6. CASE shopCall[c].kind = "images"
      <4>1. Indexers' = Indexers  BY <2>6, <2>7, <2>5, <3>6 DEF Numbered, Indexers
      <4>2. product'.status = product.status  BY <1>1, <1>2, <3>1, <3>4, <3>6, ImagesAreAdded DEF WriteFits
      <4>3. \A d \in Indexers : shopCall'[d] = shopCall[d]  BY <3>3
      <4> QED BY <1>2, <3>2, <4>1, <4>2, <4>3 DEF DocumentFits
    <3> QED BY <3>1, <3>5, <3>6
  <2> QED BY <2>7, <2>9, <2>10, <2>11, <2>12, <2>13 DEF CatalogueInv
<1> QED BY <1>4, <1>5

\* The catalogue's invariant holds at first, is kept, and is what the run checks and more.
LEMMA CatalogueInvAtFirst == CatalogueInit => CatalogueInv
<1> SUFFICES ASSUME CatalogueInit PROVE CatalogueInv  OBVIOUS
<1>1. PICK t \in Titles : product = [status |-> "draft", title |-> t, images |-> {}, deleted |-> FALSE]
  BY DEF CatalogueInit
<1>2. PICK C \in SUBSET ShopCalls :
         /\ Cardinality(C) <= 1
         /\ shopCall = [c \in ShopCalls |->
                [kind |-> "create", step |-> IF c \in C THEN "index" ELSE "new",
                 of |-> IF c \in C THEN 1 ELSE 0, read |-> product, writes |-> product, counted |-> 0]]
  BY DEF CatalogueInit
<1>3. /\ document = [status |-> "none", of |-> 0] /\ reviews = {} /\ reviewCount = 0 /\ rowLock = {}
      /\ asked = product /\ undone = FALSE /\ overrun = FALSE /\ countedAtOnce = FALSE /\ shopFaults = 0
  BY DEF CatalogueInit
<1>4. product \in Rows /\ product.status = "draft" /\ ~product.deleted  BY <1>1 DEF Rows, ProductStatuses
<1>5. Cardinality(ShopCalls) \in Nat /\ Cardinality({}) = 0
  BY CatalogueAssumption, FS_CardinalityType, FS_EmptySet
<1>6. IsFiniteSet(C) /\ Cardinality(C) \in Nat  BY CatalogueAssumption, FS_Subset, FS_CardinalityType
<1>7. \A c \in C : Cardinality(C) = 1 /\ 1 <= Cardinality(ShopCalls) /\ \A d \in C : c = d
  BY <1>6, FS_EmptySet, <1>2, CatalogueAssumption, FS_Subset, FS_Singleton
<1>8. shopCall \in [ShopCalls -> ShopRecords]  BY <1>5, <1>7, <1>2, <1>4 DEF ShopRecords, ShopSteps
<1>9. CatalogueTypeOK
  <2>1. document \in Documents  BY <1>3, <1>5 DEF Documents
  <2>2. shopFaults \in 0..MaxShopFaults /\ reviewCount \in 0..Cardinality(ShopCalls)
    BY <1>3, <1>5, CatalogueAssumption
  <2>3. Cardinality(rowLock) <= 1  BY <1>3, <1>5
  <2> QED BY <1>3, <1>4, <1>8, <2>1, <2>2, <2>3 DEF CatalogueTypeOK, ShopRecords
<1>10. \A c \in ShopCalls : /\ shopCall[c].kind = "create" /\ shopCall[c].step \in {"new", "index"}
                            /\ shopCall[c].writes = product
                            /\ (c \in C) = (shopCall[c].of > 0) /\ (c \in C => shopCall[c].of = 1)
                            /\ (c \in C) = (shopCall[c].step = "index") /\ (c \notin C => shopCall[c].of = 0)
  BY <1>2
<1>11. WritesFit  BY <1>10 DEF WritesFit, WriteFits
<1>12. Numbered = C /\ Indexers = C  BY <1>10 DEF Numbered, Indexers
<1>13. NumbersFit  BY <1>7, <1>10, <1>12 DEF NumbersFit
<1>14. DocumentFits  BY <1>3, <1>4, <1>10, <1>12 DEF DocumentFits
<1>15. ReviewsFit /\ EditsAdd  BY <1>3, <1>5 DEF ReviewsFit, EditsAdd
<1>16. Counted = {}  BY <1>10 DEF Counted
<1>17. CountsFit  BY <1>3, <1>5, <1>16 DEF CountsFit
<1> QED BY <1>9, <1>11, <1>13, <1>14, <1>15, <1>17 DEF CatalogueInv

\* Every step of the catalogue, or none of it, keeps its invariant.
LEMMA CatalogueInvKept == CatalogueInv /\ [CatalogueNext]_shopVars => CatalogueInv'
<1> SUFFICES ASSUME CatalogueInv, [CatalogueNext]_shopVars PROVE CatalogueInv'  OBVIOUS
<1>1. CASE UNCHANGED shopVars
  BY <1>1 DEF shopVars, CatalogueInv, CatalogueTypeOK, WritesFit, WriteFits, NumbersFit, Numbered, DocumentFits,
     Indexers, ReviewsFit, EditsAdd, CountsFit, Counted
<1>2. CASE CatalogueNext
  BY <1>2, ShopReads, RowIsWritten, DocumentIsReplaced, ShopReviewsEnd DEF CatalogueNext
<1> QED BY <1>1, <1>2

\* The invariant says what the run checks of the catalogue.
LEMMA CatalogueTrue == CatalogueInv => CatalogueTypeOK /\ CatalogueAgrees
<1> SUFFICES ASSUME CatalogueInv PROVE CatalogueTypeOK /\ CatalogueAgrees  OBVIOUS
<1>1. ASSUME \A c \in ShopCalls : shopCall[c].step \notin {"index", "unindex"}, shopFaults = 0, ~overrun, ~undone
      PROVE  SearchProducts(TRUE) = SearchProducts(FALSE)
  <2>1. CASE product.deleted  BY <2>1 DEF SearchProducts, ListProducts, GetProduct
  <2>2. CASE ~product.deleted
    <3>1. SearchProducts(TRUE) = (document.status = "active") /\ SearchProducts(FALSE) = (product.status = "active")
      BY <2>2 DEF SearchProducts, ListProducts, GetProduct
    <3>2. /\ Indexers = {} => product.status = "draft"
          /\ \A d \in Indexers :
                /\ shopCall[d].step = "index" \/ shopCall[d].of <= document.of
                /\ (\A e \in Indexers : shopCall[e].of <= shopCall[d].of)
                      => shopCall[d].writes.status = product.status
          /\ \/ document = [status |-> "none", of |-> 0]
             \/ \E d \in Indexers : document = [status |-> shopCall[d].writes.status, of |-> shopCall[d].of]
      BY <1>1, <2>2 DEF CatalogueInv, DocumentFits
    <3>3. \A d \in Indexers : shopCall[d].of <= document.of /\ shopCall[d].of > 0
      BY <1>1, <3>2 DEF Indexers, Numbered
    <3>4. CASE Indexers = {}
      <4>1. document.status = "none"  BY <3>2, <3>4
      <4> QED BY <3>1, <3>2, <3>4, <4>1
    <3>5. CASE Indexers # {}
      <4>1. document # [status |-> "none", of |-> 0]
        BY <3>3, <3>5 DEF CatalogueInv, CatalogueTypeOK, Indexers, Numbered
      <4>2. PICK d \in Indexers : document = [status |-> shopCall[d].writes.status, of |-> shopCall[d].of]
        BY <3>2, <4>1
      <4>3. shopCall[d].writes.status = product.status  BY <3>2, <3>3, <4>2
      <4> QED BY <3>1, <4>2, <4>3
    <3> QED BY <3>4, <3>5, Zenon
  <2> QED BY <2>1, <2>2, Zenon
<1>2. SearchFollowsTheTable  BY <1>1 DEF SearchFollowsTheTable
<1>3. ReviewsAreCounted  BY DEF CatalogueInv, CountsFit, ReviewsAreCounted
<1> QED BY <1>2, <1>3 DEF CatalogueInv, CatalogueAgrees

--------
\* Every run of the whole is one of each component.

\* A step of the whole is a step of the carts or none, and of the catalogue or none.
LEMMA ShopStepsEach == [Next]_vars => [CartNext]_cartVars /\ [CatalogueNext]_shopVars
BY DEF vars, Next, SessionStep, BoardStep, CartStep, CatalogueStep, FeedStep, PresenceStep, PageStep, ProfileStep,
   RecommendationStep, SearchStep

\* Carts and catalogue keep their invariants in every run of the whole.
LEMMA ShopInvHolds == Spec => [](CartInv /\ CatalogueInv)
<1>1. Init => CartInv /\ CatalogueInv  BY CartInvAtFirst, CatalogueInvAtFirst DEF Init
<1>2. (CartInv /\ CatalogueInv) /\ [Next]_vars => (CartInv /\ CatalogueInv)'
  BY ShopStepsEach, CartInvKept, CatalogueInvKept
<1> QED BY <1>1, <1>2, PTL DEF Spec

\* What is in carts and orders was put there, once; the stock holds what is reserved for them; a
\* row has all that was asked for, the search follows it and every review counts: CartsAreTrue
\* and CatalogueAgrees, for all requests, quantities, titles and failures.
THEOREM ShopAlwaysTrue == Spec => []ShopIsTrue
<1>1. CartInv /\ CatalogueInv => ShopIsTrue  BY CartsTrue, CatalogueTrue DEF ShopIsTrue
<1> QED BY <1>1, ShopInvHolds, PTL

=====
