---------------------------- MODULE OrdersProofs ----------------------------
(***************************************************************************)
(* Proofs about Orders, for any buyers, sellers, products and requests and *)
(* any number of failures.                                                 *)
(***************************************************************************)
EXTENDS Orders, FiniteSetTheorems, TLAPS

USE DEF Steps, Statuses, Orders, Items, RequestRecords

-----------------------------------------------------------------------------
(* Types.                                                                  *)

Typed(q) == q \in RequestRecords /\ Complete(q)

\* AtLeast0 is a natural number no larger than a natural number it is given.
LEMMA Clamp ==
    ASSUME NEW m \in Nat, NEW n \in Nat
    PROVE  AtLeast0(m - n) \in Nat /\ AtLeast0(m - n) <= m
  BY DEF AtLeast0

\* The record that finished requests go back to.
LEMMA IdleTyped == Typed(IdleRequest)
  BY DEF Typed, Complete, IdleRequest

\* Continue keeps the type of req if the new record has it.
LEMMA ContinueTyped ==
    ASSUME TypeOK, NEW r \in Requests, NEW new, Typed(new), Continue(r, new)
    PROVE  req' \in [Requests -> RequestRecords] /\ \A q \in Requests : Complete(req'[q])
  <1>1. IdleRequest \in RequestRecords /\ new \in RequestRecords  BY IdleTyped DEF Typed
  <1>2. req' \in [Requests -> RequestRecords]  BY <1>1 DEF Continue, TypeOK
  <1>3. ASSUME NEW q \in Requests PROVE Complete(req'[q])  BY IdleTyped DEF Continue, TypeOK, Typed
  <1> QED BY <1>2, <1>3

\* A request that has begun stays typed when it moves to a step its op has.
LEMMA EditTyped ==
    ASSUME NEW q \in RequestRecords, Complete(q), q.op # "none",
           NEW step \in Steps, NEW todo \in SUBSET Products, NEW sellers \in SUBSET Sellers,
           step \in {"reserve", "create", "clear"} => q.op = "place",
           step \in {"commit", "write", "return"} => q.op \in {"status", "cancel", "return"}
    PROVE  /\ Typed([q EXCEPT !.step = step])
           /\ Typed([q EXCEPT !.step = step, !.todo = todo])
           /\ Typed([q EXCEPT !.sellers = sellers, !.step = step])
           /\ Typed([q EXCEPT !.todo = todo, !.step = step])
           /\ Typed([q EXCEPT !.todo = todo, !.step = step, !.sellers = sellers])
  BY ZenonT(60) DEF Typed, Complete

\* An ended request is a typed record too.
LEMMA FinishTyped ==
    ASSUME TypeOK, NEW r \in Requests, Active(r)
    PROVE  Typed([req[r] EXCEPT !.step = "done"])
  <1>1. req[r] \in RequestRecords /\ Complete(req[r]) /\ req[r].op # "none"  BY DEF TypeOK, Complete, Active
  <1> QED BY <1>1, EditTyped

\* Nor does it lose its type when it is done with a product.
LEMMA DoneTyped ==
    ASSUME TypeOK, NEW r \in Requests, NEW p \in Products, NEW next \in Steps,
           req[r].op # "none",
           next \in {"reserve", "create", "clear"} => req[r].op = "place",
           next \in {"commit", "write", "return"} => req[r].op \in {"status", "cancel", "return"}
    PROVE  /\ Typed(Done(r, p, next))
           /\ \A sellers \in SUBSET Sellers :
                 Typed([Done(r, p, next) EXCEPT !.sellers = sellers])
  <1> DEFINE q == req[r]
             todo == q.todo \ {p}
             step == IF q.todo = {p} THEN next ELSE q.step
  <1>1. q \in RequestRecords /\ Complete(q) /\ q.op # "none"  BY DEF TypeOK
  <1>2. todo \in SUBSET Products /\ step \in Steps  BY <1>1
  <1>3. /\ step \in {"reserve", "create", "clear"} => q.op = "place"
        /\ step \in {"commit", "write", "return"} => q.op \in {"status", "cancel", "return"}
    BY <1>1 DEF Complete
  <1>4. Done(r, p, next) = [q EXCEPT !.todo = todo, !.step = step]  BY DEF Done
  <1> HIDE DEF q, todo, step
  <1>5. Typed([q EXCEPT !.todo = todo, !.step = step])  BY <1>1, <1>2, <1>3, EditTyped, ZenonT(60)
  <1>6. ASSUME NEW sellers \in SUBSET Sellers
        PROVE  Typed([Done(r, p, next) EXCEPT !.sellers = sellers])
    <2>1. Typed([q EXCEPT !.todo = todo, !.step = step, !.sellers = sellers])  BY <1>1, <1>2, <1>3, EditTyped
    <2> QED BY <1>1, <1>4, <2>1
  <1> QED BY <1>4, <1>5, <1>6

\* The lines of an order are quantities, and so is what a request moves.
LEMMA AmountIsNat ==
    ASSUME TypeOK, NEW r \in Requests, NEW p \in Products, req[r].op # "none"
    PROVE  Amount(r, p) \in Nat
  <1>1. CASE req[r].op = "place"  BY <1>1 DEF TypeOK, Amount
  <1>2. CASE req[r].op # "place"  BY <1>2 DEF TypeOK, Typed, Complete, Amount, Lines
  <1> QED BY <1>1, <1>2

\* The type invariant holds at first.
LEMMA InitTypeOK == Init => TypeOK
  <1> SUFFICES ASSUME Init PROVE TypeOK  OBVIOUS
  <1>1. \A r \in Requests : Typed(req[r])  BY IdleTyped DEF Init
  <1>2. req \in [Requests -> RequestRecords]  BY IdleTyped DEF Init, Typed
  <1>3. /\ quantity \in [Products -> Nat] /\ reserved \in [Products -> Nat]
        /\ cart \in [Buyers -> Items]
        /\ status \in [Orders -> Statuses \cup {"none"}]
    BY ProductAssumption DEF Init
  <1>4. failures \in 0..MaxFailures /\ calm \in BOOLEAN  BY FailureAssumption DEF Init
  <1> QED BY <1>1, <1>2, <1>3, <1>4 DEF Init, TypeOK, Typed

\* Every step of a request keeps the type invariant.
LEMMA StepTypeOK == TypeOK /\ [Next]_vars => TypeOK'
  <1> SUFFICES ASSUME TypeOK, [Next]_vars PROVE TypeOK'  OBVIOUS
  <1> USE FailureAssumption
  <1>0. CASE UNCHANGED vars  BY <1>0 DEF TypeOK, vars, stockVars, orderVars, historyVars, Complete
  <1>1. ASSUME NEW r \in Requests, NEW b \in Buyers, PlaceOrder(r, b) PROVE TypeOK'
    <2>1. Typed([IdleRequest EXCEPT !.step = "reserve", !.op = "place", !.buyer = b,
                                    !.items = cart[b], !.todo = Picked(cart[b])])
      BY DEF TypeOK, Typed, Complete, IdleRequest, Picked
    <2>2. req' \in [Requests -> RequestRecords] /\ \A q \in Requests : Complete(req'[q])
      BY <1>1, <2>1, ContinueTyped DEF PlaceOrder
    <2> QED BY <1>1, <2>2 DEF PlaceOrder, TypeOK, stockVars, orderVars, historyVars
  <1>2. ASSUME NEW r \in Requests, ReserveInventory(r) PROVE TypeOK'
    <2>1. PICK p \in req[r].todo :
             \/ /\ reserved' = [reserved EXCEPT ![p] = @ + Amount(r, p)]
                /\ Continue(r, [Done(r, p, "create") EXCEPT
                                  !.sellers = {SellerOf[q] : q \in Picked(req[r].items)}])
             \/ Finish(r) /\ UNCHANGED reserved
      BY <1>2 DEF ReserveInventory
    <2>2. p \in Products /\ req[r].step = "reserve" /\ req[r].op = "place" /\ Active(r)
      BY <1>2 DEF ReserveInventory, TypeOK, Complete, Active
    <2>3. Typed([Done(r, p, "create") EXCEPT
                   !.sellers = {SellerOf[q] : q \in Picked(req[r].items)}])
      <3>1. {SellerOf[q] : q \in Picked(req[r].items)} \in SUBSET Sellers  BY ProductAssumption DEF Picked
      <3> QED BY <2>2, <3>1, DoneTyped
    <2>4. req' \in [Requests -> RequestRecords] /\ \A q \in Requests : Complete(req'[q])
      BY <2>1, <2>2, <2>3, ContinueTyped, FinishTyped DEF Finish
    <2>5. reserved' \in [Products -> Nat]  BY <2>2, AmountIsNat, <2>1 DEF TypeOK
    <2> QED BY <1>2, <2>4, <2>5 DEF ReserveInventory, TypeOK, orderVars, historyVars
  <1>3. ASSUME NEW r \in Requests, CreateOrder(r) PROVE TypeOK'
    <2>1. PICK s \in req[r].sellers :
             /\ status' = [status EXCEPT ![<<r, s>>] = "pending"]
             /\ Continue(r, [req[r] EXCEPT !.sellers = @ \ {s},
                               !.step = IF req[r].sellers = {s} THEN "clear" ELSE @])
      BY <1>3 DEF CreateOrder
    <2>2. req[r].step = "create" /\ req[r].op = "place"  BY <1>3 DEF CreateOrder, TypeOK, Complete
    <2>3. Typed([req[r] EXCEPT !.sellers = @ \ {s},
                               !.step = IF req[r].sellers = {s} THEN "clear" ELSE @])
      <3>1. req[r] \in RequestRecords /\ Complete(req[r])  BY DEF TypeOK
      <3> DEFINE step == IF req[r].sellers = {s} THEN "clear" ELSE req[r].step
                 sellers == req[r].sellers \ {s}
      <3>2. step \in {"clear", "create"} /\ sellers \in SUBSET Sellers  BY <2>2, <3>1
      <3> HIDE DEF step, sellers
      <3>3. Typed([req[r] EXCEPT !.sellers = sellers, !.step = step])
        BY <2>2, <3>1, <3>2, EditTyped, ZenonT(60)
      <3> QED BY <3>3 DEF step, sellers
    <2>4. req' \in [Requests -> RequestRecords] /\ \A q \in Requests : Complete(req'[q])
      BY <2>1, <2>3, ContinueTyped
    <2>5. status' \in [Orders -> Statuses \cup {"none"}]  BY <2>1 DEF TypeOK
    <2> QED BY <1>3, <2>4, <2>5 DEF CreateOrder, TypeOK, stockVars, historyVars
  <1>4. ASSUME NEW r \in Requests, UndoCheckout(r) PROVE TypeOK'
    <2>1. req[r].step = "create" /\ req[r].op = "place"  BY <1>4 DEF UndoCheckout, TypeOK, Complete
    <2>2. Typed([req[r] EXCEPT !.step = "release", !.todo = Picked(req[r].items)])
      <3> DEFINE todo == Picked(req[r].items)
      <3>1. req[r] \in RequestRecords /\ Complete(req[r]) /\ req[r].op # "none"  BY <2>1 DEF TypeOK
      <3>2. todo \in SUBSET Products  BY DEF Picked
      <3>3. "release" \in Steps  BY DEF Steps
      <3> HIDE DEF todo
      <3>4. Typed([req[r] EXCEPT !.step = "release", !.todo = todo])
        BY <2>1, <3>1, <3>2, <3>3, EditTyped, ZenonT(60)
      <3> QED BY <3>4 DEF todo
    <2>3. req' \in [Requests -> RequestRecords] /\ \A q \in Requests : Complete(req'[q])
      BY <1>4, <2>2, ContinueTyped DEF UndoCheckout
    <2> QED BY <1>4, <2>3 DEF UndoCheckout, Fails, TypeOK, stockVars, orderVars
  <1>5. ASSUME NEW r \in Requests, ClearCart(r) PROVE TypeOK'
    <2>1. req' \in [Requests -> RequestRecords] /\ \A q \in Requests : Complete(req'[q])
      BY <1>5, FinishTyped, ContinueTyped DEF ClearCart, Finish, Active
    <2>2. cart' \in [Buyers -> Items] /\ failures' \in 0..MaxFailures  BY <1>5 DEF ClearCart, Fails, TypeOK
    <2> QED BY <1>5, <2>1, <2>2 DEF ClearCart, TypeOK, stockVars, orderVars
  <1>6. ASSUME NEW r \in Requests, ReleaseInventory(r) PROVE TypeOK'
    <2>1. PICK p \in req[r].todo :
             /\ \/ reserved' = [reserved EXCEPT ![p] = Released(p, Amount(r, p))]
                \/ UNCHANGED reserved
             /\ failures' \in 0..MaxFailures
             /\ Continue(r, Done(r, p, "done"))
      BY <1>6, SMTT(60) DEF ReleaseInventory, Fails, TypeOK
    <2>2. p \in Products /\ req[r].step = "release" /\ req[r].op # "none"
      BY <1>6 DEF ReleaseInventory, TypeOK, Complete
    <2>3. Typed(Done(r, p, "done"))  BY <2>2, DoneTyped
    <2>4. req' \in [Requests -> RequestRecords] /\ \A q \in Requests : Complete(req'[q])
      BY <2>1, <2>3, ContinueTyped
    <2>5. reserved' \in [Products -> Nat]
      <3>1. Released(p, Amount(r, p)) \in Nat  BY <2>2, AmountIsNat, Clamp DEF Released, TypeOK
      <3> QED BY <2>1, <3>1 DEF TypeOK
    <2> QED BY <1>6, <2>1, <2>4, <2>5 DEF ReleaseInventory, TypeOK, orderVars
  <1>7. ASSUME NEW r \in Requests, CommitInventory(r) PROVE TypeOK'
    <2>1. PICK p \in req[r].todo :
             /\ \/ /\ quantity' = [quantity EXCEPT ![p] = AtLeast0(@ - Amount(r, p))]
                   /\ reserved' = [reserved EXCEPT ![p] = Released(p, Amount(r, p))]
                \/ UNCHANGED stockVars
             /\ failures' \in 0..MaxFailures
             /\ Continue(r, Done(r, p, "write"))
      BY <1>7 DEF CommitInventory, Fails, TypeOK
    <2>2. p \in Products /\ req[r].step = "commit"
            /\ req[r].op \in {"status", "cancel", "return"}
      BY <1>7 DEF CommitInventory, TypeOK, Complete
    <2>3. Typed(Done(r, p, "write"))  BY <2>2, DoneTyped
    <2>4. req' \in [Requests -> RequestRecords] /\ \A q \in Requests : Complete(req'[q])
      BY <2>1, <2>3, ContinueTyped
    <2>5. quantity' \in [Products -> Nat] /\ reserved' \in [Products -> Nat]
      <3>1. Amount(r, p) \in Nat  BY <2>2, AmountIsNat
      <3>2. Released(p, Amount(r, p)) \in Nat /\ AtLeast0(quantity[p] - Amount(r, p)) \in Nat
        BY <2>2, <3>1, Clamp DEF Released, TypeOK
      <3>3. CASE UNCHANGED stockVars  BY <3>3 DEF TypeOK, stockVars
      <3>4. CASE /\ quantity' = [quantity EXCEPT ![p] = AtLeast0(@ - Amount(r, p))]
                 /\ reserved' = [reserved EXCEPT ![p] = Released(p, Amount(r, p))]  BY <3>4, <3>2 DEF TypeOK
      <3> QED BY <2>1, <3>3, <3>4
    <2> QED BY <1>7, <2>1, <2>4, <2>5 DEF CommitInventory, TypeOK, orderVars
  <1>8. ASSUME NEW r \in Requests, NEW o \in Orders,
               UpdateStatus(r, o) \/ CancelOrder(r, o) \/ CreateReturn(r, o)
        PROVE TypeOK'
    <2>1. PICK op \in {"status", "cancel", "return"}, step \in {"commit", "write", "return"},
               next \in Statuses : Start(r, o, op, step, next)
      BY <1>8 DEF UpdateStatus, CancelOrder, CreateReturn, Allowed
    <2>2. Typed([IdleRequest EXCEPT !.step = step, !.op = op, !.order = o,
                                    !.next = next, !.todo = Picked(Lines(o))])
      BY DEF Typed, Complete, IdleRequest, Picked
    <2>3. req' \in [Requests -> RequestRecords] /\ \A q \in Requests : Complete(req'[q])
      BY <2>1, <2>2, ContinueTyped DEF Start
    <2> QED BY <2>1, <2>3 DEF Start, TypeOK, stockVars, orderVars
  <1>9. ASSUME NEW r \in Requests, UpdateOrderStatus(r) PROVE TypeOK'
    BY <1>9, EditTyped, ContinueTyped DEF UpdateOrderStatus, TypeOK, Complete, stockVars, historyVars
  <1>10. ASSUME NEW r \in Requests, InsertReturn(r) PROVE TypeOK'
    BY <1>10, FinishTyped, ContinueTyped DEF InsertReturn, TypeOK, Complete, Active, Finish, stockVars,
       historyVars
  <1>11. ASSUME NEW r \in Requests, Abort(r) PROVE TypeOK'
    BY <1>11, FinishTyped, ContinueTyped DEF Abort, Finish, Fails, TypeOK, stockVars, orderVars
  <1> QED BY <1>0, <1>1, <1>2, <1>3, <1>4, <1>5, <1>6, <1>7, <1>8, <1>9, <1>10, <1>11 DEF Next

\* Tables, requests and failures always have their types.
THEOREM TypeCorrect == Spec => []TypeOK
  <1> QED BY InitTypeOK, StepTypeOK, PTL DEF Spec

-----------------------------------------------------------------------------
(* Stock.                                                                  *)

\* Every step keeps the reservations within the stock: one that reserves has
\* checked it, the others are clamped.
LEMMA StepStocked ==
    TypeOK /\ ReservationsAreStocked /\ [Next]_vars => ReservationsAreStocked'
  <1> SUFFICES ASSUME TypeOK, ReservationsAreStocked, [Next]_vars,
                      NEW p \in Products \ Backorder
               PROVE  reserved'[p] <= quantity'[p]
    BY DEF ReservationsAreStocked
  <1>0. reserved[p] <= quantity[p] /\ reserved[p] \in Nat /\ quantity[p] \in Nat
    BY DEF TypeOK, ReservationsAreStocked
  <1>1. CASE UNCHANGED stockVars  BY <1>0, <1>1 DEF stockVars
  <1>2. ASSUME NEW r \in Requests, ReserveInventory(r) PROVE reserved'[p] <= quantity'[p]
    BY <1>2, <1>0, AmountIsNat DEF ReserveInventory, TypeOK, Complete, CanReserve, Available
  <1>3. ASSUME NEW r \in Requests, ReleaseInventory(r) PROVE reserved'[p] <= quantity'[p]
    <2>1. quantity' = quantity  BY <1>3 DEF ReleaseInventory
    <2>2. CASE UNCHANGED reserved  BY <1>0, <2>1, <2>2
    <2>3. ASSUME NEW t \in req[r].todo,
                 reserved' = [reserved EXCEPT ![t] = Released(t, Amount(r, t))]
          PROVE  reserved'[p] <= quantity'[p]
      <3>1. t \in Products /\ req[r].op # "none"  BY <1>3 DEF ReleaseInventory, TypeOK, Complete
      <3>2. Released(t, Amount(r, t)) \in Nat /\ Released(t, Amount(r, t)) <= reserved[t]
        BY <3>1, AmountIsNat, Clamp DEF Released, TypeOK
      <3> QED BY <1>0, <2>1, <2>3, <3>1, <3>2 DEF TypeOK
    <2> QED BY <1>3, <2>2, <2>3 DEF ReleaseInventory
  <1>4. ASSUME NEW r \in Requests, CommitInventory(r) PROVE reserved'[p] <= quantity'[p]
    BY <1>1, <1>4, AmountIsNat, <1>0 DEF CommitInventory, TypeOK, Complete, Released, AtLeast0
  <1> QED
    BY <1>1, <1>2, <1>3, <1>4 DEF Next, vars, PlaceOrder, CreateOrder, UndoCheckout,
       ClearCart, UpdateStatus, CancelOrder, CreateReturn, Start, UpdateOrderStatus,
       InsertReturn, Abort

\* However requests interleave, no more is reserved than is in stock.
THEOREM StockHolds == Spec => []ReservationsAreStocked
  <1>1. Init => ReservationsAreStocked  BY ProductAssumption DEF Init, ReservationsAreStocked
  <1> QED BY <1>1, TypeCorrect, StepStocked, PTL DEF Spec

-----------------------------------------------------------------------------
(* Stages of an order.                                                     *)

\* What a handler has read of the order it is about to write, given the orders
\* shipped and delivered: this stays true, as neither set loses an order.
Backed(q, s, d) ==
    /\ (q.op \in {"status", "cancel", "return"} /\ q.next = "delivered") => q.order \in s
    /\ q.step = "return" => q.order \in d

Stages == StagesAreNotSkipped /\ \A r \in Requests : Backed(req[r], shipped, delivered)

\* A request that goes on with a backed record leaves every request backed.
LEMMA ContinueBacked ==
    ASSUME TypeOK, Stages, NEW r \in Requests, NEW new, Continue(r, new),
           shipped \subseteq shipped', delivered \subseteq delivered',
           Backed(new, shipped', delivered')
    PROVE  \A q \in Requests : Backed(req'[q], shipped', delivered')
  <1> SUFFICES ASSUME NEW q \in Requests PROVE Backed(req'[q], shipped', delivered')  OBVIOUS
  <1>1. CASE q # r
    <2>1. req'[q] = req[q]  BY <1>1 DEF Continue, TypeOK
    <2> QED BY <2>1 DEF Stages, Backed
  <1>2. CASE q = r  BY <1>2 DEF Continue, TypeOK, Backed, IdleRequest
  <1> QED BY <1>1, <1>2

\* A record stays backed when it moves to a step other than "return".
LEMMA EditBacked ==
    ASSUME NEW q \in RequestRecords, NEW s, NEW d, Backed(q, s, d),
           NEW step, step # "return", NEW todo, NEW sellers
    PROVE  /\ Backed([q EXCEPT !.step = step], s, d)
           /\ Backed([q EXCEPT !.step = step, !.todo = todo], s, d)
           /\ Backed([q EXCEPT !.todo = todo, !.step = step], s, d)
           /\ Backed([q EXCEPT !.sellers = sellers, !.step = step], s, d)
           /\ Backed([q EXCEPT !.todo = todo, !.step = step, !.sellers = sellers], s, d)
  BY DEF Backed

\* Records of the requests that are in progress, in the form EditBacked takes.
LEMMA DoneBacked ==
    ASSUME TypeOK, Stages, NEW r \in Requests, NEW p, NEW next, next # "return",
           req[r].step # "return", NEW sellers
    PROVE  /\ Backed(Done(r, p, next), shipped, delivered)
           /\ Backed([Done(r, p, next) EXCEPT !.sellers = sellers], shipped, delivered)
  <1> DEFINE q == req[r]
             todo == q.todo \ {p}
             step == IF q.todo = {p} THEN next ELSE q.step
  <1>1. q \in RequestRecords /\ Backed(q, shipped, delivered) /\ step # "return"  BY DEF TypeOK, Stages
  <1>2. Done(r, p, next) = [q EXCEPT !.todo = todo, !.step = step]  BY DEF Done
  <1> HIDE DEF q, todo, step
  <1>3. /\ Backed([q EXCEPT !.todo = todo, !.step = step], shipped, delivered)
        /\ Backed([q EXCEPT !.todo = todo, !.step = step, !.sellers = sellers],
                  shipped, delivered)
    BY <1>1, EditBacked
  <1> QED BY <1>1, <1>2, <1>3

\* No step makes an order skip a stage.
LEMMA StepStages == TypeOK /\ Stages /\ [Next]_vars => Stages'
  <1> SUFFICES ASSUME TypeOK, Stages, [Next]_vars PROVE Stages'  OBVIOUS
  <1>0. CASE UNCHANGED vars  BY <1>0 DEF Stages, StagesAreNotSkipped, Backed, vars, orderVars
  <1>a. ASSUME UNCHANGED orderVars,
               \A q \in Requests : Backed(req'[q], shipped', delivered')
        PROVE  Stages'
    BY <1>a DEF Stages, StagesAreNotSkipped, Backed, orderVars
  <1>b. \A r \in Requests : req[r] \in RequestRecords /\ Backed(req[r], shipped, delivered)
    BY DEF TypeOK, Stages
  <1>1. ASSUME NEW r \in Requests, NEW b \in Buyers, PlaceOrder(r, b) PROVE Stages'
    BY <1>1, ContinueBacked, <1>a DEF Backed, IdleRequest, PlaceOrder, orderVars
  <1>2. ASSUME NEW r \in Requests, ReserveInventory(r) PROVE Stages'
    BY <1>2, <1>b, DoneBacked, EditBacked, ContinueBacked, <1>a DEF ReserveInventory, Finish, orderVars
  <1>3. ASSUME NEW r \in Requests, CreateOrder(r) PROVE Stages'
    <2>1. PICK s \in req[r].sellers :
             /\ status' = [status EXCEPT ![<<r, s>>] = "pending"]
             /\ Continue(r, [req[r] EXCEPT !.sellers = @ \ {s},
                               !.step = IF req[r].sellers = {s} THEN "clear" ELSE @])
      BY <1>3 DEF CreateOrder
    <2>2. UNCHANGED <<shipped, delivered, returns>> /\ req[r].step = "create"  BY <1>3 DEF CreateOrder
    <2>3. Backed([req[r] EXCEPT !.sellers = @ \ {s},
                     !.step = IF req[r].sellers = {s} THEN "clear" ELSE @],
                 shipped', delivered')
      <3> DEFINE step == IF req[r].sellers = {s} THEN "clear" ELSE req[r].step
                 sellers == req[r].sellers \ {s}
      <3>1. step # "return"  BY <2>2
      <3> HIDE DEF step, sellers
      <3>2. Backed([req[r] EXCEPT !.sellers = sellers, !.step = step], shipped', delivered')
        BY <1>b, <2>2, <3>1, EditBacked
      <3> QED BY <3>2 DEF step, sellers
    <2>4. \A q \in Requests : Backed(req'[q], shipped', delivered')  BY <2>1, <2>2, <2>3, ContinueBacked
    <2>5. StagesAreNotSkipped'  BY <2>1, <2>2 DEF Stages, StagesAreNotSkipped, TypeOK
    <2> QED BY <2>4, <2>5 DEF Stages
  <1>4. ASSUME NEW r \in Requests,
               UndoCheckout(r) \/ ClearCart(r) \/ Abort(r)
        PROVE  Stages'
    BY <1>4, <1>b, EditBacked, ContinueBacked, <1>a DEF UndoCheckout, ClearCart, Abort, Finish, orderVars
  <1>5. ASSUME NEW r \in Requests, ReleaseInventory(r) \/ CommitInventory(r) PROVE Stages'
    <2>1. UNCHANGED orderVars /\ req[r].step # "return"  BY <1>5 DEF ReleaseInventory, CommitInventory
    <2>2. PICK p \in req[r].todo, next \in {"done", "write"} : Continue(r, Done(r, p, next))
      BY <1>5 DEF ReleaseInventory, CommitInventory
    <2>3. Backed(Done(r, p, next), shipped', delivered')  BY <2>1, DoneBacked DEF orderVars
    <2>4. \A q \in Requests : Backed(req'[q], shipped', delivered')
      BY <2>1, <2>2, <2>3, ContinueBacked DEF orderVars
    <2> QED BY <1>a, <2>1, <2>4
  <1>6. ASSUME NEW r \in Requests, NEW o \in Orders,
               UpdateStatus(r, o) \/ CancelOrder(r, o) \/ CreateReturn(r, o)
        PROVE  Stages'
    <2>1. PICK op, step, next :
             /\ Start(r, o, op, step, next)
             /\ next = "delivered" => status[o] = "shipped"
             /\ step = "return" => status[o] = "delivered"
      BY <1>6 DEF UpdateStatus, Allowed, CancelOrder, CreateReturn
    <2>2. UNCHANGED orderVars  BY <2>1 DEF Start
    <2>3. Backed([IdleRequest EXCEPT !.step = step, !.op = op, !.order = o,
                                     !.next = next, !.todo = Picked(Lines(o))],
                 shipped', delivered')
      BY <2>1, <2>2 DEF Backed, IdleRequest, Stages, StagesAreNotSkipped, orderVars
    <2>4. \A q \in Requests : Backed(req'[q], shipped', delivered')
      BY <2>1, <2>2, <2>3, ContinueBacked DEF Start, orderVars
    <2> QED BY <1>a, <2>2, <2>4
  <1>7. ASSUME NEW r \in Requests, UpdateOrderStatus(r) PROVE Stages'
    <2> DEFINE o == req[r].order
               next == req[r].next
               step == IF req[r].op = "cancel" THEN "release" ELSE "done"
    <2>1. /\ o \in Orders /\ next \in Statuses
          /\ req[r].op \in {"status", "cancel", "return"}
      BY <1>7 DEF UpdateOrderStatus, TypeOK, Complete
    <2>2. next = "delivered" => o \in shipped  BY <2>1 DEF Stages, Backed
    <2>3. /\ status' = [status EXCEPT ![o] = next]
          /\ shipped' = IF next = "shipped" THEN shipped \cup {o} ELSE shipped
          /\ delivered' = IF next = "delivered" THEN delivered \cup {o} ELSE delivered
          /\ returns' = returns
          /\ Continue(r, [req[r] EXCEPT !.step = step])
      BY <1>7 DEF UpdateOrderStatus
    <2>4. StagesAreNotSkipped'
      <3> HIDE DEF o, next, step
      <3> QED BY <2>1, <2>2, <2>3 DEF Stages, StagesAreNotSkipped, TypeOK
    <2>5. shipped \subseteq shipped' /\ delivered \subseteq delivered' /\ step # "return"  BY <2>3
    <2>6. Backed([req[r] EXCEPT !.step = step], shipped', delivered')  BY <1>b, <2>5, EditBacked DEF Backed
    <2>7. \A q \in Requests : Backed(req'[q], shipped', delivered')  BY <2>3, <2>5, <2>6, ContinueBacked
    <2> QED BY <2>4, <2>7 DEF Stages
  <1>8. ASSUME NEW r \in Requests, InsertReturn(r) PROVE Stages'
    <2>1. req[r].order \in Orders /\ req[r].order \in delivered
      BY <1>8 DEF InsertReturn, TypeOK, Complete, Stages, Backed
    <2>2. /\ returns' = returns \cup {req[r].order}
          /\ status' = [status EXCEPT ![req[r].order] = "returning"]
          /\ UNCHANGED <<shipped, delivered>>
          /\ Continue(r, [req[r] EXCEPT !.step = "done"])
      BY <1>8 DEF InsertReturn, Finish
    <2>3. StagesAreNotSkipped'  BY <2>1, <2>2 DEF Stages, StagesAreNotSkipped, TypeOK
    <2>4. Backed([req[r] EXCEPT !.step = "done"], shipped', delivered')  BY <1>b, <2>2, EditBacked
    <2>5. \A q \in Requests : Backed(req'[q], shipped', delivered')  BY <2>2, <2>4, ContinueBacked
    <2> QED BY <2>3, <2>5 DEF Stages
  <1> QED BY <1>0, <1>1, <1>2, <1>3, <1>4, <1>5, <1>6, <1>7, <1>8 DEF Next

\* An order is shipped before it is delivered, and delivered before it is returned.
THEOREM StagesHold == Spec => []StagesAreNotSkipped
  <1>1. Init => Stages  BY DEF Init, Backed, IdleRequest, Stages, StagesAreNotSkipped
  <1>2. Stages => StagesAreNotSkipped  BY DEF Stages
  <1> QED BY <1>1, <1>2, TypeCorrect, StepStages, PTL DEF Spec

-----------------------------------------------------------------------------
(* Stock of the open orders.                                               *)

\* What the op and the step of a request say of each other.
ShapeFits(q) ==
    /\ q.step = "commit" => q.op = "status" /\ q.next = "delivered"
    /\ q.step = "write" => q.op \in {"status", "cancel"}
    /\ q.step = "release" => q.op \in {"place", "cancel"}
    /\ q.step = "return" => q.op = "return"
    /\ q.op = "cancel" => q.next = "cancelled"
    /\ q.op = "place" => q.step \in {"reserve", "create", "clear", "release", "done"}

\* Requests at work on an order: all but checkouts.
On(r) == Active(r) /\ req[r].op \in {"status", "cancel", "return"}

\* An order exists only if its request created it, and was found before it was written.
OrdersAreCreated ==
    /\ \A r \in Requests, s \in Sellers : status[<<r, s>>] # "none" =>
          /\ req[r].op = "place"
          /\ req[r].step \in {"create", "clear", "release", "done"}
          /\ req[r].step = "create" => s \notin req[r].sellers
    /\ \A r \in Requests : On(r) => status[req[r].order] # "none"

\* While calm, one request at a time is at work on an order, what it has read still holds, a
\* cancelled order is not open, and a checkout that is undone has no order.
OrdersAreAlone ==
    calm => /\ \A q, r \in Requests : On(q) /\ On(r) /\ req[q].order = req[r].order => q = r
            /\ \A r \in Requests : On(r) =>
                  /\ req[r].step \in {"commit", "write"}
                       => req[r].next \in Allowed(status[req[r].order])
                  /\ req[r].step = "return" => status[req[r].order] = "delivered"
                  /\ req[r].step = "release" => status[req[r].order] \notin Open
            /\ \A r \in Requests : req[r].op = "place" /\ req[r].step = "release" =>
                  \A s \in Sellers : status[<<r, s>>] = "none"

\* A delivery has taken p for order o ...
Taken(o, p) ==
    \E r \in Requests : /\ Active(r) /\ req[r].order = o /\ Delivering(r)
                        /\ req[r].step = "write" \/ p \notin req[r].todo

\* ... a checkout has reserved p and may still give it to an order ...
Keeps(q, p) == /\ q.op = "place"
               /\ \/ q.step = "reserve" /\ p \notin q.todo
                  \/ q.step = "create"
                  \/ q.step = "release" /\ p \in q.todo

\* ... a cancellation is still to release it ...
Releasing(o, p) ==
    \E q \in Requests : /\ req[q].op = "cancel" /\ req[q].step = "release"
                        /\ req[q].order = o /\ p \in req[q].todo

\* ... or the order is open: what is reserved for order o, if the order is or will be.
Holding(o, p) ==
    \/ status[o] \in Open /\ ~Taken(o, p)
    \/ status[o] = "none" /\ Keeps(req[o[1]], p)
    \/ Releasing(o, p)

\* The units reserved for orders and for what may become one are reserved.
Units(p) == {u \in Orders \X Nat : Holding(u[1], p) /\ u[2] \in 1..Lines(u[1])[p]}
UnitsAreReserved == calm => \A p \in Products : Cardinality(Units(p)) <= reserved[p]

CalmInv == /\ TypeOK /\ \A r \in Requests : ShapeFits(req[r])
           /\ OrdersAreCreated /\ OrdersAreAlone /\ UnitsAreReserved

-----------------------------------------------------------------------------
(* What the steps of a request do to its record.                           *)

\* The other requests stay as they are.
Others(r) == \A q \in Requests \ {r} : req'[q] = req[q]

\* A record that moves keeps what the request is about; one that ends, a checkout's items.
Moved(q, n) == n.op = q.op /\ n.order = q.order /\ n.next = q.next /\ n.items = q.items
Ended(q, n) == IF q.op = "place" THEN Moved(q, n) /\ n.step = "done" ELSE n = IdleRequest

Places(r) ==
    /\ req[r].step = "idle" /\ UNCHANGED <<status, reserved, calm>>
    /\ req'[r].step = "reserve" /\ req'[r].op = "place"
    /\ req'[r].todo = Picked(req'[r].items)

Reserves(r) ==
    /\ req[r].step = "reserve" /\ UNCHANGED <<status, calm>> /\ Moved(req[r], req'[r])
    /\ \E p \in req[r].todo :
          /\ reserved' = [reserved EXCEPT ![p] = @ + Amount(r, p)]
          /\ req'[r].todo = req[r].todo \ {p}
          /\ req'[r].step = IF req[r].todo = {p} THEN "create" ELSE "reserve"

Leaves(r) ==
    /\ Active(r) /\ UNCHANGED <<status, reserved>> /\ Ended(req[r], req'[r])
    /\ calm' => calm /\ ~Delivering(r)

Creates(r) ==
    /\ req[r].step = "create" /\ UNCHANGED <<reserved, calm>> /\ Moved(req[r], req'[r])
    /\ \E s \in req[r].sellers :
          /\ status' = [status EXCEPT ![<<r, s>>] = "pending"]
          /\ req'[r].sellers = req[r].sellers \ {s}
          /\ req'[r].step \in {"create", "clear"}

Undoes(r) ==
    /\ req[r].step = "create" /\ UNCHANGED <<status, reserved>> /\ Moved(req[r], req'[r])
    /\ req'[r].step = "release" /\ req'[r].todo = Picked(req[r].items)
    /\ calm' => calm /\ Created(r) = {}

Releases(r) ==
    /\ req[r].step = "release" /\ UNCHANGED <<status, calm>>
    /\ \E p \in req[r].todo :
          /\ reserved' \in {reserved, [reserved EXCEPT ![p] = Released(p, Amount(r, p))]}
          /\ \/ Ended(req[r], req'[r])
             \/ /\ Moved(req[r], req'[r]) /\ req'[r].step = "release"
                /\ req'[r].todo = req[r].todo \ {p}

Commits(r) ==
    /\ req[r].step = "commit" /\ UNCHANGED <<status, calm>> /\ Moved(req[r], req'[r])
    /\ \E p \in req[r].todo :
          /\ reserved' \in {reserved, [reserved EXCEPT ![p] = Released(p, Amount(r, p))]}
          /\ req'[r].todo = req[r].todo \ {p}
          /\ \/ req'[r].step = "commit"
             \/ req'[r].step = "write" /\ req[r].todo = {p}

Starts(r, o) ==
    /\ req[r].step = "idle" /\ UNCHANGED <<status, reserved>>
    /\ req'[r].order = o /\ req'[r].todo = Picked(Lines(o))
    /\ calm' => calm /\ ~Overlaps(o)
    /\ \/ /\ req'[r].op = "status" /\ req'[r].next \in Allowed(status[o])
          /\ req'[r].step = IF req'[r].next = "delivered" THEN "commit" ELSE "write"
       \/ /\ req'[r].op = "cancel" /\ req'[r].next = "cancelled" /\ req'[r].step = "write"
          /\ status[o] \in {"pending", "processing"}
       \/ /\ req'[r].op = "return" /\ req'[r].step = "return" /\ status[o] = "delivered"

Writes(r) ==
    /\ req[r].step = "write" /\ UNCHANGED <<reserved, calm>>
    /\ status' = [status EXCEPT ![req[r].order] = req[r].next]
    /\ IF req[r].op = "cancel"
       THEN /\ Moved(req[r], req'[r]) /\ req'[r].step = "release"
            /\ req'[r].todo = req[r].todo
       ELSE req'[r] = IdleRequest

Returns(r) ==
    /\ req[r].step = "return" /\ UNCHANGED <<reserved, calm>>
    /\ status' = [status EXCEPT ![req[r].order] = "returning"]
    /\ req'[r] = IdleRequest

\* What a step of request r is, seen from the orders and their stock.
Effect(r) ==
    /\ Others(r)
    /\ \/ Places(r) \/ Reserves(r) \/ Leaves(r) \/ Creates(r) \/ Undoes(r) \/ Releases(r)
       \/ Commits(r) \/ (\E o \in Orders : Starts(r, o)) \/ Writes(r) \/ Returns(r)

\* What Continue makes of the records.
LEMMA ContinueEffect ==
    ASSUME TypeOK, NEW r \in Requests, NEW new, Continue(r, new)
    PROVE  /\ Others(r)
           /\ new.step = "done" /\ new.op # "place" => req'[r] = IdleRequest
           /\ ~(new.step = "done" /\ new.op # "place") => req'[r] = new
  BY DEF Continue, Others, TypeOK

\* A request that finishes ends.
LEMMA FinishEffect ==
    ASSUME TypeOK, NEW r \in Requests, Active(r), Finish(r)
    PROVE  Others(r) /\ Ended(req[r], req'[r])
  <1> DEFINE new == [req[r] EXCEPT !.step = "done"]
  <1>1. new.step = "done" /\ new.op = req[r].op /\ Moved(req[r], new)  BY DEF TypeOK, Moved
  <1>2. Continue(r, new)  BY DEF Finish
  <1> HIDE DEF new
  <1>3. /\ Others(r)
        /\ new.op # "place" => req'[r] = IdleRequest
        /\ new.op = "place" => req'[r] = new
    BY <1>1, <1>2, ContinueEffect
  <1> QED BY <1>1, <1>3 DEF Ended

\* The fields of a record that is done with p.
LEMMA DoneFields ==
    ASSUME TypeOK, NEW r \in Requests, NEW p, NEW next, NEW sellers
    PROVE  LET step == IF req[r].todo = {p} THEN next ELSE req[r].step
               new == Done(r, p, next)
               more == [Done(r, p, next) EXCEPT !.sellers = sellers]
           IN  /\ new.step = step /\ new.todo = req[r].todo \ {p} /\ Moved(req[r], new)
               /\ more.step = step /\ more.todo = req[r].todo \ {p} /\ Moved(req[r], more)
  BY DEF Done, TypeOK, Moved

\* The request alone, without its sellers.
LEMMA DoneIs ==
    ASSUME TypeOK, NEW r \in Requests, NEW p, NEW next
    PROVE  /\ Done(r, p, next).step = IF req[r].todo = {p} THEN next ELSE req[r].step
           /\ Done(r, p, next).todo = req[r].todo \ {p} /\ Moved(req[r], Done(r, p, next))
  BY DEF Done, TypeOK, Moved

\* Every step has one of these effects.
LEMMA StepEffect ==
    ASSUME TypeOK, NEW r \in Requests,
           \/ \E b \in Buyers : PlaceOrder(r, b)
           \/ ReserveInventory(r) \/ CreateOrder(r) \/ UndoCheckout(r) \/ ClearCart(r)
           \/ ReleaseInventory(r) \/ CommitInventory(r)
           \/ \E o \in Orders : UpdateStatus(r, o) \/ CancelOrder(r, o) \/ CreateReturn(r, o)
           \/ UpdateOrderStatus(r) \/ InsertReturn(r) \/ Abort(r)
    PROVE  Effect(r)
  <1>1. req[r] \in RequestRecords /\ Complete(req[r])  BY DEF TypeOK
  <1>2. ASSUME NEW b \in Buyers, PlaceOrder(r, b) PROVE Effect(r)
    <2> DEFINE new == [IdleRequest EXCEPT !.step = "reserve", !.op = "place", !.buyer = b,
                                          !.items = cart[b], !.todo = Picked(cart[b])]
    <2>1. /\ new.step = "reserve" /\ new.op = "place" /\ new.items = cart[b]
          /\ new.todo = Picked(cart[b])
      BY DEF IdleRequest
    <2>2. Continue(r, new)  BY <1>2 DEF PlaceOrder
    <2> HIDE DEF new
    <2>3. Others(r) /\ req'[r] = new  BY <2>1, <2>2, ContinueEffect
    <2>4. Places(r)  BY <1>2, <2>1, <2>3 DEF PlaceOrder, Places, stockVars, orderVars, historyVars
    <2> QED BY <2>3, <2>4 DEF Effect
  <1>3. ASSUME ReserveInventory(r) PROVE Effect(r)
    <2>1. req[r].step = "reserve" /\ req[r].op = "place" /\ Active(r) /\ ~Delivering(r)
      BY <1>1, <1>3 DEF ReserveInventory, Complete, Active, Delivering
    <2>2. UNCHANGED <<status, calm>>  BY <1>3 DEF ReserveInventory, orderVars, historyVars
    <2>3. CASE Finish(r) /\ UNCHANGED reserved  BY <2>1, <2>2, <2>3, FinishEffect DEF Effect, Leaves
    <2>4. ASSUME NEW p \in req[r].todo,
                 reserved' = [reserved EXCEPT ![p] = @ + Amount(r, p)],
                 Continue(r, [Done(r, p, "create") EXCEPT
                                !.sellers = {SellerOf[q] : q \in Picked(req[r].items)}])
          PROVE  Effect(r)
      <3> DEFINE sellers == {SellerOf[q] : q \in Picked(req[r].items)}
                 new == [Done(r, p, "create") EXCEPT !.sellers = sellers]
      <3> HIDE DEF sellers
      <3>1. /\ new.step = IF req[r].todo = {p} THEN "create" ELSE req[r].step
            /\ new.todo = req[r].todo \ {p} /\ Moved(req[r], new)
        BY <1>1 DEF Done, Moved
      <3>2. Continue(r, new)  BY <2>4 DEF sellers
      <3> HIDE DEF new
      <3>3. Others(r) /\ req'[r] = new  BY <2>1, <3>1, <3>2, ContinueEffect
      <3>4. Reserves(r)  BY <2>1, <2>2, <2>4, <3>1, <3>3 DEF Reserves
      <3> QED BY <3>3, <3>4 DEF Effect
    <2> QED BY <1>3, <2>3, <2>4 DEF ReserveInventory
  <1>4. ASSUME CreateOrder(r) PROVE Effect(r)
    <2>1. PICK s \in req[r].sellers :
             /\ status' = [status EXCEPT ![<<r, s>>] = "pending"]
             /\ Continue(r, [req[r] EXCEPT !.sellers = @ \ {s},
                               !.step = IF req[r].sellers = {s} THEN "clear" ELSE @])
      BY <1>4 DEF CreateOrder
    <2> DEFINE step == IF req[r].sellers = {s} THEN "clear" ELSE req[r].step
               new == [req[r] EXCEPT !.sellers = @ \ {s}, !.step = step]
    <2>2. step \in {"create", "clear"}  BY <1>4 DEF CreateOrder
    <2>3. Continue(r, new)  BY <2>1
    <2> HIDE DEF step
    <2>4. new.sellers = req[r].sellers \ {s} /\ new.step = step /\ Moved(req[r], new)  BY <1>1 DEF Moved
    <2> HIDE DEF new
    <2>5. Others(r) /\ req'[r] = new  BY <2>2, <2>3, <2>4, ContinueEffect
    <2>6. Creates(r)  BY <1>4, <2>1, <2>2, <2>4, <2>5 DEF CreateOrder, Creates, stockVars, historyVars
    <2> QED BY <2>5, <2>6 DEF Effect
  <1>5. ASSUME UndoCheckout(r) PROVE Effect(r)
    <2> DEFINE new == [req[r] EXCEPT !.step = "release", !.todo = Picked(req[r].items)]
    <2>1. new.step = "release" /\ new.todo = Picked(req[r].items) /\ Moved(req[r], new)  BY <1>1 DEF Moved
    <2>2. Continue(r, new)  BY <1>5 DEF UndoCheckout
    <2> HIDE DEF new
    <2>3. Others(r) /\ req'[r] = new  BY <2>1, <2>2, ContinueEffect
    <2>4. calm' => calm /\ Created(r) = {}  BY <1>5 DEF UndoCheckout, Disturbs, TypeOK
    <2>5. Undoes(r)  BY <1>5, <2>1, <2>3, <2>4 DEF UndoCheckout, Undoes, stockVars, orderVars
    <2> QED BY <2>3, <2>5 DEF Effect
  <1>6. ASSUME ClearCart(r) PROVE Effect(r)
    BY <1>1, <1>6, FinishEffect DEF ClearCart, Complete, Active, Delivering, Leaves, stockVars, orderVars,
       Effect
  <1>7. ASSUME ReleaseInventory(r) PROVE Effect(r)
    <2>1. PICK p \in req[r].todo :
             /\ reserved' \in {reserved, [reserved EXCEPT ![p] = Released(p, Amount(r, p))]}
             /\ Continue(r, Done(r, p, "done"))
      BY <1>7 DEF ReleaseInventory
    <2> DEFINE new == Done(r, p, "done")
    <2>2. /\ new.step = IF req[r].todo = {p} THEN "done" ELSE req[r].step
          /\ new.todo = req[r].todo \ {p} /\ Moved(req[r], new)
      BY DoneIs
    <2>3. Continue(r, new) /\ req[r].step = "release"  BY <1>7, <2>1 DEF ReleaseInventory
    <2> HIDE DEF new
    <2>4. /\ Others(r)
          /\ new.step = "done" /\ new.op # "place" => req'[r] = IdleRequest
          /\ ~(new.step = "done" /\ new.op # "place") => req'[r] = new
      BY <2>3, ContinueEffect
    <2>5. \/ Ended(req[r], req'[r])
          \/ /\ Moved(req[r], req'[r]) /\ req'[r].step = "release"
             /\ req'[r].todo = req[r].todo \ {p}
      BY <2>2, <2>3, <2>4 DEF Ended, Moved
    <2>6. Releases(r)  BY <1>7, <2>1, <2>3, <2>5 DEF ReleaseInventory, Releases, orderVars
    <2> QED BY <2>4, <2>6 DEF Effect
  <1>8. ASSUME CommitInventory(r) PROVE Effect(r)
    <2>1. PICK p \in req[r].todo :
             /\ reserved' \in {reserved, [reserved EXCEPT ![p] = Released(p, Amount(r, p))]}
             /\ Continue(r, Done(r, p, "write"))
      BY <1>8 DEF CommitInventory, stockVars
    <2> DEFINE new == Done(r, p, "write")
    <2>2. /\ new.step = IF req[r].todo = {p} THEN "write" ELSE req[r].step
          /\ new.todo = req[r].todo \ {p} /\ Moved(req[r], new)
      BY DoneIs
    <2>3. Continue(r, new) /\ req[r].step = "commit"  BY <1>8, <2>1 DEF CommitInventory
    <2> HIDE DEF new
    <2>4. Others(r) /\ req'[r] = new  BY <2>2, <2>3, ContinueEffect
    <2>5. Commits(r)  BY <1>8, <2>1, <2>2, <2>3, <2>4 DEF CommitInventory, Commits, orderVars
    <2> QED BY <2>4, <2>5 DEF Effect
  <1>9. ASSUME NEW o \in Orders,
               UpdateStatus(r, o) \/ CancelOrder(r, o) \/ CreateReturn(r, o)
        PROVE  Effect(r)
    <2>1. ASSUME NEW op, NEW step, NEW next, Start(r, o, op, step, next), step # "done"
          PROVE  /\ Others(r)
                 /\ req[r].step = "idle" /\ UNCHANGED <<status, reserved>>
                 /\ req'[r].order = o /\ req'[r].todo = Picked(Lines(o))
                 /\ calm' => calm /\ ~Overlaps(o)
                 /\ req'[r].op = op /\ req'[r].step = step /\ req'[r].next = next
      <3> DEFINE new == [IdleRequest EXCEPT !.step = step, !.op = op, !.order = o,
                                            !.next = next, !.todo = Picked(Lines(o))]
      <3>1. /\ new.step = step /\ new.op = op /\ new.order = o /\ new.next = next
            /\ new.todo = Picked(Lines(o))
        BY DEF IdleRequest
      <3>2. Continue(r, new)  BY <2>1 DEF Start
      <3> HIDE DEF new
      <3>3. Others(r) /\ req'[r] = new  BY <2>1, <3>1, <3>2, ContinueEffect
      <3>4. calm' => calm /\ ~Overlaps(o)  BY <2>1 DEF Start, TypeOK
      <3> QED BY <2>1, <3>1, <3>3, <3>4 DEF Start, stockVars, orderVars
    <2>2. CASE UpdateStatus(r, o)
      <3>1. PICK next \in Allowed(status[o]) :
               Start(r, o, "status", IF next = "delivered" THEN "commit" ELSE "write", next)
        BY <2>2 DEF UpdateStatus
      <3> DEFINE step == IF next = "delivered" THEN "commit" ELSE "write"
      <3>2. step # "done" /\ Start(r, o, "status", step, next)  BY <3>1
      <3> HIDE DEF step
      <3>3. Others(r) /\ Starts(r, o)  BY <2>1, <3>2 DEF Starts, step
      <3> QED BY <3>3 DEF Effect
    <2>3. CASE CancelOrder(r, o)  BY <2>3, <2>1 DEF CancelOrder, Starts, Effect
    <2>4. CASE CreateReturn(r, o)  BY <2>4, <2>1 DEF CreateReturn, Starts, Effect
    <2> QED BY <1>9, <2>2, <2>3, <2>4
  <1>10. ASSUME UpdateOrderStatus(r) PROVE Effect(r)
    <2> DEFINE new == [req[r] EXCEPT !.step = IF req[r].op = "cancel" THEN "release" ELSE "done"]
    <2>1. /\ new.step = IF req[r].op = "cancel" THEN "release" ELSE "done"
          /\ Moved(req[r], new) /\ new.todo = req[r].todo
      BY <1>1 DEF Moved
    <2>2. Continue(r, new) /\ req[r].step = "write" /\ req[r].op # "place"
      BY <1>1, <1>10 DEF UpdateOrderStatus, Complete
    <2> HIDE DEF new
    <2>3. /\ Others(r)
          /\ new.step = "done" /\ new.op # "place" => req'[r] = IdleRequest
          /\ ~(new.step = "done" /\ new.op # "place") => req'[r] = new
      BY <2>2, ContinueEffect
    <2>4. IF req[r].op = "cancel"
          THEN /\ Moved(req[r], req'[r]) /\ req'[r].step = "release"
               /\ req'[r].todo = req[r].todo
          ELSE req'[r] = IdleRequest
      BY <2>1, <2>2, <2>3 DEF Moved
    <2>5. Writes(r)  BY <1>10, <2>2, <2>4 DEF UpdateOrderStatus, Writes, stockVars, historyVars
    <2> QED BY <2>3, <2>5 DEF Effect
  <1>11. ASSUME InsertReturn(r) PROVE Effect(r)
    BY <1>1, <1>11, FinishEffect DEF InsertReturn, Complete, Active, Ended, Returns, stockVars, historyVars,
       Effect
  <1>12. ASSUME Abort(r) PROVE Effect(r)
    BY <1>12, FinishEffect DEF Abort, TypeOK, Leaves, stockVars, orderVars, Effect
  <1> QED BY <1>2, <1>3, <1>4, <1>5, <1>6, <1>7, <1>8, <1>9, <1>10, <1>11, <1>12

-----------------------------------------------------------------------------
(* What orders and requests say of each other.                             *)

\* No step sets an op to a step it does not have.
LEMMA ShapesKept ==
    ASSUME TypeOK, TypeOK', \A q \in Requests : ShapeFits(req[q]), NEW r \in Requests, Effect(r)
    PROVE  \A q \in Requests : ShapeFits(req'[q])
  <1>1. /\ req[r] \in RequestRecords /\ Complete(req[r]) /\ ShapeFits(req[r])
        /\ req'[r] \in RequestRecords /\ Complete(req'[r])
    BY DEF TypeOK
  <1>2. ShapeFits(IdleRequest)  BY DEF ShapeFits, IdleRequest
  <1>3. ASSUME Ended(req[r], req'[r]) PROVE ShapeFits(req'[r])
    BY <1>1, <1>2, <1>3 DEF Ended, Moved, ShapeFits
  <1>4. ShapeFits(req'[r])
    <2>1. CASE Places(r)  BY <1>1, <2>1 DEF Places, ShapeFits
    <2>2. CASE Reserves(r)  BY <1>1, <2>2 DEF Reserves, Moved, ShapeFits, Complete
    <2>3. CASE Leaves(r)  BY <1>3, <2>3 DEF Leaves
    <2>4. CASE Creates(r)  BY <1>1, <2>4 DEF Creates, Moved, ShapeFits, Complete
    <2>5. CASE Undoes(r)  BY <1>1, <2>5 DEF Undoes, Moved, ShapeFits, Complete
    <2>6. CASE Releases(r)  BY <1>1, <1>3, <2>6 DEF Releases, Moved, ShapeFits
    <2>7. CASE Commits(r)  BY <1>1, <2>7 DEF Commits, Moved, ShapeFits
    <2>8. CASE \E o \in Orders : Starts(r, o)  BY <1>1, <2>8 DEF Starts, ShapeFits
    <2>9. CASE Writes(r)  BY <1>1, <1>2, <2>9 DEF Writes, Moved, ShapeFits
    <2>10. CASE Returns(r)  BY <1>1, <1>2, <2>10 DEF Returns
    <2> QED BY <2>1, <2>2, <2>3, <2>4, <2>5, <2>6, <2>7, <2>8, <2>9, <2>10 DEF Effect
  <1> QED BY <1>4 DEF Effect, Others

\* An idle request is at work on nothing, and no order is its own.
LEMMA IdleIsOff ==
    ASSUME NEW n, n = IdleRequest
    PROVE  n.step = "idle" /\ n.op = "none"
  BY DEF IdleRequest

\* The status of an order after a step: as before but for the one that is written.
LEMMA StatusAfter ==
    ASSUME TypeOK, \A q \in Requests : ShapeFits(req[q]), NEW r \in Requests, Effect(r)
    PROVE  \/ UNCHANGED status
           \/ /\ Creates(r)
              /\ \E s \in req[r].sellers : /\ <<r, s>> \in Orders /\ s \in Sellers
                                           /\ status' = [status EXCEPT ![<<r, s>>] = "pending"]
                                           /\ req'[r].sellers = req[r].sellers \ {s}
           \/ /\ Writes(r) /\ On(r) /\ req[r].order \in Orders /\ req[r].next \in Statuses
              /\ status' = [status EXCEPT ![req[r].order] = req[r].next]
           \/ /\ Returns(r) /\ On(r) /\ req[r].order \in Orders
              /\ status' = [status EXCEPT ![req[r].order] = "returning"]
  <1>1. req[r] \in RequestRecords /\ Complete(req[r]) /\ ShapeFits(req[r])  BY DEF TypeOK
  <1>2. CASE Creates(r)  BY <1>1, <1>2 DEF Creates
  <1>3. CASE Writes(r)  BY <1>1, <1>3 DEF Writes, ShapeFits, Complete, On, Active
  <1>4. CASE Returns(r)  BY <1>1, <1>4 DEF Returns, ShapeFits, Complete, On, Active
  <1> QED
    BY <1>2, <1>3, <1>4
       DEF Effect, Places, Reserves, Leaves, Undoes, Releases, Commits, Starts

\* Who is at work on an order after a step: whoever was, or the request that starts on it.
LEMMA OnAfter ==
    ASSUME TypeOK, \A q \in Requests : ShapeFits(req[q]), NEW r \in Requests, Effect(r)
    PROVE  /\ \A q \in Requests \ {r} : On(q)' <=> On(q)
           /\ On(r)' => \/ /\ On(r) /\ req'[r].order = req[r].order /\ req'[r].next = req[r].next
                           /\ req'[r].op = req[r].op /\ ~Leaves(r)
                        \/ \E o \in Orders : Starts(r, o)
  <1>1. req[r] \in RequestRecords /\ Complete(req[r]) /\ ShapeFits(req[r])  BY DEF TypeOK
  <1>2. \A q \in Requests \ {r} : On(q)' <=> On(q)  BY DEF Effect, Others, On, Active
  <1>3. ASSUME On(r)', ~\E o \in Orders : Starts(r, o)
        PROVE  /\ On(r) /\ req'[r].order = req[r].order /\ req'[r].next = req[r].next
               /\ req'[r].op = req[r].op /\ ~Leaves(r)
    <2>1. req'[r].step \notin {"idle", "done"} /\ req'[r].op \in {"status", "cancel", "return"}
      BY <1>3 DEF On, Active
    <2>2. ~Ended(req[r], req'[r]) /\ ~Leaves(r) /\ ~Returns(r)  BY <2>1, IdleIsOff DEF Ended, Leaves, Returns
    <2>3. ~Places(r) /\ ~Reserves(r) /\ ~Creates(r) /\ ~Undoes(r)
      BY <1>1, <2>1 DEF Places, Reserves, Creates, Undoes, Moved, Complete
    <2>4. Moved(req[r], req'[r]) /\ req[r].step \in {"release", "commit", "write"}
      BY <2>2, <2>1, IdleIsOff, <1>3, <2>3 DEF Releases, Commits, Writes, Effect
    <2> QED BY <2>1, <2>2, <2>4 DEF Moved, On, Active
  <1> QED BY <1>2, <1>3

\* Orders keep to the requests that created them.
LEMMA CreatedKept ==
    ASSUME TypeOK, TypeOK', \A q \in Requests : ShapeFits(req[q]), OrdersAreCreated,
           NEW r \in Requests, Effect(r)
    PROVE  OrdersAreCreated'
  <1>1. req[r] \in RequestRecords /\ Complete(req[r]) /\ ShapeFits(req[r])  BY DEF TypeOK
  <1>2. \A o \in Orders : status[o] # "none" => status'[o] # "none"  BY StatusAfter DEF TypeOK
  <1>3. ASSUME NEW q \in Requests, NEW s \in Sellers, status'[<<q, s>>] # "none"
        PROVE  /\ req'[q].op = "place"
               /\ req'[q].step \in {"create", "clear", "release", "done"}
               /\ req'[q].step = "create" => s \notin req'[q].sellers
    <2>1. <<q, s>> \in Orders  OBVIOUS
    <2>2. CASE status[<<q, s>>] = "none"
      <3>1. PICK t \in req[r].sellers :
               /\ Creates(r) /\ t \in Sellers
               /\ status' = [status EXCEPT ![<<r, t>>] = "pending"]
               /\ req'[r].sellers = req[r].sellers \ {t}
        <4>1. CASE Writes(r) /\ On(r) /\ req[r].order \in Orders
                     /\ status' = [status EXCEPT ![req[r].order] = req[r].next]
          <5>1. status[req[r].order] # "none"  BY <4>1 DEF OrdersAreCreated
          <5>2. \A o \in Orders : o # req[r].order => status'[o] = status[o]  BY <4>1 DEF TypeOK
          <5> QED BY <1>3, <2>1, <2>2, <5>1, <5>2
        <4>2. CASE Returns(r) /\ On(r) /\ req[r].order \in Orders
                     /\ status' = [status EXCEPT ![req[r].order] = "returning"]
          <5>1. status[req[r].order] # "none"  BY <4>2 DEF OrdersAreCreated
          <5>2. \A o \in Orders : o # req[r].order => status'[o] = status[o]  BY <4>2 DEF TypeOK
          <5> QED BY <1>3, <2>1, <2>2, <5>1, <5>2
        <4> QED BY <1>3, <2>1, <2>2, <4>1, <4>2, StatusAfter
      <3>2. q = r /\ s = t  BY <1>3, <2>1, <2>2, <3>1 DEF TypeOK
      <3> QED BY <1>1, <3>1, <3>2 DEF Creates, Moved, Complete
    <2>3. CASE status[<<q, s>>] # "none"
      <3>1. /\ req[q].op = "place"
            /\ req[q].step \in {"create", "clear", "release", "done"}
            /\ req[q].step = "create" => s \notin req[q].sellers
        BY <2>3 DEF OrdersAreCreated
      <3>2. CASE q # r  BY <3>1, <3>2 DEF Effect, Others
      <3>3. CASE q = r
        <4>1. req[r].op = "place" /\ req[r].step \in {"create", "clear", "release", "done"}  BY <3>1, <3>3
        <4>2. ~Places(r) /\ ~Reserves(r) /\ ~Commits(r) /\ ~Writes(r) /\ ~Returns(r)
                /\ ~\E o \in Orders : Starts(r, o)
          BY <4>1 DEF Places, Reserves, Commits, Writes, Returns, Starts
        <4>3. CASE Leaves(r)  BY <3>3, <4>1, <4>3 DEF Leaves, Ended, Moved
        <4>4. CASE Creates(r)  BY <3>1, <3>3, <4>1, <4>4 DEF Creates, Moved
        <4>5. CASE Undoes(r)  BY <3>3, <4>1, <4>5 DEF Undoes, Moved
        <4>6. CASE Releases(r)  BY <3>3, <4>1, <4>6 DEF Releases, Ended, Moved
        <4> QED BY <4>2, <4>3, <4>4, <4>5, <4>6 DEF Effect
      <3> QED BY <3>2, <3>3
    <2> QED BY <2>2, <2>3
  <1>4. ASSUME NEW q \in Requests, On(q)' PROVE status'[req'[q].order] # "none"
    <2>1. CASE On(q) /\ req'[q].order = req[q].order  BY <2>1, <1>2 DEF On, TypeOK, Complete, OrdersAreCreated
    <2>2. CASE \E o \in Orders : q = r /\ Starts(r, o)  BY <2>2 DEF Starts, Allowed
    <2>3. q # r => req'[q] = req[q]  BY DEF Effect, Others
    <2> QED BY <1>4, <2>1, <2>2, <2>3, OnAfter
  <1> QED BY <1>3, <1>4 DEF OrdersAreCreated

\* Where requests do not overlap, an order somebody is at work on is written by nobody else.
LEMMA StatusStays ==
    ASSUME TypeOK, TypeOK', \A q \in Requests : ShapeFits(req[q]), OrdersAreCreated, OrdersAreAlone,
           calm, NEW r \in Requests, Effect(r), NEW q \in Requests, q # r, On(q)
    PROVE  status'[req[q].order] = status[req[q].order]
  <1>1. req[q].order \in Orders /\ status[req[q].order] # "none"
    BY DEF OrdersAreCreated, On, TypeOK, Complete
  <1>2. ASSUME NEW s \in Sellers, s \in req[r].sellers, Creates(r) PROVE <<r, s>> # req[q].order
    <2>1. status[<<r, s>>] = "none"  BY <1>2 DEF OrdersAreCreated, Creates
    <2> QED BY <1>1, <2>1
  <1>3. On(r) => req[r].order # req[q].order  BY DEF OrdersAreAlone
  <1>4. ASSUME NEW o \in Orders, o # req[q].order, NEW x, status' = [status EXCEPT ![o] = x]
        PROVE  status'[req[q].order] = status[req[q].order]
    BY <1>1, <1>4 DEF TypeOK
  <1>5. CASE UNCHANGED status  BY <1>5
  <1>6. CASE Writes(r) /\ On(r) /\ req[r].order \in Orders
               /\ status' = [status EXCEPT ![req[r].order] = req[r].next]
    BY <1>3, <1>4, <1>6
  <1>7. CASE Returns(r) /\ On(r) /\ req[r].order \in Orders
               /\ status' = [status EXCEPT ![req[r].order] = "returning"]
    BY <1>3, <1>4, <1>7
  <1>8. ASSUME NEW s \in Sellers, s \in req[r].sellers, Creates(r), <<r, s>> \in Orders,
               status' = [status EXCEPT ![<<r, s>>] = "pending"]
        PROVE  status'[req[q].order] = status[req[q].order]
    BY <1>2, <1>4, <1>8
  <1> QED BY <1>5, <1>6, <1>7, <1>8, StatusAfter

\* What validateTransition allows from where.
LEMMA AllowedFacts ==
    ASSUME NEW now
    PROVE  /\ Allowed(now) \subseteq Statuses
           /\ "delivered" \in Allowed(now) => now = "shipped"
           /\ {"shipped", "processing"} \cap Allowed(now) # {} => now \in Open
           /\ "pending" \notin Allowed(now) /\ "cancelled" \notin Open
           /\ now = "delivered" => "returning" \in Allowed(now)
           /\ now \in {"pending", "processing"} => "cancelled" \in Allowed(now)
  BY DEF Allowed, Open

\* Orders stay alone, and a step that leaves the model calm found it so.
LEMMA AloneKept ==
    ASSUME TypeOK, TypeOK', \A q \in Requests : ShapeFits(req[q]), OrdersAreCreated, OrdersAreAlone,
           NEW r \in Requests, Effect(r), calm'
    PROVE  calm /\ OrdersAreAlone'
  <1>1. calm
    BY DEF Effect, Places, Reserves, Leaves, Creates, Undoes, Releases, Commits, Starts, Writes,
           Returns
  <1>2. req[r] \in RequestRecords /\ Complete(req[r]) /\ ShapeFits(req[r])  BY DEF TypeOK
  <1>3. \A q \in Requests \ {r} : req'[q] = req[q]  BY DEF Effect, Others
  <1>4. ASSUME NEW p \in Requests, NEW q \in Requests, On(p)', On(q)',
               req'[p].order = req'[q].order
        PROVE  p = q  BY <1>3, OnAfter, <1>1, <1>4 DEF OrdersAreAlone, Starts, Overlaps, On
  <1>5. ASSUME NEW q \in Requests, On(q)'
        PROVE  /\ req'[q].step \in {"commit", "write"}
                     => req'[q].next \in Allowed(status'[req'[q].order])
               /\ req'[q].step = "return" => status'[req'[q].order] = "delivered"
               /\ req'[q].step = "release" => status'[req'[q].order] \notin Open
    <2>1. CASE q # r  BY <1>1, <1>3, <1>5, <2>1, OnAfter, StatusStays DEF OrdersAreAlone
    <2>2. CASE q = r /\ \E o \in Orders : Starts(r, o)  BY <2>2, AllowedFacts DEF Starts
    <2>3. CASE /\ q = r /\ On(r) /\ req'[r].order = req[r].order /\ req'[r].next = req[r].next
               /\ req'[r].op = req[r].op /\ ~Leaves(r) /\ ~\E o \in Orders : Starts(r, o)
      <3>0. req[r].order \in Orders /\ req[r].op # "place" /\ req[r].op # "none"
        BY <1>2, <2>3 DEF On, Complete
      <3>1. ~Places(r) /\ ~Reserves(r) /\ ~Creates(r) /\ ~Undoes(r) /\ ~Returns(r)
        BY <1>2, <1>5, <2>3, IdleIsOff
           DEF Places, Reserves, Creates, Undoes, Returns, Complete, On, Active
      <3>2. CASE Releases(r)
        BY <1>5, <2>3, <3>0, <3>2, IdleIsOff, <1>1 DEF Releases, Ended, On, Active, OrdersAreAlone
      <3>3. CASE Commits(r)  BY <3>3, <1>1, <2>3 DEF Commits, OrdersAreAlone
      <3>4. CASE Writes(r)  BY <1>5, <2>3, <3>0, <3>4, IdleIsOff, <1>2 DEF Writes, ShapeFits, TypeOK, Open
      <3> QED BY <2>3, <3>1, <3>2, <3>3, <3>4 DEF Effect
    <2> QED BY <1>5, <2>1, <2>2, <2>3, OnAfter
  <1>6. ASSUME NEW q \in Requests, req'[q].op = "place", req'[q].step = "release",
               NEW s \in Sellers
        PROVE  status'[<<q, s>>] = "none"
    <2>1. <<q, s>> \in Orders  OBVIOUS
    <2>2. status[<<q, s>>] = "none"
      <3>1. CASE q # r  BY <1>1, <1>3, <1>6, <3>1 DEF OrdersAreAlone
      <3>2. CASE q = r /\ Undoes(r)  BY <3>2 DEF Undoes, Created
      <3>3. CASE q = r /\ ~Undoes(r)
        <4>1. req[r].op = "place" /\ req[r].step = "release"
          BY <1>2, <1>6, <3>3, IdleIsOff DEF Effect, Places, Reserves, Leaves, Creates, Releases,
             Commits, Starts, Writes, Returns, Ended, Moved, ShapeFits
        <4> QED BY <1>1, <3>3, <4>1 DEF OrdersAreAlone
      <3> QED BY <3>1, <3>2, <3>3
    <2>3. CASE UNCHANGED status  BY <2>2, <2>3
    <2>4. ASSUME NEW o \in Orders, NEW x, status[o] # "none", status' = [status EXCEPT ![o] = x]
          PROVE  status'[<<q, s>>] = "none"  BY <2>4, <2>1, <2>2 DEF TypeOK
    <2>5. On(r) => status[req[r].order] # "none"  BY DEF OrdersAreCreated
    <2>6. ASSUME NEW t \in Sellers, Creates(r), t \in req[r].sellers,
                 status' = [status EXCEPT ![<<r, t>>] = "pending"]
          PROVE  status'[<<q, s>>] = "none"  BY <2>6, <1>6, <2>1, <2>2 DEF Creates, TypeOK
    <2> QED BY <2>3, <2>4, <2>5, <2>6, StatusAfter
  <1> QED BY <1>1, <1>4, <1>5, <1>6 DEF OrdersAreAlone

\* While calm every step of an order is one validateTransition allows.
LEMMA StepsAreLegal ==
    ASSUME TypeOK, \A q \in Requests : ShapeFits(req[q]), OrdersAreCreated, OrdersAreAlone, calm,
           NEW r \in Requests, Effect(r), NEW o \in Orders
    PROVE  LegalStep(o)
  <1>1. ASSUME NEW x \in Orders, NEW next, status' = [status EXCEPT ![x] = next],
               status[x] = "none" \/ next \in Allowed(status[x])
        PROVE  LegalStep(o)
    BY <1>1 DEF TypeOK, LegalStep
  <1>2. ASSUME NEW s \in Sellers, Creates(r), s \in req[r].sellers,
               status' = [status EXCEPT ![<<r, s>>] = "pending"]
        PROVE  LegalStep(o)  BY <1>2, <1>1 DEF Creates, OrdersAreCreated
  <1>3. ASSUME Writes(r), On(r), req[r].order \in Orders,
               status' = [status EXCEPT ![req[r].order] = req[r].next]
        PROVE  LegalStep(o)  BY <1>3, <1>1 DEF Writes, OrdersAreAlone
  <1>4. ASSUME Returns(r), On(r), req[r].order \in Orders,
               status' = [status EXCEPT ![req[r].order] = "returning"]
        PROVE  LegalStep(o)  BY <1>4, <1>1, AllowedFacts DEF Returns, OrdersAreAlone
  <1>5. CASE UNCHANGED status  BY <1>5 DEF LegalStep
  <1> QED BY <1>2, <1>3, <1>4, <1>5, StatusAfter

-----------------------------------------------------------------------------
(* The units reserved for orders.                                          *)

Slice(o, n) == {o} \X (1..n)

\* A slice has its number of units.
LEMMA SliceSize ==
    ASSUME NEW o, NEW n \in Nat
    PROVE  IsFiniteSet(Slice(o, n)) /\ Cardinality(Slice(o, n)) = n
  <1>1. IsFiniteSet({o}) /\ Cardinality({o}) = 1  BY FS_Singleton
  <1>2. IsFiniteSet(1..n) /\ Cardinality(1..n) = n  BY FS_Interval
  <1>3. IsFiniteSet({o} \X (1..n)) /\ Cardinality({o} \X (1..n)) = 1 * n
    <2> DEFINE A == {o}
               B == 1..n
    <2>1. IsFiniteSet(A) /\ Cardinality(A) = 1 /\ IsFiniteSet(B) /\ Cardinality(B) = n  BY <1>1, <1>2
    <2> HIDE DEF A, B
    <2>2. IsFiniteSet(A \X B) /\ Cardinality(A \X B) = Cardinality(A) * Cardinality(B)  BY <2>1, FS_Product
    <2>3. IsFiniteSet(A \X B) /\ Cardinality(A \X B) = 1 * n  BY <2>1, <2>2
    <2> QED BY <2>3 DEF A, B
  <1> QED BY <1>3 DEF Slice

\* A part of what is reserved is reserved.
LEMMA FewerUnits ==
    ASSUME NEW S, NEW T, IsFiniteSet(S), T \subseteq S, NEW m \in Nat, NEW n \in Nat,
           Cardinality(S) <= m, m <= n
    PROVE  Cardinality(T) <= n
  <1>1. /\ IsFiniteSet(T) /\ Cardinality(T) <= Cardinality(S)
        /\ Cardinality(S) \in Nat /\ Cardinality(T) \in Nat
    BY FS_Subset, FS_CardinalityType
  <1> QED BY <1>1

\* What is reserved for one order more.
LEMMA MoreUnits ==
    ASSUME NEW S, NEW T, IsFiniteSet(S), NEW o, NEW n \in Nat, T \subseteq S \cup Slice(o, n),
           NEW m \in Nat, Cardinality(S) <= m
    PROVE  Cardinality(T) <= m + n
  <1> DEFINE U == Slice(o, n)
  <1>1. IsFiniteSet(U) /\ Cardinality(U) = n  BY SliceSize
  <1> HIDE DEF U
  <1>2. /\ IsFiniteSet(S \cup U)
        /\ Cardinality(S \cup U) = Cardinality(S) + Cardinality(U) - Cardinality(S \cap U)
        /\ IsFiniteSet(S \cap U)
    BY <1>1, FS_Union, FS_Intersection
  <1>3. Cardinality(S \cap U) \in Nat /\ Cardinality(S) \in Nat /\ Cardinality(S \cup U) \in Nat
    BY <1>2, FS_CardinalityType
  <1>4. Cardinality(S \cup U) <= m + n  BY <1>1, <1>2, <1>3
  <1>5. T \subseteq S \cup U  BY DEF U
  <1> QED BY <1>2, <1>4, <1>5, FewerUnits

\* What is reserved for one order less.
LEMMA LessUnits ==
    ASSUME NEW S, NEW T, IsFiniteSet(S), NEW o, NEW n \in Nat, T \subseteq S \ Slice(o, n),
           Slice(o, n) \subseteq S, NEW m \in Nat, Cardinality(S) <= m
    PROVE  Cardinality(T) <= AtLeast0(m - n)
  <1> DEFINE U == Slice(o, n)
  <1>1. IsFiniteSet(U) /\ Cardinality(U) = n /\ U \subseteq S /\ T \subseteq S \ U  BY SliceSize
  <1> HIDE DEF U
  <1>2. /\ IsFiniteSet(S \ U) /\ (S \ U) \cap U = {} /\ (S \ U) \cup U = S
        /\ Cardinality((S \ U) \cap U) = 0
    BY <1>1, FS_Difference, FS_EmptySet
  <1>3. Cardinality(S) = Cardinality(S \ U) + Cardinality(U) - Cardinality((S \ U) \cap U)
    BY <1>1, <1>2, FS_Union
  <1>4. Cardinality(S \ U) \in Nat /\ Cardinality(S) \in Nat  BY <1>2, FS_CardinalityType
  <1>5. Cardinality(S \ U) <= m - n  BY <1>1, <1>2, <1>3, <1>4
  <1>6. Cardinality(T) <= Cardinality(S \ U) /\ Cardinality(T) \in Nat
    BY <1>1, <1>2, FS_Subset, FS_CardinalityType
  <1> QED BY <1>4, <1>5, <1>6 DEF AtLeast0

\* The lines of an order are quantities.
LEMMA LinesAreNat ==
    ASSUME TypeOK, NEW o \in Orders, NEW p \in Products
    PROVE  Lines(o)[p] \in Nat
  <1>1. o[1] \in Requests  OBVIOUS
  <1>2. req[o[1]].items \in [Products -> Nat]  BY <1>1 DEF TypeOK
  <1> QED BY <1>2 DEF Lines

\* The units reserved for orders are finitely many.
LEMMA UnitsAreFinite ==
    ASSUME TypeOK, NEW p \in Products
    PROVE  IsFiniteSet(Units(p))
  <1> DEFINE f == [o \in Orders |-> Slice(o, Lines(o)[p])]
             T == {f[o] : o \in Orders}
  <1>1. IsFiniteSet(Orders)  BY FiniteAssumption, FS_Product
  <1>2. \A o \in Orders : IsFiniteSet(f[o])  BY LinesAreNat, SliceSize
  <1>3. Units(p) \subseteq UNION T  BY DEF Units, Slice
  <1> HIDE DEF f
  <1>4. f \in [Orders -> T] /\ \A t \in T : \E o \in Orders : f[o] = t
    <2>1. f = [o \in Orders |-> f[o]]  BY DEF f
    <2> QED BY <2>1
  <1>5. f \in Surjection(Orders, T)  BY <1>4 DEF Surjection
  <1>6. IsFiniteSet(T)  BY <1>1, <1>5, FS_Surjection
  <1>7. \A t \in T : IsFiniteSet(t)  BY <1>2
  <1> HIDE DEF T
  <1>8. IsFiniteSet(UNION T)  BY <1>6, <1>7, FS_UNION
  <1> QED BY <1>3, <1>8, FS_Subset

\* The units of an order for which p is held are among the units.
LEMMA HeldUnits ==
    ASSUME TypeOK, NEW o \in Orders, NEW p \in Products, Holding(o, p)
    PROVE  Slice(o, Lines(o)[p]) \subseteq Units(p)
  <1>1. SUFFICES ASSUME NEW u \in Slice(o, Lines(o)[p]) PROVE u \in Units(p)  OBVIOUS
  <1>2. u[1] = o /\ u[2] \in 1..Lines(o)[p] /\ u = <<u[1], u[2]>>  BY DEF Slice
  <1>3. u[2] \in Nat  BY <1>2, LinesAreNat
  <1>4. u \in Orders \X Nat  BY <1>2, <1>3
  <1> QED BY <1>2, <1>4 DEF Units

\* What is held is held for an order of a checkout.
LEMMA HoldersAreCheckouts ==
    ASSUME TypeOK, \A q \in Requests : ShapeFits(req[q]), OrdersAreCreated,
           NEW o \in Orders, NEW p, Holding(o, p)
    PROVE  o[1] \in Requests /\ req[o[1]].op = "place" /\ req[o[1]].step # "idle"
  <1>1. o[1] \in Requests /\ o[2] \in Sellers /\ o = <<o[1], o[2]>>  OBVIOUS
  <1>2. CASE status[o] # "none"  BY <1>1, <1>2 DEF OrdersAreCreated
  <1>3. CASE Keeps(req[o[1]], p)  BY <1>1, <1>3 DEF Keeps
  <1>4. CASE Releasing(o, p)  BY <1>4, <1>2 DEF Releasing, On, Active, OrdersAreCreated
  <1> QED BY <1>2, <1>3, <1>4 DEF Holding, Open

\* A checkout keeps the cart it has read.
LEMMA ItemsStay ==
    ASSUME TypeOK, \A q \in Requests : ShapeFits(req[q]), NEW r \in Requests, Effect(r),
           NEW o \in Orders, req[o[1]].op = "place", req[o[1]].step # "idle"
    PROVE  Lines(o)' = Lines(o) /\ req'[o[1]].op = "place" /\ req'[o[1]].items = req[o[1]].items
  <1>1. o[1] \in Requests  OBVIOUS
  <1>2. CASE o[1] # r  BY <1>1, <1>2 DEF Effect, Others, Lines
  <1>3. CASE o[1] = r
    <2>1. ShapeFits(req[r])  OBVIOUS
    <2>2. Moved(req[r], req'[r])
      BY <1>3, <2>1 DEF Effect, Places, Reserves, Leaves, Creates, Undoes, Releases, Commits, Starts,
         Writes, Returns, Ended, ShapeFits
    <2> QED BY <1>3, <2>2 DEF Moved, Lines
  <1> QED BY <1>2, <1>3

\* What the steps of requests start from.
Calm == /\ TypeOK /\ (\A q \in Requests : ShapeFits(req[q]))
        /\ OrdersAreCreated /\ OrdersAreAlone /\ calm

\* An open order was held for before, or its checkout had reserved for it.
LEMMA OpenAfter ==
    ASSUME Calm, NEW r \in Requests, Effect(r), calm', NEW o \in Orders, NEW p,
           status'[o] \in Open, ~Taken(o, p)'
    PROVE  Holding(o, p)
  <1>1. req[r] \in RequestRecords /\ Complete(req[r]) /\ ShapeFits(req[r]) /\ TypeOK  BY DEF Calm, TypeOK
  <1>2. CASE status[o] \in Open
    <2>1. ASSUME Taken(o, p) PROVE FALSE
      <3>1. PICK q \in Requests : /\ Active(q) /\ req[q].order = o /\ Delivering(q)
                                  /\ req[q].step = "write" \/ p \notin req[q].todo
        BY <2>1 DEF Taken
      <3>2. CASE q # r
        <4>1. req'[q] = req[q]  BY <3>2 DEF Effect, Others
        <4> QED BY <3>1, <4>1 DEF Taken, Active, Delivering
      <3>3. CASE q = r
        <4>1. req[r].op = "status" /\ req[r].next = "delivered" /\ Active(r)  BY <3>1, <3>3 DEF Delivering
        <4>2. req[r].step \in {"commit", "write"}  BY <1>1, <4>1 DEF ShapeFits, Complete, Active, Steps
        <4>3. Commits(r) \/ Writes(r)
          BY <3>1, <3>3, <4>2 DEF Effect, Places, Reserves, Leaves, Creates, Undoes, Releases, Starts,
             Returns
        <4>4. CASE Commits(r)  BY <3>1, <3>3, <4>1, <4>4 DEF Commits, Moved, Taken, Active, Delivering
        <4>5. CASE Writes(r)  BY <1>1, <3>1, <3>3, <4>1, <4>5 DEF Writes, TypeOK, Open
        <4> QED BY <4>3, <4>4, <4>5
      <3> QED BY <3>2, <3>3
    <2> QED BY <1>2, <2>1 DEF Holding
  <1>3. CASE status[o] \notin Open
    <2>1. CASE UNCHANGED status  BY <1>3, <2>1
    <2>2. ASSUME NEW s \in Sellers, s \in req[r].sellers, Creates(r), <<r, s>> \in Orders,
                 status' = [status EXCEPT ![<<r, s>>] = "pending"]
          PROVE  Holding(o, p)
      BY <1>1, <1>3, <2>2 DEF TypeOK, Creates, Calm, OrdersAreCreated, Keeps, Complete, Holding
    <2>3. ASSUME Writes(r), On(r), req[r].order \in Orders,
                 status' = [status EXCEPT ![req[r].order] = req[r].next]
          PROVE  FALSE  BY <1>1, <1>3, <2>3, AllowedFacts DEF TypeOK, Writes, Calm, OrdersAreAlone, Open
    <2>4. ASSUME Returns(r), On(r), req[r].order \in Orders,
                 status' = [status EXCEPT ![req[r].order] = "returning"]
          PROVE  FALSE
      BY <1>1, <1>3, <2>4 DEF TypeOK, Open
    <2> QED BY <1>1, <2>1, <2>2, <2>3, <2>4, StatusAfter DEF Calm
  <1> QED BY <1>2, <1>3

\* What a checkout has reserved and not yet used, it had reserved before, or reserves now.
LEMMA NoneAfter ==
    ASSUME Calm, TypeOK', NEW r \in Requests, Effect(r), NEW o \in Orders, NEW p \in Products,
           status'[o] = "none", Keeps(req'[o[1]], p), Lines(o)'[p] # 0
    PROVE  \/ Holding(o, p)
           \/ /\ o[1] = r /\ Reserves(r) /\ req[r].op = "place"
              /\ p \in req[r].todo /\ reserved' = [reserved EXCEPT ![p] = @ + Amount(r, p)]
  <1>0. o[1] \in Requests  OBVIOUS
  <1>1. req[r] \in RequestRecords /\ Complete(req[r]) /\ ShapeFits(req[r]) /\ TypeOK  BY DEF Calm, TypeOK
  <1>2. status[o] = "none"  BY <1>1, StatusAfter DEF TypeOK, Calm
  <1>3. CASE o[1] # r  BY <1>0, <1>2, <1>3 DEF Effect, Others, Holding
  <1>4. ASSUME o[1] = r, Keeps(req[r], p) PROVE Holding(o, p)  BY <1>2, <1>4 DEF Holding
  <1>5. CASE o[1] = r
    <2>0. Keeps(req'[r], p)  BY <1>5
    <2>1. CASE Places(r)  BY <2>0, <2>1, <1>5 DEF Places, Keeps, TypeOK, Picked, Lines
    <2>2. CASE Reserves(r)
      <3>1. PICK t \in req[r].todo :
               /\ reserved' = [reserved EXCEPT ![t] = @ + Amount(r, t)]
               /\ req'[r].todo = req[r].todo \ {t}
               /\ req'[r].step = IF req[r].todo = {t} THEN "create" ELSE "reserve"
        BY <2>2 DEF Reserves
      <3>2. req[r].op = "place" /\ req[r].step = "reserve"  BY <1>1, <2>2 DEF Reserves, Complete
      <3>3. CASE p \in req[r].todo
        <4>1. p = t  BY <2>0, <3>1, <3>3 DEF Keeps
        <4> QED BY <1>5, <2>2, <3>1, <3>2, <3>3, <4>1
      <3>4. CASE p \notin req[r].todo  BY <1>4, <1>5, <3>2, <3>4 DEF Keeps
      <3> QED BY <3>3, <3>4
    <2>3. CASE Creates(r) \/ Undoes(r)  BY <1>1, <1>4, <1>5, <2>3 DEF Creates, Undoes, Keeps, Complete
    <2>4. CASE Releases(r)  BY <2>0, <2>4, IdleIsOff, <1>4, <1>5 DEF Releases, Keeps, Ended, Moved
    <2>5. ~Leaves(r) /\ ~Writes(r) /\ ~Returns(r) /\ ~Commits(r) /\ ~\E x \in Orders : Starts(r, x)
      BY <1>1, <2>0, IdleIsOff
         DEF Keeps, Leaves, Ended, Moved, Writes, Returns, Commits, Starts, ShapeFits
    <2> QED BY <2>1, <2>2, <2>3, <2>4, <2>5 DEF Effect
  <1> QED BY <1>3, <1>5

\* What a cancellation is still to release, it was to release before, or the order was open.
LEMMA ReleasingAfter ==
    ASSUME Calm, NEW r \in Requests, Effect(r), NEW o \in Orders, NEW p, Releasing(o, p)'
    PROVE  Holding(o, p)
  <1>1. req[r] \in RequestRecords /\ Complete(req[r]) /\ ShapeFits(req[r]) /\ TypeOK  BY DEF Calm, TypeOK
  <1>2. PICK q \in Requests : /\ req'[q].op = "cancel" /\ req'[q].step = "release"
                              /\ req'[q].order = o /\ p \in req'[q].todo
    BY DEF Releasing
  <1>3. CASE q # r
    <2>1. req'[q] = req[q]  BY <1>3 DEF Effect, Others
    <2> QED BY <1>2, <2>1 DEF Holding, Releasing
  <1>4. CASE q = r
    <2>1. ~Places(r) /\ ~Leaves(r) /\ ~Returns(r) /\ ~Reserves(r) /\ ~Creates(r) /\ ~Undoes(r)
            /\ ~Commits(r) /\ ~\E x \in Orders : Starts(r, x)
      BY <1>1, <1>2, <1>4, IdleIsOff
         DEF Places, Leaves, Ended, Returns, Reserves, Creates, Undoes, Commits, Starts, Moved,
             Complete
    <2>2. CASE Releases(r)  BY <1>2, <1>4, <2>2, IdleIsOff DEF Releases, Ended, Moved, Holding, Releasing
    <2>3. CASE Writes(r)
      <3>1. req[r].op = "cancel" /\ req[r].order = o /\ req[r].step = "write"
        BY <1>2, <1>4, <2>3, IdleIsOff DEF Writes, Moved
      <3>2. On(r) /\ req[r].next = "cancelled"  BY <1>1, <3>1 DEF On, Active, ShapeFits
      <3>3. "cancelled" \in Allowed(status[o])  BY <3>1, <3>2 DEF Calm, OrdersAreAlone
      <3>4. status[o] \in Open  BY <3>3 DEF Allowed, Open
      <3>5. ~Taken(o, p)  BY <3>1, <3>2 DEF On, Delivering, Calm, OrdersAreAlone, Taken
      <3> QED BY <3>4, <3>5 DEF Holding
    <2> QED BY <2>1, <2>2, <2>3 DEF Effect
  <1> QED BY <1>3, <1>4

\* A step holds no more for the orders than was held, but for what it reserves.
LEMMA UnitsAfter ==
    ASSUME Calm, TypeOK', OrdersAreCreated', \A q \in Requests : ShapeFits(req'[q]),
           NEW r \in Requests, Effect(r), calm', NEW p \in Products, NEW u \in Units(p)'
    PROVE  \/ u \in Units(p) /\ Holding(u[1], p)'
           \/ /\ Reserves(r) /\ req[r].op = "place" /\ p \in req[r].todo
              /\ reserved' = [reserved EXCEPT ![p] = @ + Amount(r, p)]
              /\ u \in Slice(<<r, SellerOf[p]>>, Amount(r, p))
  <1>1. PICK o \in Orders, k \in Nat :
           u = <<o, k>> /\ Holding(o, p)' /\ k \in 1..Lines(o)'[p]  BY DEF Units
  <1>2. Lines(o)'[p] \in Nat  BY DEF TypeOK, Lines
  <1>3. Lines(o)'[p] # 0  BY <1>1, <1>2
  <1>4. ASSUME Holding(o, p) PROVE u \in Units(p)  BY <1>4, HoldersAreCheckouts, ItemsStay, <1>1 DEF Calm, Units
  <1>5. \/ status'[o] \in Open /\ ~Taken(o, p)'
        \/ status'[o] = "none" /\ Keeps(req'[o[1]], p)
        \/ Releasing(o, p)'
    BY <1>1 DEF Holding, Keeps
  <1>6. CASE status'[o] \in Open /\ ~Taken(o, p)'  BY <1>1, <1>4, <1>6, OpenAfter
  <1>7. CASE Releasing(o, p)'  BY <1>1, <1>4, <1>7, ReleasingAfter
  <1>8. CASE status'[o] = "none" /\ Keeps(req'[o[1]], p)
    <2>1. CASE Holding(o, p)  BY <1>1, <1>4, <2>1
    <2>2. CASE /\ o[1] = r /\ Reserves(r) /\ req[r].op = "place"
               /\ p \in req[r].todo /\ reserved' = [reserved EXCEPT ![p] = @ + Amount(r, p)]
      <3>1. req[r].step = "reserve" /\ TypeOK /\ \A q \in Requests : ShapeFits(req[q])
        BY <2>2 DEF Reserves, Calm
      <3>2. req'[r].items = req[r].items  BY <2>2 DEF Reserves, Moved
      <3>3. SellerOf[p] = o[2] /\ Lines(o)'[p] = req[r].items[p]  BY <1>3, <2>2, <3>2 DEF Lines
      <3>4. Amount(r, p) = req[r].items[p]  BY <2>2 DEF Amount
      <3>5. o = <<r, SellerOf[p]>>  BY <2>2, <3>3
      <3> QED BY <1>1, <2>2, <3>3, <3>4, <3>5 DEF Slice
    <2> QED BY <1>3, <1>8, <2>1, <2>2, NoneAfter
  <1> QED BY <1>5, <1>6, <1>7, <1>8

\* What a release takes was held for its order, and is no longer.
LEMMA ReleasedUnits ==
    ASSUME Calm, TypeOK', OrdersAreCreated', \A q \in Requests : ShapeFits(req'[q]),
           NEW r \in Requests, Effect(r), calm', NEW p \in Products, p \in req[r].todo,
           \/ Releases(r) /\ (\/ Ended(req[r], req'[r])
                              \/ Moved(req[r], req'[r]) /\ p \notin req'[r].todo)
           \/ Commits(r) /\ p \notin req'[r].todo
    PROVE  \E o \in Orders : Holding(o, p) /\ ~Holding(o, p)' /\ Lines(o)[p] = Amount(r, p)
  <1>1. /\ req[r] \in RequestRecords /\ Complete(req[r]) /\ ShapeFits(req[r]) /\ TypeOK
        /\ status' = status
    BY DEF Calm, TypeOK, Releases, Commits
  <1>2. CASE req[r].op = "place"
    <2> DEFINE o == <<r, SellerOf[p]>>
    <2>0. o \in Orders /\ o[1] = r /\ o[2] = SellerOf[p]  BY ProductAssumption
    <2> HIDE DEF o
    <2>1. Releases(r) /\ req[r].step = "release"  BY <1>1, <1>2 DEF Commits, Releases, ShapeFits
    <2>2. status[o] = "none"  BY <1>2, <2>1, ProductAssumption DEF Calm, OrdersAreAlone, o
    <2>3. Holding(o, p)  BY <1>2, <2>0, <2>1, <2>2 DEF Holding, Keeps
    <2>4. ~Keeps(req'[r], p)  BY <1>2, <2>1, IdleIsOff DEF Keeps, Ended, Moved, Releases, Commits
    <2>5. ~Releasing(o, p)'  BY <1>1, <2>2 DEF On, Active, OrdersAreCreated, Releasing
    <2>6. ~Holding(o, p)'  BY <1>1, <2>2, <2>0, <2>4, <2>5 DEF Holding, Open, Keeps
    <2>7. Lines(o)[p] = Amount(r, p)  BY <1>2, <2>0 DEF Lines, Amount
    <2> QED BY <2>0, <2>3, <2>6, <2>7
  <1>3. CASE req[r].op # "place"
    <2>1. On(r) /\ req[r].order \in Orders /\ req[r].step \in {"release", "commit"}
      BY <1>1, <1>3 DEF Releases, Commits, ShapeFits, On, Active, Complete
    <2>o. PICK o \in Orders : o = req[r].order
      BY <2>1
    <2>2. ASSUME NEW q \in Requests, On(q), req[q].order = o PROVE q = r
      BY <2>o, <2>1, <2>2 DEF Calm, OrdersAreAlone
    <2>3. status[o] # "none"  BY <2>o, <2>1 DEF Calm, OrdersAreCreated
    <2>4. Lines(o)[p] = Amount(r, p)  BY <2>o, <1>3 DEF Amount
    <2>5. ~Releasing(o, p)'
      <3>1. ASSUME NEW q \in Requests, req'[q].op = "cancel", req'[q].step = "release",
                   req'[q].order = o, p \in req'[q].todo
            PROVE  FALSE
        BY <2>2, <3>1, <1>3, IdleIsOff DEF Effect, Others, On, Active, Ended, Moved, Releases, Commits
      <3> QED BY <3>1 DEF Releasing
    <2>6. CASE Releases(r)
      <3>1. req[r].op = "cancel" /\ req[r].step = "release"  BY <1>1, <1>3, <2>6 DEF Releases, ShapeFits
      <3>2. Holding(o, p)  BY <2>o, <3>1 DEF Holding, Releasing
      <3>3. status[o] \notin Open  BY <2>o, <2>1, <3>1 DEF Calm, OrdersAreAlone
      <3>4. ~Holding(o, p)'  BY <1>1, <2>3, <2>5, <3>3 DEF Holding
      <3> QED BY <2>o, <2>1, <2>4, <3>2, <3>4
    <2>7. CASE Commits(r)
      <3>1. req[r].step = "commit" /\ req[r].op = "status" /\ req[r].next = "delivered"
        BY <1>1, <2>7 DEF Commits, ShapeFits
      <3>2. status[o] \in Open  BY <2>o, <2>1, <3>1 DEF Calm, OrdersAreAlone, Allowed, Open
      <3>3. ~Taken(o, p)
        <4>1. ASSUME NEW t \in Requests, Active(t), req[t].order = o, Delivering(t),
                     req[t].step = "write" \/ p \notin req[t].todo
              PROVE  FALSE
          <5>1. On(t)  BY <4>1 DEF On, Delivering
          <5> QED BY <2>2, <3>1, <4>1, <5>1
        <4> QED BY <4>1 DEF Taken
      <3>4. Taken(o, p)'  BY <2>o, <2>7, <3>1 DEF Commits, Releases, Moved, Taken, Active, Delivering
      <3>5. Holding(o, p)  BY <3>2, <3>3 DEF Holding
      <3>6. ~Holding(o, p)'  BY <1>1, <2>3, <2>5, <3>4 DEF Holding
      <3> QED BY <2>o, <2>1, <2>4, <3>5, <3>6
    <2> QED BY <2>6, <2>7
  <1> QED BY <1>2, <1>3

\* The units of the orders stay reserved.
LEMMA UnitsKept ==
    ASSUME Calm, TypeOK', OrdersAreCreated', \A q \in Requests : ShapeFits(req'[q]),
           NEW r \in Requests, Effect(r), calm', UnitsAreReserved, NEW p \in Products
    PROVE  Cardinality(Units(p)') <= reserved'[p]
  <1>1. /\ reserved \in [Products -> Nat] /\ reserved' \in [Products -> Nat] /\ TypeOK
        /\ req[r] \in RequestRecords /\ Complete(req[r]) /\ ShapeFits(req[r])
    BY DEF Calm, TypeOK
  <1>2. IsFiniteSet(Units(p)) /\ Cardinality(Units(p)) <= reserved[p]
    BY <1>1, UnitsAreFinite DEF Calm, UnitsAreReserved
  <1>3. ASSUME reserved[p] <= reserved'[p], Units(p)' \subseteq Units(p)
        PROVE  Cardinality(Units(p)') <= reserved'[p]
    BY <1>1, <1>2, <1>3, FewerUnits
  <1>4. ASSUME ~Reserves(r) PROVE Units(p)' \subseteq Units(p)  BY <1>4, UnitsAfter
  <1>5. CASE Reserves(r)
    <2>1. PICK t \in req[r].todo : reserved' = [reserved EXCEPT ![t] = @ + Amount(r, t)]  BY <1>5 DEF Reserves
    <2>2. req[r].op # "none" /\ t \in Products  BY <1>1, <1>5, <2>1 DEF Reserves, Complete
    <2>3. Amount(r, t) \in Nat  BY <1>1, <2>2, AmountIsNat
    <2>4. CASE t = p  BY <1>1, <2>1, <2>3, <2>4, UnitsAfter, <1>2, MoreUnits
    <2>5. CASE t # p
      <3>1. reserved'[p] = reserved[p]  BY <1>1, <2>1, <2>5
      <3>2. \/ Units(p)' \subseteq Units(p)
            \/ /\ p \in req[r].todo
               /\ reserved' = [reserved EXCEPT ![p] = @ + Amount(r, p)]
        BY UnitsAfter
      <3>3. CASE Units(p)' \subseteq Units(p)  BY <1>1, <1>3, <3>1, <3>3
      <3>4. CASE reserved' = [reserved EXCEPT ![p] = @ + Amount(r, p)]
        BY <1>1, <2>2, AmountIsNat, <3>4, UnitsAfter, <1>2, MoreUnits
      <3> QED BY <3>2, <3>3, <3>4
    <2> QED BY <2>4, <2>5
  <1>6. CASE Releases(r) \/ Commits(r)
    <2>0. ~Reserves(r)  BY <1>6 DEF Releases, Commits, Reserves
    <2>1. PICK t \in req[r].todo :
             /\ reserved' \in {reserved, [reserved EXCEPT ![t] = Released(t, Amount(r, t))]}
             /\ \/ Releases(r) /\ (\/ Ended(req[r], req'[r])
                                   \/ Moved(req[r], req'[r]) /\ t \notin req'[r].todo)
                \/ Commits(r) /\ t \notin req'[r].todo
      BY <1>6 DEF Releases, Commits
    <2>2. req[r].op # "none" /\ t \in Products  BY <1>1, <1>6, <2>1 DEF Releases, Commits, Complete
    <2>3. Amount(r, t) \in Nat  BY <1>1, <2>2, AmountIsNat
    <2>4. CASE reserved'[p] = reserved[p]  BY <1>1, <1>3, <1>4, <2>0, <2>4
    <2>5. CASE reserved'[p] # reserved[p]
      <3>1. t = p /\ reserved'[p] = AtLeast0(reserved[p] - Amount(r, p))
        BY <1>1, <2>1, <2>2, <2>5 DEF Released
      <3>2. PICK o \in Orders : Holding(o, p) /\ ~Holding(o, p)' /\ Lines(o)[p] = Amount(r, p)
        BY <2>1, <3>1, ReleasedUnits
      <3>3. Slice(o, Amount(r, p)) \subseteq Units(p)  BY <1>1, <3>2, HeldUnits
      <3>4. ASSUME NEW u \in Units(p)' PROVE u \notin Slice(o, Amount(r, p))
        BY <2>0, UnitsAfter, <3>2 DEF Slice
      <3>5. Units(p)' \subseteq Units(p) \ Slice(o, Amount(r, p))  BY <1>4, <2>0, <3>4
      <3> QED BY <1>1, <1>2, <2>3, <3>1, <3>3, <3>5, LessUnits
    <2> QED BY <2>4, <2>5
  <1>7. CASE ~Reserves(r) /\ ~Releases(r) /\ ~Commits(r)
    <2>1. reserved' = reserved  BY <1>7 DEF Effect, Places, Leaves, Creates, Undoes, Starts, Writes, Returns
    <2> QED BY <1>1, <1>3, <1>4, <1>7, <2>1
  <1> QED BY <1>5, <1>6, <1>7

\* What an open order needs is among the units held.
LEMMA DueIsHeld ==
    ASSUME TypeOK, NEW p \in Products
    PROVE  Due(p) \subseteq Units(p)
  <1>1. SUFFICES ASSUME NEW u \in Due(p) PROVE u \in Units(p)  OBVIOUS
  <1>2. PICK o \in Orders : status[o] \in Open /\ u \in {o} \X (1..Owed(o, p))  BY DEF Due
  <1>3. CASE Taken(o, p)
    <2>1. Owed(o, p) = 0  BY <1>3 DEF Owed, Taken
    <2> QED BY <1>2, <2>1
  <1>4. CASE ~Taken(o, p)  BY <1>4, <1>2, HeldUnits DEF Owed, Taken, Holding, Slice
  <1> QED BY <1>3, <1>4

\* The inductive invariant holds at first ...
LEMMA InitCalmInv == Init => CalmInv
  <1> SUFFICES ASSUME Init PROVE CalmInv  OBVIOUS
  <1>1. TypeOK  BY InitTypeOK
  <1>2. \A r \in Requests : req[r].step = "idle" /\ req[r].op = "none"  BY DEF Init, IdleRequest
  <1>3. \A o \in Orders : status[o] = "none"  BY DEF Init
  <1>4. \A r \in Requests : ShapeFits(req[r]) /\ ~On(r)  BY <1>2 DEF ShapeFits, On
  <1>5. OrdersAreCreated /\ OrdersAreAlone  BY <1>2, <1>3, <1>4 DEF OrdersAreCreated, OrdersAreAlone
  <1>6. ASSUME NEW p \in Products PROVE Cardinality(Units(p)) <= reserved[p]
    BY <1>1, <1>4, <1>5, HoldersAreCheckouts, <1>2, FS_EmptySet DEF Units, Init
  <1> QED BY <1>1, <1>4, <1>5, <1>6 DEF CalmInv, UnitsAreReserved

\* ... and every step keeps it, and is legal.
LEMMA StepCalmInv ==
    CalmInv /\ [Next]_vars => CalmInv' /\ (calm' => \A o \in Orders : LegalStep(o))
  <1> SUFFICES ASSUME CalmInv, [Next]_vars
               PROVE  CalmInv' /\ (calm' => \A o \in Orders : LegalStep(o))
    OBVIOUS
  <1>1. TypeOK'  BY StepTypeOK DEF CalmInv
  <1>2. CASE UNCHANGED vars
    <2>1. UNCHANGED <<quantity, reserved, cart, status, shipped, delivered, returns, req,
                      failures, calm>>
      BY <1>2 DEF vars, stockVars, orderVars, historyVars
    <2>2. CalmInv'
      BY <1>1, <2>1 DEF CalmInv, OrdersAreCreated, OrdersAreAlone, UnitsAreReserved, Units, Holding,
         Taken, Keeps, Releasing, Lines, On, Active, Delivering
    <2> QED BY <2>1, <2>2 DEF LegalStep
  <1>3. CASE Next
    <2>1. PICK r \in Requests : Effect(r)  BY <1>3, StepEffect DEF Next, CalmInv
    <2>2. \A q \in Requests : ShapeFits(req'[q])  BY <1>1, <2>1, ShapesKept DEF CalmInv
    <2>3. OrdersAreCreated'  BY <1>1, <2>1, CreatedKept DEF CalmInv
    <2>4. ASSUME calm' PROVE calm /\ OrdersAreAlone'  BY <1>1, <2>1, <2>4, AloneKept DEF CalmInv
    <2>5. OrdersAreAlone'  BY <2>4 DEF OrdersAreAlone
    <2>6. calm' => Calm  BY <2>4 DEF CalmInv, Calm
    <2>7. ASSUME calm', NEW p \in Products PROVE Cardinality(Units(p)') <= reserved'[p]
      BY <1>1, <2>1, <2>2, <2>3, <2>6, <2>7, UnitsKept DEF CalmInv
    <2>8. UnitsAreReserved'  BY <2>7 DEF UnitsAreReserved
    <2>9. ASSUME calm', NEW o \in Orders PROVE LegalStep(o)  BY <2>1, <2>4, <2>9, StepsAreLegal DEF CalmInv
    <2> QED BY <1>1, <2>2, <2>3, <2>5, <2>8, <2>9 DEF CalmInv
  <1> QED BY <1>2, <1>3

\* As long as requests do not overlap on an order and no checkout or delivery fails halfway,
\* there is a reservation for every unit the open orders need, however many orders are placed,
\* cancelled and delivered.
THEOREM OrdersStayBacked == Spec => []OrdersAreBackedWhenCalm
  <1>1. CalmInv => OrdersAreBackedWhenCalm
    <2> SUFFICES ASSUME CalmInv, calm, NEW p \in Products PROVE Demand(p) <= reserved[p]
      BY DEF OrdersAreBackedWhenCalm
    <2>1. IsFiniteSet(Units(p)) /\ Due(p) \subseteq Units(p) /\ Cardinality(Units(p)) <= reserved[p]
      BY UnitsAreFinite, DueIsHeld DEF CalmInv, UnitsAreReserved
    <2>2. reserved[p] \in Nat  BY DEF CalmInv, TypeOK
    <2> QED BY <2>1, <2>2, FewerUnits DEF Demand
  <1> QED BY <1>1, InitCalmInv, StepCalmInv, PTL DEF Spec

\* ... and an order goes only where validateTransition lets it.
THEOREM TransitionsStayLegal == Spec => TransitionsAreLegalWhenCalm
  <1>1. CalmInv /\ [Next]_vars => [calm' => \A o \in Orders : LegalStep(o)]_vars  BY StepCalmInv
  <1>2. CalmInv /\ [Next]_vars => CalmInv'  BY StepCalmInv
  <1> QED BY <1>1, <1>2, InitCalmInv, PTL DEF Spec, TransitionsAreLegalWhenCalm

=============================================================================
