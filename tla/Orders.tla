------------------------------- MODULE Orders -------------------------------
(***************************************************************************)
(* Orders and stock of the ecommerce-service (services/                    *)
(* ecommerce-service/internal).                                            *)
(*                                                                         *)
(* Every HTTP request is a process of its own.  Each repository call is a  *)
(* transaction of its own: the inventory calls lock the row of a product   *)
(* and are one step each; UpdateOrderStatus overwrites the status whatever *)
(* it has become since the handler read it.  A checkout reserves every     *)
(* item, then creates one order per seller; a request can fail or die      *)
(* between any two calls and nothing resumes it.                           *)
(*                                                                         *)
(* Order <<r, s>> is the one request r created for seller s.  Nothing is   *)
(* added to a cart.  Stock only goes down: ManageInventory, which could    *)
(* change it, has no caller.  Payments and refunds touch nothing of this.  *)
(***************************************************************************)
EXTENDS Integers, FiniteSets

CONSTANTS
    Buyers, Sellers, Products,
    SellerOf,         \* SellerOf[p]: who sells p
    Stock,            \* Stock[p]: inventory.quantity at first
    Backorder,        \* products with allow_backorder
    Requests,         \* HTTP requests in progress at a time; one that checked a
                      \* cart out is not used again (bounds the orders)
    InCart,           \* InCart[b][p]: quantity of p in b's cart at first
    MaxFailures,      \* calls that fail, requests that end early (bounds them)
    None              \* "no order", "no status", "no buyer"

ASSUME ProductAssumption ==
    /\ SellerOf \in [Products -> Sellers] /\ Stock \in [Products -> Nat]
    /\ Backorder \subseteq Products /\ InCart \in [Buyers -> [Products -> Nat]]
ASSUME FailureAssumption == MaxFailures \in Nat
ASSUME FiniteAssumption == IsFiniteSet(Requests) /\ IsFiniteSet(Sellers)

VARIABLES
    quantity, reserved,   \* columns of inventory
    cart,                 \* cart[b][p]: quantity of p in b's cart
    status,               \* orders.status; "none" before the order exists
    shipped, delivered,   \* orders with shipped_at, delivered_at set
    returns,              \* orders with a row in returns
    req,                  \* what a request is doing
    failures,             \* number of failures so far
    calm                  \* FALSE once something of the kind Disturbs lists happened

stockVars == <<quantity, reserved>>
orderVars == <<status, shipped, delivered, returns>>
historyVars == <<failures, calm>>
vars == <<stockVars, cart, orderVars, req, historyVars>>

Orders == Requests \X Sellers
Statuses == {"pending", "processing", "shipped", "delivered", "cancelled",
             "returning", "returned"}
Open == {"pending", "processing", "shipped"}
Steps == {"idle", "reserve", "create", "clear", "release", "commit", "write", "return", "done"}
Items == [Products -> Nat]

IdleRequest == [step |-> "idle", op |-> "none", buyer |-> None,
                items |-> [p \in Products |-> 0], todo |-> {}, sellers |-> {},
                order |-> None, next |-> None]
RequestRecords == [step : Steps, op : {"none", "place", "status", "cancel", "return"},
                   buyer : Buyers \cup {None}, items : Items, todo : SUBSET Products,
                   sellers : SUBSET Sellers, order : Orders \cup {None},
                   next : Statuses \cup {None}]

Init ==
    /\ quantity = Stock
    /\ reserved = [p \in Products |-> 0]
    /\ cart = InCart
    /\ status = [o \in Orders |-> "none"]
    /\ shipped = {} /\ delivered = {} /\ returns = {}
    /\ req = [r \in Requests |-> IdleRequest]
    /\ failures = 0 /\ calm = TRUE

-----------------------------------------------------------------------------
Active(r) == req[r].step \notin {"idle", "done"}
Available(p) == quantity[p] - reserved[p]
AtLeast0(n) == IF n < 0 THEN 0 ELSE n

Picked(items) == {p \in Products : items[p] > 0}
\* order_items of an order.
Lines(o) == [p \in Products |-> IF SellerOf[p] = o[2] THEN req[o[1]].items[p] ELSE 0]
\* The quantity of p request r is about.
Amount(r, p) == IF req[r].op = "place" THEN req[r].items[p] ELSE Lines(req[r].order)[p]

Created(r) == {s \in Sellers : status[<<r, s>>] # "none"}
Delivering(r) == req[r].op = "status" /\ req[r].next = "delivered"

\* A checkout's record stays when it ends: Lines reads it.
Continue(r, new) ==
    req' = [req EXCEPT ![r] = IF new.step = "done" /\ new.op # "place"
                              THEN IdleRequest ELSE new]
Fails == failures < MaxFailures /\ failures' = failures + 1
Finish(r) == Continue(r, [req[r] EXCEPT !.step = "done"])

\* Once the last of todo is done, the request goes on to the next step.
Done(r, p, next) ==
    [req[r] EXCEPT !.todo = @ \ {p}, !.step = IF req[r].todo = {p} THEN next ELSE @]

\* What takes reservations away from orders that are still open: two requests
\* that overlap on one order; a checkout undone after it created an order; a
\* delivery that ends after it took the stock.
Overlaps(o) == \E q \in Requests : Active(q) /\ req[q].order = o
Disturbs(r) == (req[r].step = "create" /\ Created(r) # {}) \/ Delivering(r)

-----------------------------------------------------------------------------
(* PlaceOrder.                                                             *)

\* The cart is read once, and nothing keeps another request from ordering it too.
PlaceOrder(r, b) ==
    /\ req[r].step = "idle" /\ Picked(cart[b]) # {}
    /\ Continue(r, [IdleRequest EXCEPT !.step = "reserve", !.op = "place", !.buyer = b,
                                       !.items = cart[b], !.todo = Picked(cart[b])])
    /\ UNCHANGED <<stockVars, cart, orderVars, historyVars>>

\* Mutant: the check leaves out what is reserved already.
CanReserveIgnoringOthers(p, n) == quantity[p] >= n \/ p \in Backorder

CanReserve(p, n) == Available(p) >= n \/ p \in Backorder

\* ReserveInventory, item by item.  When one is refused the handler returns, and
\* keeps what it has reserved before.
ReserveInventory(r) ==
    /\ req[r].step = "reserve"
    /\ \E p \in req[r].todo :
          \/ /\ CanReserve(p, Amount(r, p))
             /\ reserved' = [reserved EXCEPT ![p] = @ + Amount(r, p)]
             /\ Continue(r, [Done(r, p, "create") EXCEPT
                                !.sellers = {SellerOf[q] : q \in Picked(req[r].items)}])
          \/ /\ ~CanReserve(p, Amount(r, p))
             /\ Finish(r)
             /\ UNCHANGED reserved
    /\ UNCHANGED <<quantity, cart, orderVars, historyVars>>

\* CreateOrder for one seller; the map of sellers is ranged over in any order.
CreateOrder(r) ==
    /\ req[r].step = "create"
    /\ \E s \in req[r].sellers :
          /\ status' = [status EXCEPT ![<<r, s>>] = "pending"]
          /\ Continue(r, [req[r] EXCEPT !.sellers = @ \ {s},
                             !.step = IF req[r].sellers = {s} THEN "clear" ELSE @])
    /\ UNCHANGED <<stockVars, cart, shipped, delivered, returns, historyVars>>

\* CreateOrder fails: every item of the cart is released, those of the orders
\* that were created included.
UndoCheckout(r) ==
    /\ req[r].step = "create" /\ Fails
    /\ Continue(r, [req[r] EXCEPT !.step = "release", !.todo = Picked(req[r].items)])
    /\ calm' = (calm /\ ~Disturbs(r))
    /\ UNCHANGED <<stockVars, cart, orderVars>>

\* ClearCart; its failure is only logged.
ClearCart(r) ==
    /\ req[r].step = "clear"
    /\ \/ /\ cart' = [cart EXCEPT ![req[r].buyer] = [p \in Products |-> 0]]
          /\ UNCHANGED failures
       \/ Fails /\ UNCHANGED cart
    /\ Finish(r)
    /\ UNCHANGED <<stockVars, orderVars, calm>>

-----------------------------------------------------------------------------
(* Stock of an order that is undone, or delivered.                         *)

\* Mutant: not clamped.
ReleasedUnclamped(p, n) == reserved[p] - n

\* ReleaseReservedInventory, clamped at zero.
Released(p, n) == AtLeast0(reserved[p] - n)

\* Item by item; an error is only logged.
ReleaseInventory(r) ==
    /\ req[r].step = "release"
    /\ \E p \in req[r].todo :
          /\ \/ /\ reserved' = [reserved EXCEPT ![p] = Released(p, Amount(r, p))]
                /\ UNCHANGED failures
             \/ Fails /\ UNCHANGED reserved
          /\ Continue(r, Done(r, p, "done"))
    /\ UNCHANGED <<quantity, cart, orderVars, calm>>

\* CommitReservedInventory, when an order is delivered and not, as UpdateStatus's
\* comment has it, when it is shipped; an error is only logged.
CommitInventory(r) ==
    /\ req[r].step = "commit"
    /\ \E p \in req[r].todo :
          /\ \/ /\ quantity' = [quantity EXCEPT ![p] = AtLeast0(@ - Amount(r, p))]
                /\ reserved' = [reserved EXCEPT ![p] = Released(p, Amount(r, p))]
                /\ UNCHANGED failures
             \/ Fails /\ UNCHANGED stockVars
          /\ Continue(r, Done(r, p, "write"))
    /\ UNCHANGED <<cart, orderVars, calm>>

-----------------------------------------------------------------------------
(* The life of an order.                                                   *)

\* Mutant: an order can be delivered unshipped.
AllowedOrSkipped(now) == CASE now = "processing" -> {"shipped", "cancelled", "delivered"}
                           [] now = "shipped" -> {"delivered"}
                           [] now = "pending" -> {"processing", "cancelled"}
                           [] OTHER -> {}

\* validateTransition.
Allowed(now) == CASE now = "pending" -> {"processing", "cancelled"}
                  [] now = "processing" -> {"shipped", "cancelled"}
                  [] now = "shipped" -> {"delivered"}
                  [] now = "delivered" -> {"returning"}
                  [] now = "returning" -> {"returned"}
                  [] OTHER -> {}

\* The handler has read order o and goes on.
Start(r, o, op, step, next) ==
    /\ req[r].step = "idle"
    /\ Continue(r, [IdleRequest EXCEPT !.step = step, !.op = op, !.order = o,
                                       !.next = next, !.todo = Picked(Lines(o))])
    /\ calm' = (calm /\ ~Overlaps(o))
    /\ UNCHANGED <<stockVars, cart, orderVars, failures>>

\* UpdateStatus by the seller; a seller who cancels releases nothing.
UpdateStatus(r, o) ==
    \E next \in Allowed(status[o]) :
        Start(r, o, "status", IF next = "delivered" THEN "commit" ELSE "write", next)

\* Mutant: the status is not looked at.
CancelAnything(r, o) ==
    /\ status[o] # "none"
    /\ Start(r, o, "cancel", "write", "cancelled")

\* CancelOrder by the buyer.
CancelOrder(r, o) ==
    /\ status[o] \in {"pending", "processing"}
    /\ Start(r, o, "cancel", "write", "cancelled")

\* CreateReturn by the buyer.
CreateReturn(r, o) ==
    /\ status[o] = "delivered"
    /\ Start(r, o, "return", "return", "returning")

\* The repository's UpdateOrderStatus: no condition on the status it replaces.
UpdateOrderStatus(r) ==
    /\ req[r].step = "write"
    /\ LET o == req[r].order
           next == req[r].next
       IN  /\ status' = [status EXCEPT ![o] = next]
           /\ shipped' = IF next = "shipped" THEN shipped \cup {o} ELSE shipped
           /\ delivered' = IF next = "delivered" THEN delivered \cup {o} ELSE delivered
    /\ Continue(r, [req[r] EXCEPT !.step = IF req[r].op = "cancel" THEN "release" ELSE "done"])
    /\ UNCHANGED <<stockVars, cart, returns, historyVars>>

\* The repository's CreateReturn: the row, and again an unconditional status.
InsertReturn(r) ==
    /\ req[r].step = "return"
    /\ returns' = returns \cup {req[r].order}
    /\ status' = [status EXCEPT ![req[r].order] = "returning"]
    /\ Finish(r)
    /\ UNCHANGED <<stockVars, cart, shipped, delivered, historyVars>>

\* A call fails, the context is cancelled or the process dies.
Abort(r) ==
    /\ Active(r) /\ Fails
    /\ Finish(r)
    /\ calm' = (calm /\ ~Delivering(r))
    /\ UNCHANGED <<stockVars, cart, orderVars>>

Next ==
    \E r \in Requests :
        \/ \E b \in Buyers : PlaceOrder(r, b)
        \/ ReserveInventory(r) \/ CreateOrder(r) \/ UndoCheckout(r) \/ ClearCart(r)
        \/ ReleaseInventory(r) \/ CommitInventory(r)
        \/ \E o \in Orders : UpdateStatus(r, o) \/ CancelOrder(r, o) \/ CreateReturn(r, o)
        \/ UpdateOrderStatus(r) \/ InsertReturn(r) \/ Abort(r)

Spec == Init /\ [][Next]_vars

-----------------------------------------------------------------------------
(* Properties.                                                             *)

\* A request has the local variables its next step reads.
Complete(q) ==
    /\ q.step # "idle" => q.op # "none"
    /\ q.step \in {"reserve", "create", "clear"} => q.op = "place"
    /\ q.step \in {"commit", "write", "return"} => q.op \in {"status", "cancel", "return"}
    /\ q.op \in {"status", "cancel", "return"} => q.order \in Orders /\ q.next \in Statuses
    /\ q.op = "place" => q.buyer \in Buyers

\* The tables and the requests have their types.
TypeOK ==
    /\ quantity \in [Products -> Nat] /\ reserved \in [Products -> Nat]
    /\ cart \in [Buyers -> Items]
    /\ status \in [Orders -> Statuses \cup {"none"}]
    /\ shipped \subseteq Orders /\ delivered \subseteq Orders /\ returns \subseteq Orders
    /\ req \in [Requests -> RequestRecords]
    /\ \A r \in Requests : Complete(req[r])
    /\ failures \in 0..MaxFailures /\ calm \in BOOLEAN

\* However reservations, releases and commits of any requests interleave, no more
\* is reserved than is in stock (the row lock of ReserveInventory, and the clamps
\* of the two others).
ReservationsAreStocked ==
    \A p \in Products \ Backorder : reserved[p] <= quantity[p]

\* An order was shipped before it was delivered and delivered before a return of
\* it was accepted, and shipped_at and delivered_at say so, even where overlapping
\* requests overwrite its status.
StagesAreNotSkipped ==
    /\ returns \subseteq delivered /\ delivered \subseteq shipped
    /\ \A o \in Orders : /\ status[o] = "shipped" => o \in shipped
                         /\ status[o] = "delivered" => o \in delivered

\* What an open order still needs of p: a delivery in progress may have taken it.
Owed(o, p) ==
    IF \E r \in Requests : /\ Active(r) /\ req[r].order = o /\ Delivering(r)
                           /\ req[r].step = "write" \/ p \notin req[r].todo
    THEN 0 ELSE Lines(o)[p]

\* The units of p that open orders still need, numbered for each order, and how many they are.
Due(p) == UNION {{o} \X (1..Owed(o, p)) : o \in {x \in Orders : status[x] \in Open}}
Demand(p) == Cardinality(Due(p))

\* As long as requests do not overlap on an order and neither a checkout nor a
\* delivery fails halfway, every open order has its reservation, whatever other
\* orders are placed, cancelled and delivered meanwhile.
OrdersAreBackedWhenCalm == calm => \A p \in Products : Demand(p) <= reserved[p]

\* ... and statuses follow validateTransition.
LegalStep(o) == status[o] \in {status'[o], "none"} \/ status'[o] \in Allowed(status[o])
TransitionsAreLegalWhenCalm == [][calm' => \A o \in Orders : LegalStep(o)]_vars

-----------------------------------------------------------------------------
(* What the code's comments say and the code does not do.                  *)

\* product_repository.go:396: "SELECT FOR UPDATE to prevent overselling".  There
\* is stock for all open orders.
NoOverselling == \A p \in Products \ Backorder : Demand(p) <= quantity[p]

=============================================================================
