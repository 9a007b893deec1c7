---- MODULE Shop ----
\* The shop of the ecommerce-service beside its orders (module Orders):
\* the cart of a buyer, and a product of the catalogue.
EXTENDS Integers, FiniteSets

\* The cart of one buyer in the ecommerce-service, with one product in it,
\* from the first item to the order.  No transaction spans two statements:
\* the stock is looked at, the cart found or made, the item written; a
\* checkout loads the cart, reserves the stock, writes the order and then
\* empties the cart, whatever has come into it meanwhile.

CONSTANTS
    CartCalls,        \* requests of the buyer
    Units,            \* the quantities asked for
    Stock,            \* units in the inventory
    MaxCartFaults     \* statements that fail (bounds them)

ASSUME CartAssumption ==
    /\ IsFiniteSet(CartCalls) /\ Units \subseteq Nat \ {0}
    /\ Stock \in Nat /\ MaxCartFaults \in Nat

VARIABLES
    carts,            \* rows of the buyer in carts, by the request that made them
    line,             \* the item of each cart, by the request that inserted it
    reservedQty,      \* inventory.reserved_qty
    ordered,          \* units in the order of each request
    cartCall,         \* what each request does
    put,              \* units the buyer has put in and not taken out
    missedAtOnce,     \* a request found no cart while another was about to make one
    changedMeanwhile, \* a checkout emptied a cart that was not as it had loaded it
    cartFaults

cartVars == <<carts, line, reservedQty, ordered, cartCall, put, missedAtOnce, changedMeanwhile, cartFaults>>

CartSteps == {"new", "soft", "find", "create", "upsert", "set", "delete", "load", "reserve", "order",
              "release", "clear", "ended"}
CartKinds == {"add", "quantity", "remove", "checkout"}
NoLine == [id |-> {}, qty |-> 0]

\* The buyer has no cart yet, or one with an item in it.
CartInit ==
    /\ \E c \in CartCalls, first \in {0, 1} :
          /\ carts = IF first = 0 THEN {} ELSE {c}
          /\ line = [g \in CartCalls |-> IF first = 1 /\ g = c THEN [id |-> {c}, qty |-> 1] ELSE NoLine]
          /\ put = first
          /\ cartCall = [d \in CartCalls |->
                 [step |-> IF first = 1 /\ d = c THEN "ended" ELSE "new", kind |-> "add", units |-> 0,
                  cart |-> d, item |-> {}]]
    /\ reservedQty = 0 /\ ordered = [c \in CartCalls |-> 0]
    /\ missedAtOnce = FALSE /\ changedMeanwhile = FALSE /\ cartFaults = 0

--------
\* Mutant: what is reserved is not subtracted.
AvailableInAll == Stock

Available == Stock - reservedQty
CartGoes(c, step) == cartCall' = [cartCall EXCEPT ![c].step = step]
CartBegins(c, kind, step, units, cart, item) ==
    /\ cartCall[c].step = "new"
    /\ cartCall' = [cartCall EXCEPT ![c] = [step |-> step, kind |-> kind, units |-> units, cart |-> cart, item |-> item]]
    /\ UNCHANGED <<carts, line, reservedQty, ordered, put, missedAtOnce, changedMeanwhile, cartFaults>>

AddToCart(c) == \E q \in Units : CartBegins(c, "add", "soft", q, c, {c})

\* The stock is looked at only when the quantity is raised.
UpdateQuantity(c) ==
    \E g \in carts, q \in Units :
        /\ line[g].id # {}
        /\ CartBegins(c, "quantity", IF q > line[g].qty THEN "soft" ELSE "set", q, g, line[g].id)
RemoveFromCart(c) ==
    \E g \in carts : line[g].id # {} /\ CartBegins(c, "remove", "delete", 0, g, line[g].id)
CheckoutCart(c) ==
    \E g \in carts : line[g].id # {} /\ CartBegins(c, "checkout", "soft", line[g].qty, g, {})

\* GetInventory: nothing is held for the request.
GetInventory(c) ==
    /\ cartCall[c].step = "soft"
    /\ CartGoes(c, IF Available < cartCall[c].units THEN "ended"
                   ELSE CASE cartCall[c].kind = "add" -> "find"
                          [] cartCall[c].kind = "quantity" -> "set"
                          [] OTHER -> "load")
    /\ UNCHANGED <<carts, line, reservedQty, ordered, put, missedAtOnce, changedMeanwhile, cartFaults>>

\* GetCart finds one of the buyer's carts, or one has to be made.
CartsAt(step) == {c \in CartCalls : cartCall[c].step = step}
GetCart(c) ==
    /\ cartCall[c].step = "find"
    /\ IF carts = {} THEN CartGoes(c, "create")
       ELSE \E g \in carts : cartCall' = [cartCall EXCEPT ![c] = [@ EXCEPT !.step = "upsert", !.cart = g]]
    /\ missedAtOnce' = (missedAtOnce \/ (carts = {} /\ CartsAt("create") # {}))
    /\ UNCHANGED <<carts, line, reservedQty, ordered, put, changedMeanwhile, cartFaults>>
CreateCart(c) ==
    /\ cartCall[c].step = "create"
    /\ carts' = carts \cup {c}
    /\ cartCall' = [cartCall EXCEPT ![c] = [@ EXCEPT !.step = "upsert", !.cart = c]]
    /\ UNCHANGED <<line, reservedQty, ordered, put, missedAtOnce, changedMeanwhile, cartFaults>>

\* INSERT ... ON CONFLICT: an item that is there keeps its id.
Added(old, c) == [id |-> IF old.id = {} THEN {c} ELSE old.id, qty |-> old.qty + cartCall[c].units]
UpsertItem(c) ==
    LET g == cartCall[c].cart
    IN /\ cartCall[c].step = "upsert"
       /\ line' = [line EXCEPT ![g] = Added(@, c)]
       /\ put' = put + cartCall[c].units
       /\ CartGoes(c, "ended")
       /\ UNCHANGED <<carts, reservedQty, ordered, missedAtOnce, changedMeanwhile, cartFaults>>

\* Both name the item by its id: none is touched that came in its place.
UpdateCartQuantity(c) ==
    LET g == cartCall[c].cart
        here == line[g].id = cartCall[c].item
    IN /\ cartCall[c].step \in {"set", "delete"}
       /\ line' = IF ~here THEN line
                  ELSE IF cartCall[c].step = "set" THEN [line EXCEPT ![g].qty = cartCall[c].units]
                  ELSE [line EXCEPT ![g] = NoLine]
       /\ put' = IF here THEN put + cartCall[c].units - line[g].qty ELSE put
       /\ CartGoes(c, "ended")
       /\ UNCHANGED <<carts, reservedQty, ordered, missedAtOnce, changedMeanwhile, cartFaults>>

--------
\* PlaceOrder loads the cart again; what is ordered is what it finds now.
GetCartByID(c) ==
    /\ cartCall[c].step = "load"
    /\ LET found == line[cartCall[c].cart]
       IN cartCall' = [cartCall EXCEPT ![c] = [@ EXCEPT !.step = IF found.qty = 0 THEN "ended" ELSE "reserve",
                                                        !.units = found.qty, !.item = found.id]]
    /\ UNCHANGED <<carts, line, reservedQty, ordered, put, missedAtOnce, changedMeanwhile, cartFaults>>
ReserveStock(c) ==
    /\ cartCall[c].step = "reserve"
    /\ IF Available < cartCall[c].units THEN CartGoes(c, "ended") /\ UNCHANGED reservedQty
       ELSE CartGoes(c, "order") /\ reservedQty' = reservedQty + cartCall[c].units
    /\ UNCHANGED <<carts, line, ordered, put, missedAtOnce, changedMeanwhile, cartFaults>>
CreateOrder(c) ==
    /\ cartCall[c].step = "order"
    /\ ordered' = [ordered EXCEPT ![c] = cartCall[c].units]
    /\ CartGoes(c, "clear")
    /\ UNCHANGED <<carts, line, reservedQty, put, missedAtOnce, changedMeanwhile, cartFaults>>
releaseAllReservations(c) ==
    /\ cartCall[c].step = "release"
    /\ reservedQty' = reservedQty - cartCall[c].units
    /\ CartGoes(c, "ended")
    /\ UNCHANGED <<carts, line, ordered, put, missedAtOnce, changedMeanwhile, cartFaults>>
ClearCart(c) ==
    LET g == cartCall[c].cart
    IN /\ cartCall[c].step = "clear"
       /\ line' = [line EXCEPT ![g] = NoLine]
       /\ changedMeanwhile' = (changedMeanwhile \/ line[g] # [id |-> cartCall[c].item, qty |-> cartCall[c].units])
       /\ CartGoes(c, "ended")
       /\ UNCHANGED <<carts, reservedQty, ordered, put, missedAtOnce, cartFaults>>

\* A statement fails, or the process ends.  A cart that could not be looked for is made, whatever
\* the error was; an order that is not written gives its reservation back; a cart that is not
\* emptied is only logged.
CartCallFails(c) ==
    /\ cartCall[c].step \notin {"new", "ended"} /\ cartFaults < MaxCartFaults
    /\ \/ CartGoes(c, "ended")
       \/ cartCall[c].step = "find" /\ CartGoes(c, "create")
       \/ cartCall[c].step = "order" /\ CartGoes(c, "release")
    /\ cartFaults' = cartFaults + 1
    /\ UNCHANGED <<carts, line, reservedQty, ordered, put, missedAtOnce, changedMeanwhile>>

CartNext ==
    \E c \in CartCalls :
        \/ AddToCart(c) \/ UpdateQuantity(c) \/ RemoveFromCart(c) \/ CheckoutCart(c)
        \/ GetInventory(c) \/ GetCart(c) \/ CreateCart(c) \/ UpsertItem(c) \/ UpdateCartQuantity(c)
        \/ GetCartByID(c) \/ ReserveStock(c) \/ CreateOrder(c) \/ releaseAllReservations(c)
        \/ ClearCart(c) \/ CartCallFails(c)

CartSpec == CartInit /\ [][CartNext]_cartVars

--------
\* Properties.

CartTypeOK ==
    /\ carts \subseteq CartCalls
    /\ line \in [CartCalls -> [id : SUBSET CartCalls, qty : Nat]]
    /\ \A g \in CartCalls : (line[g].id = {}) = (line[g].qty = 0)
    /\ reservedQty \in 0..Stock /\ ordered \in [CartCalls -> Nat]
    /\ cartCall \in [CartCalls -> [step : CartSteps, kind : CartKinds, units : Nat,
                                   cart : CartCalls, item : SUBSET CartCalls]]
    /\ put \in Int /\ missedAtOnce \in BOOLEAN /\ changedMeanwhile \in BOOLEAN /\ cartFaults \in 0..MaxCartFaults

UnitsOf(f) == Cardinality(UNION {{c} \X (1..f[c]) : c \in DOMAIN f})
InCarts == UnitsOf([g \in CartCalls |-> line[g].qty])
InOrders == UnitsOf(ordered)
Held == UnitsOf([c \in CartCalls |-> IF cartCall[c].step \in {"order", "release"} THEN cartCall[c].units ELSE 0])

\* What the buyer has put in is in a cart or in one order, once, unless a cart was not emptied or
\* had changed since the checkout loaded it.
UnitsAreKept == CartsAt("clear") = {} /\ ~changedMeanwhile /\ cartFaults = 0 => put = InCarts + InOrders

\* The stock holds what is reserved; that is what is ordered and what is about to be, unless an
\* undoing failed.
StockIsHeld == Held + InOrders <= reservedQty /\ (cartFaults = 0 => reservedQty = Held + InOrders)

\* A buyer has one cart, and one more for each statement that failed, unless a request found none
\* while another was about to make one.
OneCart == ~missedAtOnce => Cardinality(carts) <= 1 + cartFaults

CartsAreTrue == UnitsAreKept /\ StockIsHeld /\ OneCart

--------
\* One product of a seller in the ecommerce-service: its row, written back
\* whole by edits and by uploads of images; its document in Elasticsearch,
\* which goroutines write after the request was answered; and the count of
\* its reviews, which every review takes anew in its own transaction.

CONSTANTS
    ShopCalls,        \* requests
    Titles,           \* what an edit may change besides the status
    MaxShopFaults     \* statements and calls that fail (bounds them)

ASSUME CatalogueAssumption == IsFiniteSet(ShopCalls) /\ MaxShopFaults \in Nat

VARIABLES
    product,          \* the row, without its review count
    document,         \* what is indexed, and the number of the row it was made of
    reviews,          \* requests whose review is committed
    reviewCount,      \* products.review_count
    rowLock,          \* the review transactions that hold the row: none or one
    shopCall,         \* what each request does
    asked,            \* the row with all that was asked for and written
    undone,           \* a request wrote back a row that had changed since it was read
    overrun,          \* the document of a row was written over that of a later one
    countedAtOnce,    \* a review took its count while another had taken its own and was not committed
    shopFaults

shopVars == <<product, document, reviews, reviewCount, rowLock, shopCall, asked, undone, overrun,
              countedAtOnce, shopFaults>>

ProductStatuses == {"draft", "active"}
Rows == [status : ProductStatuses, title : Titles, images : SUBSET ShopCalls, deleted : BOOLEAN]
Documents == [status : ProductStatuses \cup {"none"}, of : 0..Cardinality(ShopCalls)]
ShopSteps == {"new", "write", "index", "unindex", "count", "lock", "commit", "ended"}

\* CreateProduct: the row of a draft, whose goroutine may still be on its way, or have failed.
CatalogueInit ==
    /\ \E t \in Titles : product = [status |-> "draft", title |-> t, images |-> {}, deleted |-> FALSE]
    /\ document = [status |-> "none", of |-> 0]
    /\ \E C \in SUBSET ShopCalls :
          /\ Cardinality(C) <= 1
          /\ shopCall = [c \in ShopCalls |->
                 [kind |-> "create", step |-> IF c \in C THEN "index" ELSE "new",
                  of |-> IF c \in C THEN 1 ELSE 0, read |-> product, writes |-> product, counted |-> 0]]
    /\ reviews = {} /\ reviewCount = 0 /\ rowLock = {}
    /\ asked = product /\ undone = FALSE /\ overrun = FALSE /\ countedAtOnce = FALSE /\ shopFaults = 0

--------
\* GetProduct and ListProducts leave out what is deleted.
GetProduct == ~product.deleted
ListProducts == GetProduct /\ product.status = "active"

\* Elasticsearch filters by the status it knows; the rows of what it finds are read then.  The
\* table replaces an Elasticsearch that does not answer.
SearchProducts(elastic) == IF elastic THEN document.status = "active" /\ GetProduct ELSE ListProducts

Shop(c, step) == shopCall' = [shopCall EXCEPT ![c].step = step]
ReadProduct(c, kind, row) ==
    /\ shopCall[c].step = "new" /\ GetProduct
    /\ shopCall' = [shopCall EXCEPT ![c] =
           [@ EXCEPT !.kind = kind, !.step = "write", !.read = product, !.writes = row]]
    /\ UNCHANGED <<product, document, reviews, reviewCount, rowLock, asked, undone, overrun, countedAtOnce, shopFaults>>

\* Both change a part of what they read.
UpdateProduct(c) ==
    \E s \in ProductStatuses, t \in Titles :
        /\ <<s, t>> # <<product.status, product.title>>
        /\ ReadProduct(c, "update", [product EXCEPT !.status = s, !.title = t])
UploadProductImages(c) == ReadProduct(c, "images", [product EXCEPT !.images = @ \cup {c}])
DeleteProduct(c) == ReadProduct(c, "delete", [product EXCEPT !.deleted = TRUE])

\* Rows are numbered as they are written.
NextNumber == Cardinality({c \in ShopCalls : shopCall[c].of > 0}) + 1

\* What was asked for, with the part that c asks for.
AskedBy(c) ==
    CASE shopCall[c].kind = "update" ->
             [asked EXCEPT !.status = IF shopCall[c].writes.status # shopCall[c].read.status
                                      THEN shopCall[c].writes.status ELSE @,
                           !.title = IF shopCall[c].writes.title # shopCall[c].read.title
                                     THEN shopCall[c].writes.title ELSE @]
      [] shopCall[c].kind = "images" -> [asked EXCEPT !.images = @ \cup {c}]
      [] OTHER -> [asked EXCEPT !.deleted = TRUE]

\* Mutant: the statement does not ask whether the product is deleted.
StandsRegardless == TRUE

Stands == ~product.deleted

\* UPDATE products: all columns as they were read and changed; a deletion writes its mark only.
\* The statement waits for a review that holds the row, and touches no deleted one.
WriteProduct(c) ==
    /\ shopCall[c].step = "write" /\ rowLock = {}
    /\ IF ~Stands THEN Shop(c, "ended") /\ UNCHANGED <<product, asked, undone>>
       ELSE /\ product' = IF shopCall[c].kind = "delete" THEN [product EXCEPT !.deleted = TRUE]
                          ELSE shopCall[c].writes
            /\ asked' = AskedBy(c)
            /\ undone' = (undone \/ (shopCall[c].kind # "delete" /\ shopCall[c].read # product))
            /\ shopCall' = [shopCall EXCEPT ![c] = [@ EXCEPT !.of = NextNumber, !.step =
                   CASE shopCall[c].kind = "update" -> "index"
                     [] shopCall[c].kind = "delete" -> "unindex"
                     [] OTHER -> "ended"]]
    /\ UNCHANGED <<document, reviews, reviewCount, rowLock, overrun, countedAtOnce, shopFaults>>

\* The goroutines run in any order, with the row their request wrote.
Replaces(c, status) ==
    /\ document' = [status |-> status, of |-> shopCall[c].of]
    /\ overrun' = (overrun \/ shopCall[c].of < document.of)
    /\ Shop(c, "ended")
    /\ UNCHANGED <<product, reviews, reviewCount, rowLock, asked, undone, countedAtOnce, shopFaults>>
indexProduct(c) == shopCall[c].step = "index" /\ Replaces(c, shopCall[c].writes.status)
deleteFromIndex(c) == shopCall[c].step = "unindex" /\ Replaces(c, "none")

--------
\* CreateReview: the INSERT; whether the buyer bought the product is not asked.
InsertReview(c) ==
    /\ shopCall[c].step = "new" /\ GetProduct
    /\ shopCall' = [shopCall EXCEPT ![c] = [@ EXCEPT !.kind = "review", !.step = "count"]]
    /\ UNCHANGED <<product, document, reviews, reviewCount, rowLock, asked, undone, overrun, countedAtOnce, shopFaults>>

\* The UPDATE of the product counts, in its own snapshot, what is committed and its own review;
\* then it waits for the row.
Counted == {c \in ShopCalls : shopCall[c].step \in {"lock", "commit"}}
CountReviews(c) ==
    /\ shopCall[c].step = "count"
    /\ shopCall' = [shopCall EXCEPT ![c] = [@ EXCEPT !.step = "lock", !.counted = Cardinality(reviews) + 1]]
    /\ countedAtOnce' = (countedAtOnce \/ Counted # {})
    /\ UNCHANGED <<product, document, reviews, reviewCount, rowLock, asked, undone, overrun, shopFaults>>
LockProduct(c) ==
    /\ shopCall[c].step = "lock" /\ rowLock = {}
    /\ rowLock' = {c} /\ Shop(c, "commit")
    /\ UNCHANGED <<product, document, reviews, reviewCount, asked, undone, overrun, countedAtOnce, shopFaults>>

CommitReview(c) ==
    /\ shopCall[c].step = "commit"
    /\ reviews' = reviews \cup {c} /\ reviewCount' = shopCall[c].counted
    /\ rowLock' = {} /\ Shop(c, "ended")
    /\ UNCHANGED <<product, document, asked, undone, overrun, countedAtOnce, shopFaults>>

\* A statement or a call fails, or the process ends: a transaction is undone as a whole, a
\* goroutine is not run again.
ShopCallFails(c) ==
    /\ shopCall[c].step \notin {"new", "ended"} /\ shopFaults < MaxShopFaults
    /\ rowLock' = rowLock \ {c} /\ Shop(c, "ended") /\ shopFaults' = shopFaults + 1
    /\ UNCHANGED <<product, document, reviews, reviewCount, asked, undone, overrun, countedAtOnce>>

CatalogueNext ==
    \E c \in ShopCalls :
        \/ UpdateProduct(c) \/ UploadProductImages(c) \/ DeleteProduct(c) \/ WriteProduct(c)
        \/ indexProduct(c) \/ deleteFromIndex(c)
        \/ InsertReview(c) \/ CountReviews(c) \/ LockProduct(c) \/ CommitReview(c)
        \/ ShopCallFails(c)

CatalogueSpec == CatalogueInit /\ [][CatalogueNext]_shopVars

--------
\* Properties.

CatalogueTypeOK ==
    /\ product \in Rows /\ asked \in Rows /\ document \in Documents
    /\ reviews \subseteq ShopCalls /\ reviewCount \in 0..Cardinality(ShopCalls)
    /\ rowLock \subseteq ShopCalls /\ Cardinality(rowLock) <= 1
    /\ shopCall \in [ShopCalls -> [kind : {"create", "update", "images", "delete", "review"}, step : ShopSteps,
                                   of : 0..Cardinality(ShopCalls), read : Rows, writes : Rows,
                                   counted : 0..Cardinality(ShopCalls)]]
    /\ undone \in BOOLEAN /\ overrun \in BOOLEAN /\ countedAtOnce \in BOOLEAN
    /\ shopFaults \in 0..MaxShopFaults

\* The row has all that was asked for, unless a request put back what it had read too early; and
\* a deletion stands in any case.
EditsAdd == (~undone => product = asked) /\ (asked.deleted => product.deleted)

\* Once the goroutines are through, and if none failed or ran after that of a later row, the
\* search finds what the list shows, whichever of the two stores answers.
SearchFollowsTheTable ==
    (\A c \in ShopCalls : shopCall[c].step \notin {"index", "unindex"}) /\ shopFaults = 0 /\ ~overrun /\ ~undone
        => SearchProducts(TRUE) = SearchProducts(FALSE)

\* Every review that was kept is counted once, unless one took its count while another had taken
\* its own and was not committed.
ReviewsAreCounted == ~countedAtOnce => reviewCount = Cardinality(reviews)

CatalogueAgrees == EditsAdd /\ SearchFollowsTheTable /\ ReviewsAreCounted

=====
