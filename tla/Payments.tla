---- MODULE Payments ----
\* The payment-service (services/payment-service/internal): charges,
\* payouts and saved cards of one user, and Stripe as the service uses it.
\*
\* Every HTTP request is a process (an attempt).  Each database call and
\* each Stripe call is a step; a call can fail, its answer can be lost, a
\* request can end between any two calls.  Stripe replays its first answer
\* to an idempotency key.  A processing intent settles later, and Stripe
\* reports that in a webhook event which it delivers until it is accepted.
\*
\* Nothing here sets stripe_charge_id, so Stripe refuses every refund;
\* RefundPayment therefore changes nothing and has no action.
EXTENDS Integers, FiniteSets

CONSTANTS
    Attempts,         \* HTTP requests; each is used once (bounds the rows)
    PayKeys,          \* idempotency keys of charges and payouts
    KindOf,           \* KindOf[k]: what key k is used for
    Cards,            \* Stripe payment methods (pm_...)
    MaxPayFaults      \* calls that fail, requests that end early (bounds them)

Kinds == {"coin_purchase", "subscription", "withdrawal"}
ASSUME PaymentAssumption ==
    /\ KindOf \in [PayKeys -> Kinds] /\ MaxPayFaults \in Nat
    /\ PayKeys \cap (Cards \cup Attempts \cup {"none"}) = {}

VARIABLES
    attempt,          \* what each request is doing
    customer,         \* the user has a row in stripe_customers
    intent,           \* Stripe: state of the intent or payout of each key
    replay,           \* Stripe: the answer it replays to each key
    row,              \* the payments or payouts row an attempt wrote
    events,           \* Stripe: webhook events not accepted yet
    seen,             \* rows of webhook_events
    refused,          \* genuine events the service answered with 401
    methods,          \* rows of payment_methods
    attached,         \* Stripe: cards attached to the customer
    attachKeys,       \* Stripe: cards whose attachment it replays
    payFaults,
    raced             \* keys two attempts worked on at once, so far

chargeVars == <<intent, replay, row>>
webhookVars == <<events, seen, refused>>
cardVars == <<methods, attached, attachKeys>>
payVars == <<attempt, customer, chargeVars, webhookVars, cardVars, payFaults, raced>>

Outcomes == {"succeeded", "processing", "declined"}
RowStatuses == {"none", "succeeded", "processing", "failed", "in_transit", "paid"}
PaySteps == {"idle", "lookup", "customer", "charge", "payout", "record_failed", "record",
             "attach", "insert", "default", "list", "detach", "delete", "done"}
MethodRows == [id : Attempts, card : Cards, isDefault : BOOLEAN]
\* What an attempt is about: a key, a card to add, a saved card to remove.
Subjects == PayKeys \cup Cards \cup Attempts \cup {"none"}
Events == [key : PayKeys, type : {"succeeded", "failed"}]
NoRow == [status |-> "none", intent |-> FALSE]

IdleAttempt == [step |-> "idle", subject |-> "none", asDefault |-> FALSE, answer |-> "none"]
AttemptRecords == [step : PaySteps, subject : Subjects, asDefault : BOOLEAN,
                   answer : {"none", "error", "succeeded", "processing", "in_transit"}]

PayInit ==
    /\ attempt = [a \in Attempts |-> IdleAttempt]
    /\ customer \in BOOLEAN
    /\ intent = [k \in PayKeys |-> "none"] /\ replay = intent
    /\ row = [a \in Attempts |-> NoRow]
    /\ events = {} /\ seen = {} /\ refused = {}
    /\ methods = {} /\ attached = {} /\ attachKeys = {}
    /\ payFaults = 0 /\ raced = {}

--------
Subject(a) == attempt[a].subject
PayGoes(a, step) == attempt' = [attempt EXCEPT ![a].step = step]
PayEnds(a, answer) == attempt' = [attempt EXCEPT ![a].step = "done", ![a].answer = answer]
PayFault == payFaults < MaxPayFaults /\ payFaults' = payFaults + 1
NoPayFault == UNCHANGED payFaults

\* Rows with key k, and those of them that carry the id of its intent.
RowsOf(k) == {b \in Attempts : Subject(b) = k /\ row[b] # NoRow}
RowsOfIntent(k) == {b \in RowsOf(k) : row[b].intent}

--------
\* ProcessCoinPurchase, ProcessSubscription, ProcessWithdrawal.

BeginCharge(a, k) ==
    /\ attempt[a].step = "idle"
    /\ attempt' = [attempt EXCEPT ![a].subject = k,
           ![a].step = IF KindOf[k] = "withdrawal" THEN "payout" ELSE "lookup"]
    /\ raced' = IF \E b \in Attempts : Subject(b) = k /\ attempt[b].step # "done"
                THEN raced \cup {k} ELSE raced
    /\ UNCHANGED <<customer, chargeVars, webhookVars, cardVars, payFaults>>

\* Mutant: a retry is not recognised.
LookupForgetful(a) ==
    /\ attempt[a].step = "lookup"
    /\ PayGoes(a, "customer")
    /\ UNCHANGED <<customer, chargeVars, webhookVars, cardVars, payFaults, raced>>

\* Any row of the key is read.  Only a succeeded one ends the retry, and a read
\* that fails is no obstacle.
Lookup(a) ==
    /\ attempt[a].step = "lookup"
    /\ \/ RowsOf(Subject(a)) = {} /\ PayGoes(a, "customer") /\ NoPayFault
       \/ /\ \E b \in RowsOf(Subject(a)) :
                IF row[b].status = "succeeded" THEN PayEnds(a, "succeeded")
                                               ELSE PayGoes(a, "customer")
          /\ NoPayFault
       \/ PayFault /\ PayGoes(a, "customer")
    /\ UNCHANGED <<customer, chargeVars, webhookVars, cardVars, raced>>

\* GetStripeCustomerByUserID answers (nil, nil) for a user without a row and the
\* nil record is dereferenced: the request panics.  Only a read that fails makes
\* the service create the customer, and it goes on if the row cannot be written.
EnsureCustomer(a) ==
    /\ attempt[a].step = "customer"
    /\ LET next == IF Subject(a) \in Cards THEN "attach" ELSE "charge" IN
          \/ customer /\ PayGoes(a, next) /\ UNCHANGED customer /\ NoPayFault
          \/ ~customer /\ PayEnds(a, "error") /\ UNCHANGED customer /\ NoPayFault
          \/ PayFault /\ PayGoes(a, next) /\ customer' \in {customer, TRUE}
    /\ UNCHANGED <<chargeVars, webhookVars, cardVars, raced>>

\* Stripe's answer to a key: a new outcome, or the one it gave before.
StripeAnswers(k) == IF replay[k] = "none" THEN Outcomes ELSE {replay[k]}
StripeCreates(k, s) ==
    /\ replay' = [replay EXCEPT ![k] = s]
    /\ intent' = [intent EXCEPT ![k] = IF @ = "none" THEN s ELSE @]

\* The intent is created and confirmed in one call.  An error is a decline or an
\* answer that was lost.
CreatePaymentIntent(a) ==
    /\ attempt[a].step = "charge"
    /\ \E s \in StripeAnswers(Subject(a)) :
          /\ StripeCreates(Subject(a), s)
          /\ \/ /\ s # "declined"
                /\ attempt' = [attempt EXCEPT ![a].step = "record", ![a].answer = s]
                /\ NoPayFault
             \/ /\ IF s = "declined" THEN NoPayFault ELSE PayFault
                /\ IF KindOf[Subject(a)] = "coin_purchase"
                   THEN PayGoes(a, "record_failed") ELSE PayEnds(a, "error")
    /\ UNCHANGED <<customer, row, webhookVars, cardVars, raced>>

\* recordPayment: a failed row with the key and without an intent.
RecordFailed(a) ==
    /\ attempt[a].step = "record_failed"
    /\ \/ row' = [row EXCEPT ![a] = [status |-> "failed", intent |-> FALSE]] /\ NoPayFault
       \/ UNCHANGED row /\ PayFault
    /\ PayEnds(a, "error")
    /\ UNCHANGED <<customer, intent, replay, webhookVars, cardVars, raced>>

\* Succeeded if Stripe says so, else processing; a payout is in transit.
RecordedStatus(s) == s

\* The row follows the charge; the request succeeds without it too.
CreatePayment(a) ==
    /\ attempt[a].step = "record"
    /\ \/ /\ row' = [row EXCEPT ![a] = [intent |-> TRUE,
                                         status |-> RecordedStatus(attempt[a].answer)]]
          /\ NoPayFault
       \/ UNCHANGED row /\ PayFault
    /\ PayGoes(a, "done")
    /\ UNCHANGED <<customer, intent, replay, webhookVars, cardVars, raced>>

\* A withdrawal asks for the creator's account first; it has one here.
CreatePayout(a) ==
    /\ attempt[a].step = "payout"
    /\ StripeCreates(Subject(a), "processing")
    /\ \/ /\ attempt' = [attempt EXCEPT ![a].step = "record", ![a].answer = "in_transit"]
          /\ NoPayFault
       \/ PayEnds(a, "error") /\ PayFault
    /\ UNCHANGED <<customer, row, webhookVars, cardVars, raced>>

--------
\* Webhooks.

\* Stripe: a processing intent or payout settles, and that becomes an event.
Settle(k) ==
    /\ intent[k] = "processing"
    /\ \E s \in {"succeeded", "declined"} :
          /\ intent' = [intent EXCEPT ![k] = s]
          /\ events' = events \cup {[key |-> k, type |-> IF s = "succeeded" THEN s ELSE "failed"]}
    /\ UNCHANGED <<attempt, customer, replay, row, seen, refused, cardVars, payFaults, raced>>

\* The status an event gives to the row of its intent or payout.
SettledStatus(e) ==
    IF e.type = "failed" THEN "failed"
    ELSE IF KindOf[e.key] = "withdrawal" THEN "paid" ELSE "succeeded"

\* The service's part: the event is recorded, then applied to a row it finds.
HandleStripeWebhook(e) ==
    /\ seen' = seen \cup {e}
    /\ IF e \in seen \/ RowsOfIntent(e.key) = {} THEN UNCHANGED row
       ELSE \E b \in RowsOfIntent(e.key) : row' = [row EXCEPT ![b].status = SettledStatus(e)]

\* A request body is read once: what a second reader gets of it.
BodyAfterRead(body) == "empty"

SignatureMatches(body) == body = "payload"

\* The handler reads the body and verifies the signature over it, then HandleWebhook
\* reads the request's body again and verifies the same signature over that.
StripeWebhook(e) ==
    /\ e \in events
    /\ IF SignatureMatches("payload") /\ SignatureMatches(BodyAfterRead("payload"))
       THEN HandleStripeWebhook(e) /\ events' = events \ {e} /\ UNCHANGED refused
       ELSE refused' = refused \cup {e} /\ UNCHANGED <<events, seen, row>>
    /\ UNCHANGED <<attempt, customer, intent, replay, cardVars, payFaults, raced>>

--------
\* AddPaymentMethod and RemovePaymentMethod.

BeginAdd(a, c) ==
    /\ attempt[a].step = "idle"
    /\ \E asDefault \in BOOLEAN :
          attempt' = [attempt EXCEPT ![a].subject = c, ![a].step = "customer",
                                     ![a].asDefault = asDefault]
    /\ UNCHANGED <<customer, chargeVars, webhookVars, cardVars, payFaults, raced>>

\* Stripe attaches the card, or replays that it did once.
Attach(a) ==
    /\ attempt[a].step = "attach"
    /\ attached' = IF Subject(a) \in attachKeys THEN attached ELSE attached \cup {Subject(a)}
    /\ attachKeys' = attachKeys \cup {Subject(a)}
    /\ \/ PayGoes(a, "insert") /\ NoPayFault
       \/ PayEnds(a, "error") /\ PayFault
    /\ UNCHANGED <<customer, chargeVars, webhookVars, methods, raced>>

CreatePaymentMethod(a) ==
    /\ attempt[a].step = "insert"
    /\ \/ /\ methods' = methods \cup {[id |-> a, card |-> Subject(a),
                                        isDefault |-> attempt[a].asDefault]}
          /\ IF attempt[a].asDefault THEN PayGoes(a, "default") ELSE PayEnds(a, "succeeded")
          /\ NoPayFault
       \/ PayEnds(a, "error") /\ PayFault /\ UNCHANGED methods
    /\ UNCHANGED <<customer, chargeVars, webhookVars, attached, attachKeys, raced>>

\* Two updates in one transaction: nobody's default, then this row's.
OnlyDefault(a) == {[m EXCEPT !.isDefault = m.id = a] : m \in methods}

\* An error is ignored.
SetDefaultPaymentMethod(a) ==
    /\ attempt[a].step = "default"
    /\ \/ methods' = OnlyDefault(a) /\ NoPayFault
       \/ UNCHANGED methods /\ PayFault
    /\ PayEnds(a, "succeeded")
    /\ UNCHANGED <<customer, chargeVars, webhookVars, attached, attachKeys, raced>>

\* The row is looked up in the user's list, and must be there.
BeginRemove(a) ==
    /\ attempt[a].step = "idle"
    /\ \E m \in methods :
          attempt' = [attempt EXCEPT ![a].subject = m.id, ![a].step = "detach"]
    /\ UNCHANGED <<customer, chargeVars, webhookVars, cardVars, payFaults, raced>>

\* Stripe refuses to detach what is not attached.
Detach(a) ==
    /\ attempt[a].step = "detach"
    /\ LET card == Subject(Subject(a)) IN
          /\ attached' = attached \ {card}
          /\ \/ card \in attached /\ PayGoes(a, "delete") /\ NoPayFault
             \/ card \notin attached /\ PayEnds(a, "error") /\ NoPayFault
             \/ PayEnds(a, "error") /\ PayFault
    /\ UNCHANGED <<customer, chargeVars, webhookVars, methods, attachKeys, raced>>

DeletePaymentMethod(a) ==
    /\ attempt[a].step = "delete"
    /\ \/ methods' = {m \in methods : m.id # Subject(a)} /\ PayEnds(a, "succeeded") /\ NoPayFault
       \/ UNCHANGED methods /\ PayEnds(a, "error") /\ PayFault
    /\ UNCHANGED <<customer, chargeVars, webhookVars, attached, attachKeys, raced>>

\* The process or the request's context ends.
PayAbort(a) ==
    /\ attempt[a].step \notin {"idle", "done"} /\ PayFault
    /\ PayEnds(a, "error")
    /\ UNCHANGED <<customer, chargeVars, webhookVars, cardVars, raced>>

PayNext ==
    \/ \E a \in Attempts, k \in PayKeys : BeginCharge(a, k)
    \/ \E a \in Attempts, c \in Cards : BeginAdd(a, c)
    \/ \E a \in Attempts :
          \/ Lookup(a) \/ EnsureCustomer(a) \/ CreatePaymentIntent(a) \/ RecordFailed(a)
          \/ CreatePayment(a) \/ CreatePayout(a)
          \/ Attach(a) \/ CreatePaymentMethod(a) \/ SetDefaultPaymentMethod(a)
          \/ BeginRemove(a) \/ Detach(a) \/ DeletePaymentMethod(a) \/ PayAbort(a)
    \/ \E k \in PayKeys : Settle(k)
    \/ \E e \in events : StripeWebhook(e)

PaySpec == PayInit /\ [][PayNext]_payVars

--------
\* Properties.

PayTypeOK ==
    /\ attempt \in [Attempts -> AttemptRecords]
    /\ customer \in BOOLEAN
    /\ intent \in [PayKeys -> Outcomes \cup {"none"}] /\ replay \in [PayKeys -> Outcomes \cup {"none"}]
    /\ row \in [Attempts -> [status : RowStatuses, intent : BOOLEAN]]
    /\ events \subseteq Events /\ seen \subseteq Events /\ refused \subseteq Events
    /\ methods \subseteq MethodRows /\ attached \subseteq Cards /\ attachKeys \subseteq Cards
    /\ payFaults \in 0..MaxPayFaults /\ raced \subseteq PayKeys

\* Whatever calls fail, whichever retries overlap: a payment is booked, and a caller is
\* told, as succeeded only if Stripe has the money.  (wallet-service credits coins on
\* that answer.)
SuccessIsCharged ==
    \A a \in Attempts :
        Subject(a) \in PayKeys /\ "succeeded" \in {row[a].status, attempt[a].answer}
            => intent[Subject(a)] = "succeeded"

\* While no call failed, requests of one key that follow one another book one succeeded
\* payment: the retry finds the first one's row.
OneReceiptPerCharge ==
    payFaults = 0 =>
        \A k \in PayKeys \ raced :
            Cardinality({a \in RowsOf(k) : row[a].status = "succeeded"}) <= 1

\* While no call failed, a user has at most one default card once every request that
\* adds a default card is through.
OneDefaultCard ==
    payFaults = 0 /\ (\A a \in Attempts : attempt[a].step # "default")
        => \A m, n \in methods : m.isDefault /\ n.isDefault => m = n

\* Tables and answers follow Stripe's, whichever calls fail and whichever requests overlap.
PaymentsAreTrue == SuccessIsCharged /\ OneReceiptPerCharge /\ OneDefaultCard

=====
