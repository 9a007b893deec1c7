# A TLA+ model of the TikTok-clone backend

This directory holds TLA+ specifications of the repository's core logic, TLC
configurations that model-check them on small instances, and TLAPS proofs of
what matters most, for every instance. Paths are relative to the repository
root. There is no written specification of the system (the root README.md is
empty), so every definition is translated from the Go source, the SQL and the
Lua scripts; doc comments are used only as statements of intent to compare the
code with.

Contents: 1 the system, 2 how the project is laid out, 3 the modules and the
code, 4 the runs, their bounds and the fairness assumed, 5 the proofs, 6 where
code and comments disagree, 7 what is not modelled, 8 the plan.

## 1. The system

A monorepo (`go.work`) of Go microservices that share PostgreSQL, Redis, Kafka,
Elasticsearch, ClickHouse and Stripe; the backend that is deployed,
`backend/main.go`, one process over PostgreSQL; libraries (`shared/`,
`database/`); a Flutter client (`apps/mobile_app`).

| component | state it keeps | talks to | what is hard | what makes it correct |
|---|---|---|---|---|
| backend/main.go | users, follows, likes, comments, conversations in PostgreSQL; a pool of connections | PostgreSQL | rows and counters in separate statements, two connections per list request | counters are the rows, every request gets its connection |
| wallet-service | wallets, coin_balances, transactions, payouts | payment-service, row locks | concurrent debits, lock order, retries under one key, crash between charge and credit | no overdraft, atomic transfers, money follows the books |
| payment-service | payments, webhook_events, payment methods | Stripe | lost answers, duplicate and late webhooks | booked only what Stripe has, once per key |
| messaging-service | the WebSocket hub's maps and channels; conversations, messages, receipts | PostgreSQL, Redis | goroutines that share maps and channels, full buffers; read marks against commit order | in order and once, no channel closed twice; unread is what came since |
| ecommerce-service | inventory, carts, orders, returns, products | payment-service, Elasticsearch | a checkout is many transactions; undo; cancel racing delivery | reservations cover the open orders, stock is never sold twice |
| social-graph-service | follows, blocks, Redis counters and suggestions | Kafka, Redis | the service and its own worker update the same counters; follow racing block | nobody follows across a block |
| auth-service | sessions, passwords, codes, second factor | Redis | two refreshes of one token, guesses counted after the check | a token opens one session, signed out stays out |
| video-service | upload sessions, parts, videos | Redis, MinIO, Kafka | lost updates of the session, worker and owner on one row | an upload has all its parts, deleted stays deleted |
| livestream-service | streams, RTMP sessions, viewers, chat rooms | nginx-rtmp, Redis | check-then-act on sessions, rooms that go while clients register | one publisher, channels closed once, viewers counted |
| moderation-service | results, queue, appeals, consumer position | Kafka | goroutines that end out of order; two reviewers | no event is lost, decisions stand |
| notification-service | notifications, aggregates, tokens, preferences | Kafka, push | redelivery, check-then-create of aggregates, tokens that change hands | every event told, to its user |
| interaction-, like-, comment-service | likes, replies, counters, caches | Redis, Kafka | counters beside rows | counters agree with rows |
| ads-service | campaigns, budgets, frequency counts | Redis | whole rows written back | caps hold, spending stops |
| feed-, recommendation-service | feeds, trends, similar items, experiments | Redis, Kafka | rebuild against paging, queues that drop | a page shows each video once |
| search-service, database/elasticsearch | index, bulk queue, histories | Elasticsearch, Redis | partial updates, filters, dropped batches | a search finds what the topic says |
| user-service | profiles, badges, settings, two caches | Redis, S3 | whole-row writes, cache filled after its invalidation | copies follow the row |
| database/redis | sessions, boards, feeds, presence, rate limits | Redis | commands that interleave, keys that expire | see the modules |
| api-gateway | rate limits | Redis | scripts run in another order than their clocks | no more admitted than the limit |

PROJECT.json lists every component with its sources, its state of modelling,
and the hazards of the code at their lines with the properties that cover them.

## 2. How the project is laid out

One module per component (`Wallet`, `Orders`, ...): constants with a named
assumption, variables, a type invariant, one action per statement or handler,
a next-state relation, a specification, then its properties and, last, the
mutants (operators that restate one definition as a plausible bug would).
`CoinLedger` is an abstract specification and `Wallet` is shown to implement it.

`MC*` modules give constants their values. Five of them check several components
in one run: a behaviour of such a run is a behaviour of one of its components
(`active` says which; the others never change), because these components share
no state and do not call each other in a way that the properties could notice.
Their properties say "if this component is active, its property holds".
`MCRequests` is the exception: there both components move.

`*Proofs` modules hold theorems. They extend the modules they are about and add
the inductive invariants, so that a reader of a model need not read its proof.

Common conventions: a request is a process with a local record (`call[c]`,
`sender[r]`, ...), whose `step` is the statement it executes next; every
statement, Redis command, Kafka or Stripe call is one action, because that is
where another process can come between; a Lua script, a MULTI pipeline or a
transaction under a lock is one action. A call that can fail does so while
fewer than `Max...Faults` have; a process that dies takes its local records
along. History variables (`crossed`, `met`, `contested`, ...) name the races and
the failures after which the code does not keep a promise: the properties are
exact about the rest.

## 3. The modules and the code

### Wallet, CoinLedger (services/wallet-service)

| state | code |
|---|---|
| `wallets`, `balanceRows` | rows of wallets and coin_balances, which CreateWallet inserts in two autocommit statements |
| `coins`, `diamonds`, `lifetimeCoins`, `lifetimeDiamonds` | committed columns of coin_balances |
| `ledger`, `committed` | rows of transactions with their unique idempotency_key; operations with a committed transaction |
| `lock` | row locks on coin_balances, from SELECT FOR UPDATE or UPDATE to the end of the transaction |
| `charged`, `paidOut`, `payout` | what Stripe has done under a key, and payout_requests.status |
| `acked` | requests whose success the client saw; only others are repeated |

`Receive` is the handler; `FindWallet`, `InsertWallet`, `InsertBalance` are
EnsureWallet and CreateWallet; `PayByCard` the call of payment-service;
`SelectForUpdate`, `RefuseDebit`, `Debit`, `Credit`, `LookupReceiver`, `Commit` the
transaction; `CallPayout`, `MarkPayout` the goroutine of WithdrawEarnings; `Abort` a
cancelled context, a failed statement or the death of the process;
`BreakDeadlock` PostgreSQL's choice of a victim. Under READ COMMITTED nobody sees
what an open transaction wrote, so its writes appear with `Commit`; its locks
appear when they are taken. `FreeConnection` is the bounded pool: SendGift asks
it for a second connection while its transaction holds one.

### MessagingHub (services/messaging-service/internal/websocket)

`clients`, `subscribers` are the hub's maps; `registerQ`, `unregisterQ`,
`broadcastQ` the channels Run selects from; `buffered`, `closed` a client's channel;
`heard`, `dropped` the history of what was put into it; `job[d]` the local
variables of a goroutine that delivers; `process` is "up", "stopped" or the panic
that ended it. Copying the targets under the read lock is one step, looking a
user up another, each entry of the range over the user's map a third, each send
a fourth. A goroutine blocked on a full channel is an action that is not enabled
(`Drop`, `Broadcast`, `Unregister`). The range over a map that goes on after the
lock is released may see a new entry or not, or be noticed by the runtime
(`MapRace`). A connection is opened with one page of its user's conversations
(`FirstPages`, 50 in the code), so `RoutesAgree` promises routes for that page only,
and that nobody has others.

### Orders and Shop (services/ecommerce-service)

`Orders`: `quantity`, `reserved` are columns of inventory; `status`, `shipped`,
`delivered`, `returns` those of orders and returns. `PlaceOrder`, `ReserveInventory`,
`CreateOrder`, `UndoCheckout`, `ClearCart` are the checkout; `UpdateStatus`,
`CancelOrder`, `CreateReturn` read and validate; `CommitInventory`,
`ReleaseInventory`, `UpdateOrderStatus`, `InsertReturn` are transactions of their
own. `Overlaps` and `Disturbs` name the situations in which the code takes a
reservation away from an open order; `calm` says that none has happened.

`Shop`: the cart of a buyer up to the order (stock looked at, cart found or made,
item written, checkout, emptying), and a product (the row written back whole, its
document in Elasticsearch, the count of reviews). Whatever error the look-up of a
cart ends with, a cart is made. `missedAtOnce` says that a cart was looked for in vain
while another request was about to make one, `countedAtOnce` that a review took its
count while another had taken its own and was not committed: both come before
the second cart and the lost review, which need not follow.

### The deployed backend (backend/main.go): Engagement, DirectMessages, ListPool

`Engagement`: each handler is a row (INSERT ... ON CONFLICT, DELETE), then a
counter, then a notification; the rows' effects are kept beside the counters they
should have. `DirectMessages`: createOrGetConversation looks, inserts the
conversation and then its two members; a look-up that fails hands out
conversation 0, which nobody is in. `ListPool`: list endpoints hold the
connection of their open rows while they ask for a second one for each item.

### SocialGraph (services/social-graph-service)

Follow and block insert a row after reading others; counters and suggestion
lists in Redis follow in goroutines, and again by the Kafka worker. `crossed`
names the pairs that a follow and a block worked on at once, `unsure` the viewers
whose list was computed, or not dropped, while their rows changed.

### Payments (services/payment-service)

An attempt charges, pays out, adds or removes a card, or delivers a webhook.
`row` is the
row an attempt wrote, `intent` and `replay` what Stripe keeps and answers again per
idempotency key, `events` what it delivers until it is accepted. A processing
intent settles later. Nothing sets stripe_charge_id, so Stripe refuses every
refund and RefundPayment has no action.

### AuthSessions (services/auth-service)

Every call of one user's account: login with and without second factor, refresh,
logout, password change and reset, codes, MFA set-up and removal. Sessions,
passwords, codes and secrets are named by the call that made them. `contested`
are sessions and codes two calls worked on at once, `overtaken` the set-ups and
verifications under way when a second factor was confirmed, `signedOut` what was
over when every session was revoked. DisableMFA stores an empty secret
(`NoSecret`), not NULL, so VerifyMFA goes on after it and can confirm the empty one.

### Uploads, Videos (services/video-service)

`Uploads`: a part goes to the bucket, to video_chunks, and into the session, which
is read and written back whole; completing assembles the listed parts, stores
the file, changes the video, forgets the session and leaves a goroutine that
removes the parts. `Videos`: owner's requests, the transcoding worker and the
scheduler on one row and its cached copies; `meddled` says that the
row changed between a request's read and its write, `behind` why a copy may be old.

### LiveStreams, LiveRoom (services/livestream-service)

`LiveStreams`: the status of a stream in PostgreSQL and Redis with its key index
and RTMP sessions; and its viewers' rows and counters, while the stream ends and
comes on air again any number of times (`GoOffAir`, `DropCount`, `GoOnAir`); `forgotten`
says that an end deleted a count that was not zero. `LiveRoom`: the hub's
rooms, lock by lock; the two broadcasts of a join or leave are one here.

### Conversations (services/messaging-service)

Participants, sending, receipts and read marks. NOW() is the time a statement, or
its transaction, starts (`TakeStamp`); what it writes is seen later, in whatever
order the commits come, so an older time may overwrite a newer one. `between` are
users messages came for while they were marking or joining, `overlaid` messages
being written when a user took a read mark or joined; `crossedMarks` and
`crossedBumps` say who had two read marks, and which conversation two moves up the
list, under way at once; `soughtAtOnce`, that a conversation was looked for while a
request that had found none was about to make one.

### Content: RateLimits, Moderation, Reviews, Notifications, Interactions, Ads

`RateLimits`: the gateway's script over a sorted set and the library's scripts
(window, bucket, blocks). A script runs up to `MaxDelay` after the caller read the
clock; the library's window is bounded in members of its set, not in requests
(`Members`), and a call of Redis that fails lets its request through. `Moderation`: one partition; up to `ModSlots` goroutines that end in any
order; marks, commits, rebalances. `Reviews`: decisions, appeals and their cached
status; an appeal whose look-up failed goes on as if there were none.
`Notifications`: one goroutine per partition, aggregation by group, deliveries that
go on after the commit; a phone changes hands (`SignIn`, `SignOut`), its app then
calls RegisterDevice or UnregisterDevice, and the call may come late or fail; edits
of preferences are read, written or failed at either statement. `Interactions`: the same likes as three
services keep them (`keeper`). `Ads`: auctions against a frequency cap and a budget
row that is read and written back. Auctions run `together` from the first ad they
look at until the winner is marked as seen, the update of the budget included;
`met` says that one request read campaign or budget while another had them still
to write.

### What is kept beside the tables

`SessionCache`, `Boards`, `FeedCache`, `Presence` are the Redis library
(database/redis), command by command; `FeedService`, `Recommender`, `Profiles` the
services of these names. In `SessionCache` every command may fail as its caller
takes it: a session that cannot be read when all are ended is passed over and lives
on off the list (`passedOver`). In `Boards` the metadata of a stream may be stored
again at any time, over the gifts. In `FeedService` a score goes into two sets by two
commands, either of which may fail; `VideoAges` takes a video out of the window of
24 hours, and `FetchBatch` cuts a full pass to the newest, which does to a video what
ageing does. `SearchIndex` the indexer, the queries' filters and
pages (database/elasticsearch) and the history and suggestions of search-service.

## 4. The runs

A passing run checks every listed property on all reachable states.

| run | what is asked | result |
|---|---|---|
| wallet_safety | `AccountsAreSafe` (no overdraft, locks are held by open transactions, checks stay true to the commit), `BooksAgree` (ledger, card, payouts and balances tell one story), every commit one step of `CoinLedger` | holds |
| wallet_retry | "IdempotencyKey prevents duplicate processing." | violated |
| hub_safety | the two routing tables agree; nobody hears a broadcast out of order or twice; every registered tab is offered every broadcast | holds |
| hub_live | lost connections end and broadcasts are taken | holds |
| hub_double_close | Unregister is "Safe to call from any goroutine." | violated |
| orders_safety | no stock reserved twice, no stage skipped, orders backed and transitions legal when calm | holds |
| orders_oversold | reservations are there "to prevent overselling" | violated |
| backend_safety | `Engagement`, `DirectMessages`, `Conversations`, `LiveStreams`, `LiveRoom` | holds |
| requests_live | gifts in both directions lock two rows in opposite orders, and list requests want two connections each: every request ends | holds |
| services_safety | `SocialGraph`, `Payments`, `AuthSessions`, `Uploads`, `Videos` | holds |
| content_safety | `RateLimits`, `Moderation`, `Reviews`, `Notifications`, `Interactions`, `Ads` | holds |
| stores_safety | `SessionCache`, `Boards`, `Shop`, `FeedCache`, `Presence`, `FeedService`, `Profiles`, `Recommender`, `SearchIndex` | holds |

A violated run checks one sentence of the repository against the code; the
findings in PROJECT.json quote it with its line.

### Bounds

Bounds are constants, assigned in the .cfg files.

- Wallet: two users, payer and payee in both directions; six keys, one per
  operation and a gift back; three requests, enough for two that conflict and a
  retry of either. Amounts of 1 to 3 against 3 coins and 1 diamond make every
  pair of debits of one account contend. One user has no wallet at first, so
  CreateWallet races itself. `PoolSize` 3 or 4: with every request inside a gift
  the pool is full in the first, never in the second.
- Hub: capacities 64, 512 and 256 become 1 to 4, so the queues fill within a few
  events; what matters about a capacity is that it is reached. The action
  constraint `InScenario` keeps a behaviour to one of two scenarios: two producers
  of a broadcast, or two tabs of a user who joins.
- Orders: two sellers with one piece each of one product, two buyers who want
  the same one, three requests of which two run at a time (`TwoAtATime`), one
  failure. A second failure adds no kind of state: each is possible at every call.
- The composite runs: mostly three requests (two overlapping and a third before,
  between or after them; a race of three needs no other step than a race of two
  does), two subjects (videos, users, cards, devices), one failure each
  (two for the moderation worker, so that its detectors can fail apart from its
  repository), capacities, batches and page sizes of 1 or 2 so that they are
  reached (the hub reads a page of one of two conversations). Clocks go to 4 with windows of 2: a window can pass, and be passed again.
- Accounts and uploads have a fourth request, because what two calls contend for
  is made by calls before them: a login, two uses of its token, a sign-out; two
  parts, a completion and a late part. It stands outside the symmetry.

`CHECK_DEADLOCK FALSE` is set everywhere because the systems may stop: clients need
not send anything, requests are used up, a panicked process does nothing more. Symmetry is used for requests and for
subjects that no value depends on, and in no run with a liveness property.

### Fairness

`Wallet!FairSpec`: weak fairness of `Proceed(r)`, the steps the server takes by
itself: goroutines are scheduled, the database answers, its deadlock detector
breaks circles of waits. None for `Receive` and `Abort`: nobody has to send or
hang up. `RequestsFinish` needs a pool larger than the number of open gifts; with a
smaller one, gifts that each hold a connection wait for each other's second one.

`ListPool!PoolFairness`: weak fairness of what a request that has come does next.
Every request runs a bounded number of statements, so nobody can take
connections from a waiting one for ever. `RequestsAreAnswered` exempts the case in which
as many lists as there are connections were open at once: then all of them wait
for a second one for ever, for no handler has a time limit.

`MessagingHub!FairSpec`: weak fairness of Run's select, of the read pump's
unregistration, of the write pump's goodbye on a closed channel and of each
deliverer. Not of `Write`: how fast a peer reads is not the program's to say. In
`hub_live` the unregister channel has room for every request to it; with a
smaller one Run can wait for room in the channel only Run empties.

## 5. The proofs

The theorems hold for every value of the constants that satisfies the named
assumption of its module (`IntentAssumption`, `CapAssumption`, `GraphAssumption`,
`PaymentAssumption`, ...): any number of users, requests, cards, parts and events,
any capacities, limits and amounts. The assumptions say that bounds are numbers,
that names of different kinds differ (`PaymentAssumption`: keys are not cards or
attempts; `AuthAssumption`: no call is called Nil; `StreamAssumption`: no session is
not a caller; `EngagementAssumption`: nobody and no video is called "none";
`AdAssumption`: no ad is, and one of the budgets is the least; `RateAssumption`: the hash of
the bucket, kept for twice the time it takes to fill, outlives that by the delay of a
script: 12 seconds, 6 and less than 6 for the one bucket there is) and, where the model or the
proof counts, that users and requests are finitely many.

| theorem | statement | of the runs' properties |
|---|---|---|
| `WalletProofs!TypeCorrect`, `AccountsStaySafe` | `[]TypeOK`, `[]AccountsAreSafe` | wallet_safety |
| `WalletProofs!BooksAlwaysAgree` | `[]BooksAgree` | wallet_safety |
| `WalletProofs!AppendOnly` | no step changes a ledger entry | |
| `WalletProofs!Refinement` | `Spec => ImplementsCoinLedger` | wallet_safety |
| `MessagingHubProofs!TypeCorrect`, `RoutingHolds` | `[]TypeOK`, `[]RoutesAgree` | hub_safety |
| `MessagingHubProofs!HeardInOrderAlways`, `SubscribersStayServed` | `[]HeardInOrderOnce`, `[]SubscribersAreServed` | hub_safety |
| `OrdersProofs!TypeCorrect`, `StockHolds`, `StagesHold` | `[]TypeOK`, `[]ReservationsAreStocked`, `[]StagesAreNotSkipped` | orders_safety |
| `OrdersProofs!OrdersStayBacked`, `TransitionsStayLegal` | `[]OrdersAreBackedWhenCalm`; the action property `TransitionsAreLegalWhenCalm` | orders_safety |
| `ContentProofs!RateTypesHold`, `GatewayHolds`, `LimitsAlwaysHold` | types; `[]GatewayIsBounded`; `[]LimitsHold` | content_safety |
| `ContentProofs!ContentTypesHold` | `MCContent!TypesOK` | content_safety |
| `ServicesProofs!ServicesTypesHold` | `MCServices!TypesOK` | services_safety |
| `ServicesProofs!GraphTypesHold`, `GraphIsRespected` | types; `[]TheGraphIsRespected` | services_safety |
| `ServicesProofs!PayTypesHold`, `PaymentsStayTrue` | types; `[]PaymentsAreTrue` | services_safety |
| `ServicesProofs!AccessStaysEarned`, `CredentialsAlwaysStay` | `[]AccessIsEarned`; the action property `CredentialsStay` | services_safety |
| `ServicesProofs!UploadTypesHold`, `UploadsStayWhole` | types; `[]UploadsAreWhole` | services_safety |
| `ServicesProofs!VideoTypesHold`, `VideosAlwaysFollow` | types; `[]VideosFollowTheirOwner` | services_safety |
| `BackendProofs!BackendTypesHold` | `MCBackend!TypesOK` | backend_safety |
| `BackendProofs!RoomTypesHold`, `RoomsAlwaysServe` | types; `[]RoomsServeTheirViewers` | backend_safety |
| `BackendProofs!StreamTypesHold`, `StreamsStayServed` | types; `[]StreamsAreServed` | backend_safety |
| `BackendProofs!ConversationsStayTrue` | `[]ConversationsAreTrue` | backend_safety |
| `BackendProofs!DeedsStayCounted` | `[]DeedsAreCounted` | backend_safety |
| `ContentProofs!ModTypesHold`, `PositionStaysEarned` | types; `[]PositionIsEarned` | content_safety |
| `ContentProofs!ReviewTypesHold`, `DecisionsStandAlways` | types; `[]DecisionsStand` | content_safety |
| `ContentProofs!ActTypesHold`, `LikesAlwaysAddUp` | types; `[]LikesAddUp` | content_safety |
| `ContentProofs!NoteTypesHold`, `NotesAlwaysKept` | types; `[]NotificationsAreKept` | content_safety |
| `ContentProofs!AdTypesHold`, `AdsStayAccounted` | types; `[]AdsAreAccounted` | content_safety |
| `StoresProofs!ShopAlwaysTrue` | `[]ShopIsTrue` | stores_safety |
| `CachesProofs!PresenceAlwaysTrue`, `ProfilesAlwaysKept`, `BoardsAlwaysTrue` | types, and the parts `PresenceIsTrue`, `ProfilesAreKept`, `BoardsAreTrue` of `CachesAreTrue` | stores_safety |

The arguments, and why each needs more than the property it proves:

- **Wallet.** Solvency is not inductive: that a commit leaves no negative balance
  depends on a check made several statements earlier. The invariant ties the
  stage of a request to the lock it holds and to the balance it has seen
  (`DebitsAreFunded`), says that locks belong to open transactions and that a
  request that has credited a row holds its lock. At a commit every other
  transaction past its check on the same row would hold the same lock, so there is
  none. The refinement uses it for the guards of `CoinLedger` and maps a commit to
  `Purchase`, `Spend`, `SpendUnearned` or `CashOut`, `InsertBalance` to `Open`, every
  other step to a stutter. The books need the same argument for what lies outside
  the transaction: `BooksFit` ties the stage of a request to the charge, credit or
  commit behind it, and `PayoutsAreDebited` every payout to a committed withdrawal.
- **Hub.** The types are proved together with `JobsAreComplete` (a goroutine about
  to send knows to whom). Routing needs that connections in the register queue
  and in the table have been opened, so that their conversations no longer
  change: they are read once, before the connection is queued. Delivery (`DInv`):
  the events in the channel are in order and younger than the one Run has
  (`QueueInOrder`), what a connection has heard is older than what is still to come
  to it (`HeardIsPast`), Run serves one user at a time from the user's own connections
  (`RunFits`), and whoever takes part has been told or is still ahead of Run
  (`NobodyIsSkipped`).
- **Orders.** `StockHolds` rests on the check and the update of ReserveInventory
  being one step under the row lock, and on the clamps; `StagesHold` on `Backed`: a
  request about to write "delivered" has an order that was shipped, one about to
  insert a return an order that was delivered, for shipped_at and delivered_at are
  never cleared. `OrdersStayBacked` compares a sum over the orders with a counter;
  the model numbers the units an order owes (`Due`) and counts them, so that a step
  adds or removes units of a set and the comparison is one of cardinalities
  (`UnitsAreReserved`). `CalmInv` says for which order every reserved unit is held: an
  open order that a delivery has not taken it from, a checkout that keeps it, or a
  cancellation that has still to release it; that an order has one request at a time
  while calm (`OrdersAreAlone`); and that the request that creates an order is the
  only one that could know it before (`OrdersAreCreated`). The action property follows
  from the same invariant: the status a request writes over is the one it read.
- **Rate limits.** The admitted requests of any window are among those the sorted
  set still has: `Remembers` says nothing younger than a window has been trimmed,
  which holds because the times of scripts do not fall and a delay is shorter
  than a window; then the size the script compares bounds the window. The bucket
  (`BucketInv`): since every moment up to its last use, what was taken and what is left
  came from a full bucket and what flowed in (`BucketAccounts`); one more script
  keeps that whether it finds the hash or a key that has expired, for a key expires
  only after the bucket would have filled (`FoundIsTrue`). Taken tokens are counted as
  units, so that a request adds the cardinality of its own. The library's window needs,
  besides, that its key does not expire while a member is in it (`LibraryRemembers`).
- **Social graph.** `FollowIsChecked`: a follow about to be inserted has seen no
  block, or is in `crossed`; `ListIsSound`: a list being computed excludes whom it
  should, or its viewer is in `unsure`.
- **Payments.** `PayInv`. `StripeRemembers` ties what an attempt was answered to what
  Stripe replays; `SuccessIsCharged`: an answer or row of success has the intent
  behind it. Booking once needs `RowsFollowStripe` (while no call has failed, rows
  and answers are what Stripe replays for their key), `OneAtATime` (of attempts on a
  key that is not `raced` one is under way), `NoneIsBooked` and `OneIsBooked` (how
  many rows succeeded before and after); the default card `CardsFit`.
- **Accounts.** `AccessInv` has what each call holds at each step (`CallsFit`), that
  every token was issued by a call and is spent once (`TokensFit`, `TokensSpent`,
  `OneCallPerToken`, `OneWinner`), that what was signed out is revoked or not
  yet made (`SignedOutStays`), and that the guesses a code has survived are counted
  in its trials (`TrialsCounted`). The action property needs `SetupSeen`: while the
  second factor is on, whoever is about to write a secret or to confirm one was under
  way when it was confirmed, for each begins by looking that it is off.
- **Uploads.** `UploadInv`: nobody but the initiator is in the middle of opening
  (`OpeningIsAlone`); a clean-up has begun only after the session was forgotten or
  the video was done with (`CleanUpsComeLast`); a part that a request is about to
  list has its object and row (`PartsAreStored`, `RowsAreKept`); a request about to
  write "processing" has stored a whole file (`FilesAreThere`).
- **Videos.** `VideoInv`: as long as nobody wrote over what another had read, a row that
  is public, scheduled or picked by the scheduler has the owner's wish, and a draft
  is private before its status says so (`OwnerIsFollowed`).
- **Live room.** `RoomInv`: a slow client is closed first and taken out of the room
  later, so the invariant says who is between the two (`ClosedAreLeaving`) and that,
  unless broadcasts crowded, nobody else is sending in that room (`DropsAreAlone`);
  whoever is about to enter, or has entered, finds the room to be the hub's
  (`EntrantsAreExpected`, `MembersAreServed`).
- **Streams.** `StreamInv`: whoever is about to cache a row that has changed since it
  was read has been noticed (`ReadsAreFresh`, `CacheIsTrue`), one publisher is past
  the check and its session is the listed one unless another raced in
  (`PublisherFits`), and before the stream exists nobody has a use for it
  (`BeforeItExists`).
- **Viewers.** `ViewInv`: while no count was forgotten, no leave overtook its join and no
  store failed, on air or not, the counter is the number of connections added and not yet taken off
  (`OnCount`), and every user listed as watching has a connection that is not
  leaving yet (`Vouches`). The users are the image of those connections, so they are no more
  than the counter says.
- **Engagement.** `EngInv`. For every counter the column, plus the requests about to
  raise it, minus those about to lower it, minus the rows it counts is zero unless
  the property excuses it, and not negative for follows (`Tallies`). A lowering could
  end at the floor and put the balance out; it does not, because whoever is about to
  raise an undisturbed counter stands for a row of its own there (`RaisersStand`, an
  injection of requests into rows), so the column is positive. That needs two
  requests of one user on one row to have been remembered (`DeedsAreAlone`) and whoever
  is about to count or delete a row to find it unless they were (`RowsAreHeld`). Every
  step of a request is one lemma's case: what it keeps of the others (`Onward`), whom it
  meets (`Meets`) and which counter it moves (`MovesBy`).
- **Chats of the backend.** `DMInv`: a conversation has no members or two
  (`TalksFit`), what a request has in hand is a conversation its user is in
  (`TapsFit`), and who seeks one for a pair that did not race is alone (`PairsFit`).
- **Conversations.** `ConvInv`. A read mark is a time and the messages are known by what
  was there: `MarkFits` says that, of the messages that were not being written at the
  mark, the older are the known ones and what is about to be written is younger;
  `MarkingFits`, what a mark that has its time and is not yet written will make known,
  and that it is its user's only one unless they crossed. `ReceiptsFit` says the same of
  receipts and of those about to be written, `RoomsFit` that nobody owns a direct
  conversation and two users have one, or one about to be made (`ConvsAreOne`),
  `ListFits` and `BumpingFits` that a post its room is not moved up for has its request
  before the bump, or a move under way that took its time later, and `PagesFit` that
  whoever reads page by page has had all they began with down to the cursor: a
  page that is not the last is not empty and what is as new as its oldest message
  is on it (`PageReaches`). One lemma says what a read mark that moves does
  (`MarkMoves`), for the reader and for a member who is added.
- **Moderation.** `ModInv`: events are taken in order, what is announced has been
  stored, and both the mark and the commit stand next to an event that has a
  result or cannot be read (`Earned`). `PositionIsEarned` once said more (that nothing
  below the position is unfinished within a session); the proof attempt showed
  that false for a malformed event whose mark passes one in flight, and TLC
  confirmed it once its instance had such an event.
- **Reviews.** The strengthening says what a request between its read and its
  write may assume when it met no other of its kind: `ReviewsAreAlone`,
  `DecisionsAreAlone`, `ChecksAreAlone`, and for the cache `LooksAreFresh`. An appeal
  whose look-up failed is counted against the failure (`FewOfEach`).
- **Likes.** Each counter differs from the rows by what is on its way; on-the-way
  sums are differences of cardinalities, so lemmas say what a step of one request
  does to them. `DeedsFit` and `ReadersAreFresh` say what requests in flight carry.

- **Notifications.** `NoteInv`: of the event a worker has in hand every user before
  the current one is noted, failed or muted, and all of them at the commit
  (`WorkersFit`); while nothing failed or died a group holds only events already dealt
  with (`GroupsArePast`), so a bump counts a new one (`CountsFit`), and a user whose
  events never met has one goroutine about to change the group and finds none when
  it creates one (`GroupsAreAlone`); a push under way knows which phones were not
  their users', and the row of a phone whose app's calls came through is its user's
  (`PhonesFit`); whose edits did not meet has one about to be written, which holds the
  row but for its own field (`EditsFit`). That a topic has a next event and a group a latest note are minima of
  sets of numbers (`HasLeast`, `HasLargest`), which well-founded minimality gives.
- **Ads.** `AdInv`: showings and auctions that may still show stay within the cap and,
  with the counts about to be taken back, within the user's count (`Exposed`); in
  auctions that ran alone what was shown is seen, or its auction is the one under
  way (`SeenOnce`); a request that met nobody holds a row that has its charge, and
  whoever exhausts the budget is about to pause (`HeldAlone`, `Stops`). Sums are numbers of
  units, so `OwedMoves` says what a turn of one request does to them. The proof
  attempt showed the model wrong for caps above two: an auction counted as over once
  it had raised the spend, though it marks its winner only after, so two could run
  together unnoticed and show one ad twice. The model takes the whole request now,
  and the instance has one ad under a cap of two, where both halves can fail.
- **Shop.** `CartInv`: what was put in is in a cart, in an order, or, ordered, in a cart
  that is about to be cleared (`UnitsAddUp`), and a request knows what it carries
  (`CartCallsFit`): only who is about to clear, or is through, has an order, so none is
  counted with its units held as well. A statement moves units of one cart, one
  order and one request; the sums are sizes of sets of units (`UnitsSplit`,
  `UnitsMove`), so the others' share cancels. `CatalogueInv`: the numbers of writes are
  different and without gaps (`NumbersFit`), so that a request has at most one and there
  is a latest; unless one goroutine overran another the document is of a row written,
  every later one is still to be indexed, and the latest has the status of the
  row (`DocumentFits`); a review holds the row's lock from its count to its
  commit (`ReviewsFit`). For this the sums, once folds, became sizes of sets.

- **Presence.** `PresInv`: the score is that of the last heartbeat, or too old, and the
  record outlives it (`ScoresFit`); while nothing failed a member is there since they
  entered and the set ends no sooner than any of them, but for those whose request
  has yet to move its end (`MembersFit`).
- **Profiles.** `ProfInv`: what a request has read and is about to write was confirmed,
  and only who verifies grants a badge (`ProfFits`).
- **Boards.** `BoardInv`. Tags: what a request has read under WATCH is still so unless its
  key was changed, and a tag that is neither ranked nor cut off has a removal between
  its two commands (`TagsFit`). Videos: while one request at a time is at an entry
  (`Apart`) each step between ranking, metadata and cut says how far the two are apart
  (`VideoAt`), and but for a bulk about to cut the board is no longer than allowed
  (`Uncut`). Streams: what was read is still so (`StreamRead`), the most viewers are no
  fewer than those of now or about to be raised (`ViewersFit`). Locks: who holds one
  that has not expired has it (`LocksFit`). `CutKeeps` says what a cut leaves.

The bounds in the types are counting facts: of accounts, that each code and each
counted guess has a call of its own that made it and has ended (`AuthCounts`, for
finitely many calls).

tlapm reads `UNION A \ B` as `UNION (A \ B)`, TLC as `(UNION A) \ B`; the models
write the parentheses.

Only model-checked:

- liveness (`ConnectionsEnd`, `BroadcastsAreTaken`, `RequestsFinish`,
  `RequestsAreAnswered`): fairness and ENABLED are out of the prover's reach;
- what is served (`WhatIsServed`) and `FeedsAreKept`: they speak of folds over
  sequences, of replays and of walks through pages of any length, each an
  induction over data;
- `SessionsAreKept` (the rest of `CachesAreTrue`), not attempted yet, and
  `MCStores!TypesOK`: two of its parts bound folds.

## 6. Where code and comments disagree

Three have a run that exhibits them (`wallet_retry`, `hub_double_close`,
`orders_oversold`; section 4). The others were met while modelling. Where a
component is modelled its model takes the step the code takes, with the history
variables naming what follows from it; what is said here of listings, validation and
wiring lies outside the models.

- **Wallet**: a request that finds the wallet before its balance row updates no row
  and commits, so bought coins are lost; a tip and a subscription write no ledger
  entry for the creator; two subscriptions to one creator pass the check at once;
  the payout goroutine dies with the process.
- **Hub**: Run waits for room in the unregister channel only it empties; announcing
  goroutines may send on a channel closed meanwhile; a client unregistered before
  it is registered stays in the table; a participant added to a conversation
  hears nothing until the next connection, and of more than 50 conversations some are
  never routed; a departure is announced to nobody.
- **Orders, shop**: UpdateStatus overwrites a cancellation; a refused item leaves
  the reservations made before it; two checkouts of one cart order twice and drop
  what is added meanwhile; `binding:"required,min=0"` refuses the 0 that is
  documented as removal; "CreateReview validates that the buyer purchased the
  item" and nothing does; any error of the look-up makes another cart, although the
  comment says "cart not found"; review counts "atomically" updated lose one of two.
- **backend/main.go**: PATCH /users/me and PUT /videos overwrite omitted fields;
  allow_comments is not enforced; users.likes never changes; list endpoints can
  use up the pool and wait for ever.
- **Social graph**: INCR on an expired counter restarts from 1 and one follow counts
  twice (service and worker); UnblockUser has no caller; offsets are not committed.
- **Payments**: StripeWebhook reads the body and HandleWebhook reads it again,
  empty, so every genuine event is answered 401, although main.go:92 says it
  "works correctly"; Stripe refuses every refund; ensureStripeCustomer can
  dereference nil.
- **auth-service**: no JWT middleware is wired, senders of mail and SMS are nil;
  pending-MFA and blacklist keys are written and never read; after DisableMFA the
  secret is empty, not NULL, so VerifyMFA's check for a missing one passes and the
  second factor can be confirmed with it.
- **Videos**: nothing sends the event that CompleteUpload's comment and config.go:82
  speak of; concurrent parts lose indices; a late part resurrects a session; the
  scheduler publishes without looking for a playlist; a job in flight is lost when
  the worker restarts.
- **Livestream**: UpdateHLSPlaylistURL sets an ended stream live again (`GoLive` on the
  stream's row, `GoOnAir` for its viewers), with its viewers listed and not counted;
  ValidateRTMPKey's fast path ignores the status; slow clients are closed under a
  read lock; two tabs share a row; the shown count can be -1 despite its floor.
- **Conversations**: a message committed after a read mark but stamped before it is
  never unread; one between MarkAsRead's statements has a receipt and counts
  unread; of two marks at once the older time can be written last; an owner can leave a group to nobody; max_members is not checked.
- **Moderation, reviews**: failed detectors count as 0, so all of them failing means
  approved, although the comment says "all individual scores and combined are
  safely low"; the error of AppealDecision's look-up is ignored and a second appeal
  made; at-least-once delivery is broken by a later event's mark.
- **Notifications**: quiet hours and PushEnabled are ignored by the push at the
  aggregation threshold; shutdown waits for ever (two Adds, one Done); an event is
  committed even if it failed.
- **Likes**: like-service's counter restarts when Redis loses it; comment likes are
  counted though ON CONFLICT did nothing; interaction-service leaves reply_count.
- **Ads**: "Never charge more than the winner bid." and the charge is an eCPM per
  impression; nothing resets the day's spend; a running campaign can be edited
  although only paused ones should; frequency counts every eligible ad.
- **Rate limits**: the library's member is not unique within a millisecond although
  the comment says so; CheckN adds one member for n slots; a request the second
  limit refuses has used the first; the gateway lets everything through when Redis
  fails.
- **Redis library**: GetSession's write-back resurrects a revoked session; a revoke
  racing a refresh leaves the new token; RevokeAllSessions, "Used on ... account
  compromise", passes over a session it cannot read and deletes the list it was on; a gifter cut off a board loses the total;
  feed metadata is written under the author and read under the reader; SetOffline
  of one device takes the user offline; RecordVideoEngagement's score and metadata
  may be of different requests.
- **Feed, recommendations**: the cursor skips up to 20 videos and ties; an empty
  build leaves a mark without a feed; "the full pass will pick up all accumulated
  counts from Postgres" (trending_updater.go:114), and it takes the videos of the last
  24 hours only (feed_repository.go:771) after forgetting the counts of all; skips overwrite likes; "atomically replace" is
  a plain pipeline; AssignVariant follows Go's map order though it promises
  stability; conversions are counted under "like".
- **Search**: Stop says "flushing all pending events" and loses the queue; the
  filters drop the very event that says deleted or private; an update after a
  delete makes a new document; trends "over the past 24 hours" do not expire; a
  UnifiedSearch "using _msearch" is sequential.
- **Profiles**: every change writes back all columns and can undo another's; the
  avatar goroutine may delete an object the row names; a copy can be filled from an
  old row after its invalidation; a badge and its row are two statements.

## 7. What is not modelled

PROJECT.json says it for each component. In short:

- analytics-service and database/clickhouse: queries over an append-only store; the
  consumer that would fill it is not started by main.go, and nobody imports the
  client. reporting-service, admin-service: reads and edits of one row.
- The api-gateway's proxy and circuit breaker: the proxy asks the breaker for its
  state and nobody ever records a result in it, so no circuit opens.
- shared/, database/postgres: helpers the services mostly have copies of, and the
  schema, from which keys and defaults are taken where it has the tables.
- Of the modelled components: listings and statistics, formatting, validation of
  fields, prices and amounts beyond what contends, contents of messages and their
  encryption, FFmpeg, mail and SMS, and operations no route reaches
  (CancelSubscription, ManageInventory, BroadcastToUser, UnblockUser, gifts, polls
  and battles of a stream).

## 8. The plan

Done: the modules of section 3 in the order wallet, hub, orders, then the services
people touch, then content, then caches and search; the proofs of section 5 in the
order money, access, data, delivery, shop. Next: the caches (MCStores); an
abstract fan-out service for the hub and the refinement to it; the analytics
consumer's buffers.
