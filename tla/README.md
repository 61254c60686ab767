# A TLA+ verification of onlinestore_2020

onlinestore_2020 is a shop of Spring Boot services that call each other over
Dubbo, share a MySQL database and one Redis, and announce payments, stock and
deliveries to each other over ActiveMQ queues. This directory holds TLA+ models
of the parts whose correctness depends on how threads, calls and messages meet,
the TLC configurations that check them, and TLAPS proofs about them.
`PROJECT.json` names, for every definition, the lines of the source it models.

Paths below are relative to `src/`.

## 1. Inventory

### Components

**Warehouse service** (`gware_manage`: `WareConsumer`, `GwareServiceImpl`,
`GwareController`, `WareSkuMapper.xml`). State: the tables `ware_sku` (stock and
locked stock of a sku in a warehouse) and `ware_order_task` with its lines.
Operations: the listener `receiveOrder` (save a task, acknowledge, choose a
warehouse, lock stock), `deliveryStock` for a clerk, `addWareSku`, and lookups.
Hard: several listener threads, redelivery before the acknowledgement and after one that
got lost, a limit to redeliveries, messages lost after the acknowledgement, row
locks taken in any order, a queue session that commits
before the database does. Correct when: no row promises more than it holds; an
order shown as DEDUCTED has its goods locked; a message locks goods at most
once, and once more for each acknowledgement of it that is lost; a paid order is not forgotten
before its message has failed more often than it is redelivered; a delivery takes the goods off the
shelf.

**Checkout** (`gmall_order_web` `OrderController`, `gmall_order_service`
`OrderServiceImpl`). State: a token in Redis under the user's key, the order
tables. Operations: `/trades` (`genToken`), `/submitOrder` (`verifyToken`, compare
prices, ask the warehouse for each line in parallel, `saveOrder`). Hard: three
Redis round trips in `verifyToken`, Dubbo's timeout and retries, parallel
answers, a key every user shares. Correct when: a page makes at most one order;
an order's page cannot be submitted again; a page that is still good is not
refused; no order without goods; every submission is answered unless the warehouse hangs.

**Sku cache** (`gmall_manager_service` `ManagerServiceImpl.getSkuInfo`,
`saveSkuInfo`; `gmall_util_service` `RedisUtil`). State: four tables, a cached copy
and a lock in Redis, a bounded pool of connections. Hard: many getters, expiry of
cache and lock at any time, recursion that keeps connections, statements that
are not in a transaction. Correct when: one getter at a time goes to the
database; a newer sku is not overwritten by an older one; readers come to see
what was saved; every call ends; a getter that waited gets the sku.

**Order flow** (`OrderConsumer`, `OrderServiceImpl.updateStatus`,
`ProcessStatus`; `AliPayController.sendPayment` at one end and the warehouse at the
other). State: order and process status. Operations: `consumerPayment`,
`sendOrderToWare`, `consumeWareDeduct`, `consumeDeliver`. Hard: messages
acknowledged automatically, late and repeated ones, statuses and queue names
that differ between sender and receiver. Correct when: every announcement of a payment
sends one message to the warehouse; an order's status never goes back; both sides agree in the end.

**Payment** (`gmall_payment`). State: `payment_info` rows, the delayed check queue.
Operations: `submit`, `notify`, `sendPayment`, the consumer of the check queue, which is
empty. Hard: the callback comes late, twice or never, and reads a row
that another call wrote. Correct when: a trade that is paid, and that Alipay has
told the shop of, is on record as paid.

**Cart** (`gmall_cart_service`, `gmall_cart_web`). State: `cart_info` rows, a Redis
hash per user, a hash of checked lines, the pool of connections, a visitor's id in
a cookie. Operations: `addCard`, `cartList`, `mergeCartList`, `checkCart`,
`loadCartCache`. Hard: read then write without a transaction, a cache updated
beside the table, a key that is a hash or a number, connections that leak. Correct
when: no addition is lost; what a member sees was once in his cart; a merge
loses no line; every call ends.

**Attributes and spus** (`ManagerServiceImpl.saveAttrInfo`, `saveSpuInfo`,
`getSkuValueIdsMap`). Several tables rewritten without a transaction. Correct
when: what is read back is what was saved, and a map from chosen values to a sku
is unambiguous.

**Search** (`gmall_list_service`, `gmall_list_web`). State: the Elasticsearch index
and hot scores in Redis. Hard: a connection that is never closed, page
arithmetic. **Users and session** (`gmall_user_manage_service`,
`gmall_passport_web`, `gmall_util_web`): a cached user and a signed cookie.
**Item page, management web tier, beans, interfaces, FastDFS client**: pass calls
on, hold data, or are third-party code.

### How they interact

```
browser -> order web --Dubbo--> order service --MySQL, Redis (token)
              | HTTP hasStock        |  ^  ^
              v                      |  |  | SKU_DEDUCT_QUEUE, SKU_DELIVER_QUEUE
          warehouse <-ORDER_RESULT_QUEUE  | |
              |-------------------------------
payment --PAYMENT_TO_ORDER--> order service
item page, cart, order web --Dubbo--> catalogue service --MySQL, Redis (cache, lock)
```

### Hazards

`PROJECT.json` lists each hazard at its line with the properties that would
catch it, or the reason none does yet.

### Wiring the models look past

Some parts of the shop cannot talk to each other as committed. The models say
what the handlers do when they run; these facts are recorded here:

- `WareConsumer` is not a Spring component, and the warehouse's broker address
  is commented out. The listener is modelled as written.
- Three listeners (both for the warehouse's answers in `OrderConsumer`, and the
  one for `PAYMENT_RESULT_CHECK_QUEUE`) name a container factory that does not
  exist (`jsmQueueListener` for `jmsQueueListener`). They are modelled with the
  factory that is meant.
- Queue names (`SKU_DEDECT_QUEUE` for `SKU_DEDUCT_QUEUE`) and statuses (`DEDECT`,
  `DELIEVERED`) differ between the order and the warehouse service. OrderFlow takes
  the warehouse's spelling as constants: run `order_flow_names` has the committed
  ones, and run `order_flow` those the order service waits for, so that all its handlers
  have something to do. The theorems hold for any words, the committed ones included.
- The order service's `sendOrderToWare` sends an empty map in place of the order
  (a comment says the content is omitted), which the warehouse cannot act on. So as committed
  no paid order gets goods. OrderFlow has the constant `NamesOrder`: FALSE is the committed
  code, whose message leads to nothing; TRUE is the message meant. The runs use TRUE, since
  otherwise nothing happens past `PassOn`; the theorems hold for both. `NoticesAreSent` says that
  a message is sent, not what is in it. Warehouse is modelled for the well-formed message its
  listener reads (`NotifyWare`).
- `CartServiceImpl` has its `ManagerService` injected by `@Autowired`, and its
  application defines no such bean, so its Spring context does not start as committed.
  Cart is modelled for the Dubbo reference that is meant.
- The cart web tier writes a visitor's id into the cookie `user_temp_id` and mostly
  reads `user_tmp_id`, so it hardly ever finds a visitor's cart to merge. The model has
  `mergeCartList` as the service provides it.
- `AliPayController.notify` has no `@ResponseBody`: what it returns is the name of a
  view, and the only template is `index`. Alipay is never answered "success" and
  keeps calling.
- `OrderController.orderSplit` wants the parameter `wareSkuMapJson`, the warehouse
  sends `wareSkuMap`. The answer is an error and `checkOrderSplit` fails on it, so
  its sub-orders never come to be.

## 2. Modules

| module | models | code |
|---|---|---|
| `Shelf` | what the warehouse promises about its goods, without threads, messages or locks | `gware_manage` |
| `Warehouse` | listeners, clerks, row locks, sessions, the queue and its acknowledgement, crashes; implements `Shelf` | `gware_manage` |
| `MCWarehouse` | the instance for TLC | |
| `WarehouseProofs` | `TypeOK`, `NoOversell`, `VerdictStillHolds`, `NoOrderForgotten`, `ImplementsShelf` for all constants | |
| `WarehouseStockProofs` | `DeductedIsBacked`, `LockedOncePerMessage` for all constants | |
| `Sums` | lemmas about sums of a function over a finite set | |
| `TokenGate` | what the token of a checkout page promises, without calls, retries or Redis commands | the same as `Checkout` |
| `Checkout` | pages, tokens, submissions, Dubbo calls and retries; implements `TokenGate` | `gmall_order_web`, `gmall_order_service` |
| `MCCheckout` | the instances for TLC | |
| `CheckoutProofs` | `TypeOK`, `OrderSpendsToken`, `RefusedOnlyIfSpent`, `StaleNeverOrders`, `ShortNeverOrders` for all constants | |
| `CheckoutGateProofs` | `KeepsGate` for all constants | |
| `SkuCache` | getters, savers, cache, lock, expiry, connection pool | `gmall_manager_service` |
| `MCSkuCache` | the instance for TLC | |
| `SkuCacheProofs` | `TypeOK`, `OneFiller`, `NeverBackwards` for all constants | |
| `OrderLife` | what payment, order service and warehouse promise each other about an order, without queues, threads or failures | the same as `OrderFlow` |
| `OrderFlow` | the queues between payment, order service and warehouse; listener threads, status writes, timeouts; implements `OrderLife` | `gmall_order_service`, `gmall_payment`, `gmall_util_service` |
| `MCOrderFlow` | the instance for TLC | |
| `OrderFlowProofs` | `TypeOK`, `NothingShipsUnpaid`, `PassedOnOncePerPayment`, `NeverStepsBack`, `FollowsLife` for all constants | |
| `Cart` | provider threads, `cart_info`, the two Redis keys, connection pool, expiry, restarts | `gmall_cart_service` |
| `MCCart` | the instance for TLC | |
| `CartProofs` | `TypeOK`, `MembersSeeRealQuantities`, `NoLineVanishes` for all constants | |
| `Payment` | `submit`, the delayed check, the customer, Alipay's `notify` | `gmall_payment` |
| `MCPayment` | the instance for TLC | |

`OrderFlow` begins where `Payment` and the payment module's `/sendPayment` meet the order
service, and sees the warehouse from outside; `Warehouse` sees the order service from
outside. `Shelf` is the abstract specification of `Warehouse`, `OrderLife` that of
`OrderFlow`, `TokenGate` that of `Checkout`.

A definition whose name ends in an underscore and a phrase (`Lacks_IgnoringLocked`,
`NewToken_Reused`) is the definition before the underscore with a plausible mistake
in it. No specification uses it; it shows that the property checked beside it
would notice the mistake.

### Warehouse

A thread is a listener (`Consumers`) or a request of a clerk (`Clerks`); `pc` says
where it stands. `order`, `task`, `ware`, `todo` and `short` are the handler's
local variables: the message's order, the task's row, `wareOrderTask.wareId`, the
lines not yet inserted or checked, and whether `comment` is empty. `redelivered` is the
redelivery count of the message in hand, `queue[o][n]` the messages about order `o` that wait
with `n` redeliveries behind them.

- `Receive`, `FindTask`, `InsertTask`, `InsertDetail`, `Acknowledge`,
  `CheckOrderSplit`: `receiveOrder`, statement by statement where others can step
  in between. `saveWareOrderTask` has no `@Transactional` and is called outside any
  transaction, so each insert commits alone.
- `SelectForUpdate`, `SendSkuDeductMQ`, `CommitLock`: `lockStock`. `SELECT ... FOR
  UPDATE` finds its rows through the index on `sku_id`, so it locks all the rows
  of a sku (`rowLock[s]`), also against inserts. The updates become visible at the
  commit.
- `SendToOrder`, `CommitDelivery`: `deliveryStock`. `AddWareSku`: `addWareSku`.
- `Redeliver`: a message the broker has no acknowledgement of comes again, until it has been
  redelivered `MaxRedeliveries` times; then it goes to the dead letter queue (`dead`), which
  nobody reads. The limit in force is the client's default, 6 (the comment at
  `ActiveMQConfig.java:71`): the `RedeliveryPolicy` bean declared there is not applied (line 92).
- `Acknowledge` is sent without waiting for an answer, so it can be lost: the listener
  goes on to lock stock and the message comes again all the same (`unheard` counts these).
- `DeadlockVictim` is InnoDB's choice among transactions waiting in a circle;
  `Crash` a dead thread or a thrown exception. Both free the row locks; a message that
  was not acknowledged is redelivered, or is dead.
- `sessions` counts the JMS sessions `sendSkuDeductMQ` and the clerk's `sendToOrder` have
  opened: none is ever closed, and the pooled connections have only so many
  (`MaxSessions`). `Send` needs one; a listener that finds none waits with its row
  locks.

`Shelf` has the three variables of the table `ware_sku` and three steps: a row is
added, a whole order is promised in one warehouse that has its goods to spare,
promised goods leave. `Goods == INSTANCE Shelf` maps each to the variable of the same name
in `Warehouse`, and `ImplementsShelf` says that every step of the detailed
specification is one of the three or leaves the table alone: the reads,
the choice of a warehouse, the messages, crashes and rollbacks of `lockStock` together come to
one atomic promise. `Ship` is what a delivery should be; the code's deliveries change
nothing (see the finding), so `Warehouse` never takes it.

Abstracted: the tasks' other columns, the text of messages, the order of the
lines. Both updates that touch `ware_order_task` have no index on `order_id` to go by
and so lock the whole table; this only delays others and is left out.

### Checkout

`pc`, `tradeNo`, `attempt` and `hasStock` are the handler `submitOrder`'s state; `cpc`,
`match` and `touched` that of one execution of a call in the order service. A call
is identified by its submission, its operation and its attempt, since Dubbo
repeats a call while its first execution goes on.

- `GenToken`: `/trades`. `Submit`, `Verified`, `CheckPrices`, `CheckSkuNum`, `Join`,
  `Saved`: `/submitOrder`. `Timeout`: Dubbo's consumer gives up after
  `consumer.timeout` and retries.
- `ReadToken`, `WatchKey`, `ExecToken`: `verifyToken`'s GET, WATCH and EXEC.
  `SaveOrder`: the transaction of `saveOrder`, which commits or rolls back.
- `TokenKey(u)` is one key for all users: `AuthInterceptor` puts only the nick name
  into the request, so `getAttribute("userId")` is null.

`Proceed` is what a handler can do without the warehouse; `CheckSkuNum` is the warehouse's
answer, or the exception, about one line. `HttpClientUtil` sets no timeout of any kind, so the
answer may never come: the handler then waits in `join()` for ever (`HangsOnWarehouse`).

Whether the expiry of a watched key aborts EXEC depends on the version of Redis;
both are allowed. The price comparison has its three outcomes (equal, different,
exception) as choices; so has the warehouse's answer to each line.

`TokenGate` knows a submission's token and its fate: it is new, has a chance (`asking`) or has lost
it (`doomed`), was let `in`, or is `out`. It has a chance when its token is valid as it is
made, may lose it once the token is gone, is let in only when the token is gone, and orders are saved
only for one that was let in, perhaps after its handler has failed. `Fate` in `Checkout`
reads this off the detailed state: a submission under verification is lost when its token is gone and no
call of it has read that token and can still use it; it is out when its handler has ended
without success and no call is left that would insert. Beyond `StaleNeverOrders` this says that
no call saves an order for a submission that was turned down, in whatever order executions of
repeated calls end. That two submissions of one page may both be let in is the finding below, and
`TokenGate` does not exclude it.

### SkuCache

`pc`, `depth`, `read` and `copy` are a getter's place, the number of `getSkuInfo` on its
stack (each holds a connection), the parts it has read and its local `skuInfo`.
Rows are named by the save that wrote them, which is all the properties need.
One sku is modelled: keys and rows of different skus are disjoint. The random
value in the lock is represented by the getter that put it there.
`getSkuInfo_redisson` has no caller and is not modelled. `SaveStep` deletes, or inserts, all rows
of a table for the sku in one step: a reader cannot see some of the rows of one table, as it
might in the code; it does see a table emptied and not yet filled, and one table new beside
another that is old.

### OrderFlow

A thread is a listener thread of one of the three queues the order service reads
(`PayThreads`, `DeductThreads`, `DeliverThreads`). `pc` says whether it is idle, waits
for an `updateStatus` (`"paid"`, `"notified"`, `"answer"`) or is about to send
(`"send"`); `order`, `status`, `done` and `attempt` describe its call. `process` is the
column `process_status`; `order_status` is a function of it. `queue` counts the
messages waiting.

- `SendPayment`: `/sendPayment`. `ConsumerPayment`, `Return`, `PassOn`:
  `consumerPayment` and `sendOrderToWare`, from PAID over NOTIFIED_WARE to the message.
  `ConsumeWareDeduct`, `ConsumeDeliver`: the two other listeners. `After` is the order
  in which a handler goes through its calls.
- `Dequeue`: a listener container that acknowledges automatically takes a message
  off the queue before the listener runs, so the message of a handler that fails
  is lost. (The comment in `ActiveMQConfig` says "手动签收", manual acknowledgement;
  the mode that is set is `AUTO_ACKNOWLEDGE`.)
- `UpdateStatus`: the UPDATE of `updateStatus`, whatever the row holds. `Timeout`,
  `UpdateLate`: Dubbo's consumer gives up on a call, repeats it, and the first
  execution may still write, at any later time. `Fail`: a thread dies or its handler
  throws.
- `WareServes`, `SendToOrder` are the warehouse seen from here: it answers each message
  with one of two words, or fails, and lets a clerk deliver any task it has.

`announced`, `passedOn`, `outbox` and `delayed` are history variables; no guard but the
bound on announcements reads them.

`OrderLife` has an order's status, how often its payment was announced and passed on, the
warehouse's tasks, and which statuses its answers so far mean (`heard`), and five steps: a
payment is announced; a status is noted, PAID before any other and one that stands for an
answer only once that was heard; a noted payment is passed on, no more often than it was
announced; the warehouse takes up an order passed on to it; it delivers an order it
has a task for. `Life == INSTANCE OrderLife WITH heard <- Heard` reads `heard` off the messages
the warehouse has sent, as the order service's handlers understand them (`Words`: `DEDECT` means
WAITING_DELEVER, any other verdict STOCK_EXCEPTION, `DELIEVERED` means DELEVERED, any other word on
that queue nothing), and forgets queues, threads and late writes. With the committed names
`DELEVERED` is never heard, and so must never be noted. A status may still be noted
late, twice or out of order: `OrderLife` does not promise what the code does not keep.

### Cart

`pc` says where a thread of the provider stands, `job` holds its call's arguments and
local variables. `cart:<user>:info` is `info[u]` while it is a hash, and `u` is
in `counters` while it is a number; `checked[u]` is the hash of checked lines. A cart
line is its quantity.

- `AddCard`, `GetSkuInfoFails`, `Update`, `Put`: `addCard`. It can only add to a line
  that is there: for a new sku it reads the quantity of a line it has not found and
  throws, before it inserts. So the lines come from outside (`InitLines`).
- `Select` reads the user's lines without the JOIN with `sku_info`, which would leave out a line
  whose sku has no row; no code deletes rows of `sku_info`.
- `CartList`, then `Select`, `Decr`, `Fill`, `SetExpire`: `cartList` and `loadCartCache`.
  `DECR`, meant to clear the key, makes it a number or fails; `HMSET` fails on a
  number. So `loadCartCache` writes the hash only if the number
  expires between its two commands.
- `MergeCartList`, `Delete`, then as above: `mergeCartList`. The table has no unique key
  besides its id, so its `ON DUPLICATE KEY UPDATE` never applies and a merge always inserts.
- `Touch`, `Exists`, `Get`, `SetLine`, `Mark`: `checkCart`.
- `JedisFails`: an exception between `getJedis` and `close` leaves the connection out of
  the pool; `CartList` never gives back its own. `GetJedisFails`: `getJedis` has waited
  for two seconds. `Restart`: a new pool, no calls, the same table and Redis.

`due` (in a line) and `past` are history variables: all a line should have come to,
and all the quantities it has had.

### Payment

`payments` is the table, `checks` the number of messages in the check queue, which
have no content, `trades` what Alipay knows and `told[n]` how often it has called
`notify`. `Submit` and `SendDelayPaymentResult` are the two halves of `submit`, `Pay` is the
customer. The row `submit` saves has no `outTradeNo`, the column `notify` looks
it up by.

## 3. What the runs check

| run | specification | result |
|---|---|---|
| `warehouse` | 2 listeners, 1 clerk, 2 orders, 2 skus, 3 rows, 2 messages, 3 sessions, 1 failure, 1 redelivery, 1 delivery | 758,453 states (up to symmetry), all hold |
| `warehouse_locking` | the same without deliveries, with 2 failures and 1 session | 288,920 states, both hold |
| `warehouse_delivery` | as `warehouse` | `DeliveredLeavesStock` is violated |
| `checkout` | 2 submissions, 2 pages, 2 lines, one submission with a retry | 108,870 states, all hold |
| `checkout_once` | the same without retries | `OneOrderPerToken` is violated |
| `sku_cache` | 2 getters, 1 saver, pool of 3 | 120,027 states, all hold |
| `sku_cache_waiter` | the same | `WaiterGetsSku` is violated |
| `order_flow` | 1 order, 2 announcements, 4 threads, 1 retry, 1 failure, 1 delivery | 178,402 states, all hold |
| `order_flow_names` | 1 order, 1 announcement, no failure, the warehouse's own names | `AnswerIsRecorded` is violated |
| `cart` | 1 member, 1 visitor, 2 skus, 2 threads, 3 calls, pool of 2, 1 restart | 401,701 states, all hold |
| `cart_additions` | the same | `NoAdditionLost` is violated |
| `payment_notify` | 1 order, 2 trades, 2 notifications each | `NotifiedIsRecorded` is violated |

**warehouse.** `NoOversell`: no row has more locked than in stock. `VerdictStillHolds`:
from the moment a listener has found an order servable, sends DEDUCTED and until
it commits, each line has exactly one row in its warehouse with enough available
stock. `DeductedIsBacked`: the orders shown as DEDUCTED buy no more than is
locked. `LockedOncePerMessage`: goods are locked at most once for a message and once more for
each acknowledgement of it that got lost. `ImplementsShelf`: see above. The two orders share a sku of which there is enough for both
once (3 of `s1`) and not for the second one twice; the second listener and the
second message produce the double inserts of a task and opposite lock
orders; the free row turns up as a second row of the same sku and warehouse, or in
another warehouse, which are the two ways the choice of a warehouse and of a row
can fail.

**warehouse_locking.** Liveness with the two listeners taking the rows of two skus
in opposite orders. `LockingEnds` says that whoever starts locking gets through, is
rolled back, or finds the sessions used up; one session brings the third case about.
`NoOrderForgotten`: an announced order is in the queue, in a listener's hands, has a task, or
has a message on the dead letter queue, and then more has failed than the client redelivers
messages (6 times). The last does happen: an exception before the task is
inserted (the database is away for some seconds) that repeats through all redeliveries leaves a paid
order without a task, where only an operator would find it. Two failures with one redelivery
are enough to get there. So a restart or two of a listener lose no order, an outage may. The
property says nothing of an exception after the acknowledgement (several warehouses, a missing
row, a deadlock's victim): that order has a task, and no goods.

**warehouse_delivery** (finding). A delivered order's goods stay on the shelf and
stay locked: the task was inserted before its warehouse was known.

**checkout.** `OrderSpendsToken`: once there is an order, its page's token is not in
Redis. `RefusedOnlyIfSpent`: a page is refused only when nobody can submit it any
more. `ShortNeverOrders`, `StaleNeverOrders`: from the moment a line is known to be short, or
`verifyToken` starts with a token that is not the stored one, the submission can only
wait, be refused or fail. `SubmissionAnswered` is liveness: every submission is answered
though the order service hangs, unless from some time on it waits for ever for the warehouse's
answer about a line. So that request is the only wait without a limit.
`KeepsGate`: see `TokenGate` above. Two submissions and two pages give:
the same page twice, an old page after a newer one, a page opened between any two
Redis steps. With the shared key, a page of a second user has the effect of a
second page. One retry is enough for a repeated call to overtake, follow or
overlap its first execution.

**checkout_once** (finding). Two submissions of one page both order, without
any timeout: the second starts to watch the key after the first has deleted it.

**sku_cache.** `OneFiller` and `NeverBackwards` hold as long as no lock is lost
before its holder lets go of it (`overrun`); `SavedIsSeen` and `CallsEnd` hold
whatever is lost. One table besides `sku_info` is enough for a torn write (the three
are rewritten and read alike, one after the other); three connections for two
getters let waiters exhaust the pool.

**sku_cache_waiter** (finding). A getter that waited returns an object
without any field set.

**order_flow.** `NothingShipsUnpaid`: the warehouse knows only of orders that are no
longer recorded as unpaid. `PassedOnOncePerPayment`: no announcement makes two
messages to the warehouse. `NeverStepsBack`: as long as the payment is
announced once and no call about the order times out, its status does not step
back; the exceptions are real, since a repeated announcement or a late write of a
call that timed out does move a status back. `NoticesAreSent` is liveness: each announcement
of a payment leads to a message of its own to the warehouse unless a handler fails. `FollowsLife`: see `OrderLife` above. Two threads for payments
let two announcements overtake each other. One order is enough: no action
reads or writes rows or messages of two orders. One retry lets a call land before,
after or between the calls that follow it; one failure can hit any handler.

**order_flow_names** (finding). With the queue and the words of the warehouse as
committed, its answer is never read and the order stays NOTIFIED_WARE.

**cart.** `MembersSeeRealQuantities`: every quantity in a member's two hashes is one that a
line of his has had in the table; it holds although hashes are written
back stale, expire and are rebuilt in between, because every write to them
carries a quantity read from or written to the table. `NoLineVanishes`: a line that
`mergeCartList` deleted is still there as a member's line of the same sku, whatever
came between its two statements; it rests on merges copying every line and on
nobody adding lines for a visitor in between, which `addCard` cannot. `CallsEnd` is
liveness: leaked connections never block a call for ever. The member and the
visitor share a sku, so a merge makes two lines of one sku, on which
`addCard` fails ever after; three calls on two threads give any two operations at
once after a third has left a number, a hash or a leak; two connections are the
whole pool after two leaks.

**cart_additions** (finding). Two additions read the same quantity; both write
their sum, and one is lost.

**payment_notify** (finding). A paid trade Alipay has told the shop of is not on record
as paid: the row cannot be found, and would not be changed.

Deadlock checking is off where the system may really stop: in `Warehouse`,
`OrderFlow`, `Checkout`, `Cart` and `Payment` when all messages, pages, calls and trades the bounds allow are used up,
in `SkuCache` when exceptions have leaked the whole pool.

### Bounds

`MaxSends`, `MaxCrashes`, `MaxDeliveries`, `MaxSessions`, `MaxRedeliveries` (Warehouse), `MaxTokens`, `Retries` (Checkout),
`MaxSaves`, `MaxTotal`, `Tables` (SkuCache), `MaxPays`, `MaxDeliveries`, `MaxFailures`,
`Retries` (OrderFlow), `MaxTotal`, `MaxCalls`, `MaxAdded`, `MaxRestarts` (Cart) and
`MaxNotify` (Payment) are the only bounds; each stands in a guard
or a constant and is named in its module's CONSTANTS. `Retries` is Dubbo's setting
(two by default), `MaxTotal` the pool's (200) and `MaxSessions` what the five pooled
connections give out (500 each by default), smaller here; `MaxRedeliveries` is the client's
limit (6 by default). `MaxCrashes` of Warehouse counts lost acknowledgements as well as crashes and
exceptions. Run `warehouse` makes its two listeners symmetric (`Alike`), which is sound: nothing
tells them apart, and the run has no liveness property.

### Fairness

- Warehouse: weak fairness of each listener's work. The container reads its queue
  in a loop, a row lock is waited for by the server, and InnoDB detects circles.
  Nothing is assumed of clerks, operators, the order service or crashes.
- Checkout: weak fairness of the web tier's handler, which includes Dubbo's timer.
  This is `Proceed` only: nothing is assumed of the order service, nor that a request to the
  warehouse ends, since `HttpClientUtil` sets no timeout.
- SkuCache: weak fairness of a call under way, of a save under way, and of
  time (expiry). No new call or save has to begin. `DbFails` and `SaveFails` are never
  forced. `GetJedis` at the start of a call is not forced either.
- Cart: weak fairness of each provider thread's call under way, which includes
  the two seconds after which `getJedis` gives up. No call has to arrive, no key
  to expire, nothing to restart.
- OrderFlow: weak fairness of each listener thread's work: the containers read their
  queues in a loop and Dubbo's timer ends a call that is not answered. A call is
  given up for good only within `MaxFailures`. Nothing is assumed of payments, the
  warehouse, late writes or failures.

## 4. What is proved

All proofs are for every value of the constants that satisfies the module's named
assumption (`WarehouseAssumption`, `CheckoutAssumption`, `SkuCacheAssumption`,
`OrderFlowAssumption`, `CartAssumption`). The assumptions give the
constants their types and say that the sets counted or summed over (orders, listeners, rows,
threads, getters, submissions, lines) are finite and that an order's line buys at least
one piece. `OrderFlowAssumption` also says that the word for a delivery is none of the two
for a verdict, as in the code.

**WarehouseProofs**: `TypeCorrect`, `NeverOversells`, `VerdictsHold`, `NoneForgotten`,
`ServiceImplementsShelf`. `NoOversell` alone is
not inductive: that the commit does not oversell rests on what was read before.
The strengthening `IInv` adds `LockInv`: for every line a listener has checked, it
holds the sku's row lock and, unless it found a shortage, the row it saw is still
the only one and still has enough. `ListenerInv` and `ClerkInv` tie a thread's local
variables to its place; `ClerkInv` also says that no task names a warehouse, which is
why a delivery never changes `ware_sku` (the finding seen from the other side). `RowInv`
says that rows not yet inserted have nothing locked. `LeaveStep` and `OutsideLockStock`
serve all the actions that end a thread's work or happen outside `lockStock`.
`NoneForgotten` needs in addition that a listener past `InsertTask` has an order with
a task (`TaskInv`), that an order announced is in one of the places named or has a
task or is dead (`HeldInv`), that a task is never removed (`TasksStay`), nor a message but to a
listener or to the dead letter queue (`MessagesStay`); and, for the limit, that messages of an order
without a task have been redelivered no more often than something failed (`RetryInv`). `ServiceImplementsShelf` maps
`AddWareSku` to `Shelve`, and `CommitLock` to `Promise` when the order is servable: `IInv`
gives, at the commit, the one row with enough for each line that
`Promise` asks for. Every other step leaves the table as it is; that
`CommitDelivery` does so rests on `ClerkInv`.

**Sums** has the lemmas about `SumFunctionOnSet` that the next proofs and the pool of
`SkuCache` need: the sum of nothing and of zeros, adding a member, changing one value,
comparing two functions, a smaller set. The provers cannot do induction over finite sets with an
operator as the claim; the lemmas get by with the claim as a set of
counterexamples, of which they take one with the fewest members.

**WarehouseStockProofs**: `DeductedGoodsAreLocked`, `LockedOnce`. The
commit of a servable order adds its pieces to exactly one row for each line (`IInv` again), so
what is locked of a sku grows by what the order buys; a task becomes DEDUCTED
only with such a commit, and nothing is ever freed, so the sum over the rows stays above the sum
over the DEDUCTED orders. For `LockedOnce` the invariant `SpentInv` bounds what is locked by the
messages that are used up: those sent and those that came again because an acknowledgement was
lost, less those in the queue and those in the hands of a
listener that has yet to commit; a redelivery moves a message from hand to queue and
changes nothing in the balance.

**CheckoutProofs**: `TypeCorrect`, `OrdersSpendTokens`, `RefusalsAreFinal`. The strengthening
`CInv` says: tokens given out are 1..n, so a new one is none of them (`FreshInv`); a
submission past `verifyToken` has its token gone from Redis (`PastInv`); and so has one
with a call that saw another token, whose watched key was touched, or that is done
(`CallInv`). The last is what makes retries harmless: a repeated call that finds
its own first execution's work refuses a page that is indeed used up. `StaleStaysOut` and
`ShortStaysOut` say that something holds for ever after; each names what is true of a submission
that is out (`StaleOut`: its token is gone, and no call of it has read that token or
is answered yes; `ShortOut`) and shows that it holds when the submission goes stale or short, that
no step ends it (`CallSteps`, `HandlerSteps` say what a step may do to a call and to
a submission, `BarredStays` that a token does not come back) and that it allows no order. That
it holds at the start of `verifyToken` needs `AttemptInv`: a handler has no calls but its
attempts so far.

**CheckoutGateProofs**: `CheckoutKeepsGate`. `GenToken` maps to `Open`, `ExpireToken`, `ReadToken`,
`WatchKey` and `ExecToken` to `Close`, `Submit` to `Ask`, `SaveOrder` to `Save`, to `Leave` when it fails as the last
one, or to none, and a handler's step to `Admit`, `Leave`, `Close` or none (`OneStep`). A step on the token can
cost several submissions their chance at once (`FadeStep`, from `StaleStays`); the
others keep their fate (`SameFate`). `OpInv` adds to `CInv` and `AttemptInv` that only calls of
`saveOrder` insert, so that nothing is being saved before a submission is let in
(`NotSaving`).

**OrderFlowProofs**: `TypeCorrect`, `NothingUnpaidShips`, `PassedOnOnce`, `NoStepBack`,
`OrdersFollowLife`. The strengthening `FInv` counts: what is in the payment queue, in a
thread's hands and already passed on is together never more than was announced
(`CountInv`), and while no call was delayed this includes the writes that dead
handlers left behind. So the only announcement of a payment is at one place at a
time (`Alone`), and `StageInv` says for each such place how far the status may have
come. `WareInv` says that an order the warehouse was not told of leaves no trace
there or in its queues, `PaidInv` that no handler goes on before PAID is written.
`OrdersFollowLife` holds whatever queue and words the warehouse uses and whether or not the message
to it names the order. `SaidInv` follows the warehouse's words through the queues, the
calls and the late writes: a status about to be written for an answer is one that a word
sent about this order means. The theorem maps `SendPayment`,
`PassOn`, `WareServes` and `SendToOrder` to the steps of `OrderLife` (`OccasionsStep` and `HeardMore` say what
a word sent adds to `Heard`), `UpdateStatus` and
`UpdateLate` to `Note` (`MayNote`: whatever write is under way or late may be made now; it needs
`NoteInv`, that NOTIFIED_WARE is not even late before PAID was written), and every other step
to none.

**SkuCacheProofs**: `TypeCorrect`, `OneAtATime`, `NeverAnOlderRow`. The strengthening `IInv` says: while no
lock was lost, who believes he holds the lock does (`HolderInv`); the row of
`sku_info` is the newest there is, also next to every copy read or cached (`RowInv`);
and what the lock's holder has read is no older than what is cached (`FreshInv`),
since nobody else can fill meanwhile. `TypeCorrect` adds the pool (`PoolInv`): the connections on
the getters' stacks and those leaked are no more than there are, and an exception leaks
exactly those of its own call's stack (`ThrowLeaks`).

**CartProofs**: `TypeCorrect`, `RealQuantities`, `NothingVanishes`. The strengthening `IInv`
says: the quantity a thread is about to write to a hash is one a line of its
member has had (`JobInv`), and so is every one in the table (`LinesInv`); a thread
that merges has already copied whatever it will delete (`JobInv`), which holds
because no operation makes a visitor's line; and the free connections together
with the threads that hold one are no more than the pool (`PoolInv`).

Every safety and action property of the passing runs is proved. Only model-checked are the liveness
properties (`LockingEnds`, `SubmissionAnswered`, `SavedIsSeen`, `CallsEnd` of `SkuCache` and of
`Cart`, `NoticesAreSent`), which are beyond the prover, and the counterexamples
of the findings, which need no proof. `Payment` has no passing run and no theorem.

## 5. What is not modelled

- **Attributes and spus**: `saveAttrInfo` and `saveSpuInfo` write several tables statement
  by statement, the hazard `SkuCache` models for `saveSkuInfo`; the rest is a mapping of
  rows without steps.
- **Search**: queries are Elasticsearch's, `incrHotScore` is one command on a connection it
  never closes (the leak modelled in `Cart`), and the number of pages is one division,
  by the page's number where its size is meant.
- **Users, passport and session**: `login` reads one row and writes one key, `verify`
  reads it. JWT and password hashing are the libraries'.
- **The cart's web tier**: passes calls on. `getCheckedCartList` only reads.
- **Item page, management web tier, beans and interfaces**: no state of their own.
- Alipay's signatures, file upload, pages and templates, the vendored FastDFS client and
  the course notes: external formats or not part of the program. `hasStock` of the warehouse is a
  read whose answer is left open in Checkout.
- **JavaScript**: what of it is in the repository is third-party (jQuery, EasyUI,
  Bootstrap and their plugins, several copies each), or glue of a page. The shop's
  logic is Java and the MyBatis mappers, and these are what `PROJECT.json` maps; none of
  the JavaScript is mapped.

## 6. Plan

Warehouse, Checkout, SkuCache, OrderFlow, Cart and Payment are done. What could follow:

1. The order service as `Warehouse` sees it: `OrderFlow` with `Warehouse` in place of
   `WareServes`, so that both implement one life of an order.
2. The ActiveMQ connection pools of the order and the payment service.
3. Abstract specifications of the sku cache and of the cart.
