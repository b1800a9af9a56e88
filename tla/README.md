# Verification of the OLS wallet back end

TLA+ models of the back end in `src/src` (TypeScript on Node.js, MySQL, Redis
and an Ethereum node) and of its token contract `src/contracts/MyToken.sol`,
TLC configurations that check them, and TLAPS proofs about them. Paths below are relative
to the directory that holds `src/`.

## 1. The system

The service watches the `Transfer` events of one ERC20 contract, stores each
transfer in MySQL and keeps the members' wallets up to date with it. Over HTTP it
also sends tokens, from a member's wallet or from the manager's.

| Component | State | Operations | Where |
|---|---|---|---|
| Transfer intake | table `transaction` | `processTokenTransfer`: look up, await the receipt, insert or update, start the accounting | `events/handlers/web3.handler.ts` 93-142 |
| Accounting | tables `u_ols_wallet`, `u_ols_myzr` (deposits), `u_ols_myzc` (withdrawals) | `processReceivedEthOrToken` routes a transfer to `processCharge…`, `processTransfer…` or `processWithdrawEthOrToken`; `addUserCoin`, `addUserDrawCoin` | `web3.handler.ts` 145-243, `helpers/helpers.ts` 40-64 |
| Restore job | Redis key `lastCheckedBlock`, the Bull job | `checkAndRestoreTransactions` every ten minutes, one job at a time | `web3.handler.ts` 81-85, 245-260 |
| Connection, process | web socket, subscription, database connection | constructor, `onWsClose`, `attachHandlers`, `createConnection` | `web3.handler.ts` 42-90, 262-286; `bin/www.ts` |
| Token contract | balances, allowances, supply, owner | `transfer`, `transferFrom`, `approve`, `increase/decreaseApproval`, `burn`, `burnFrom`, `transferOwnership` | `contracts/MyToken.sol` |
| Transaction service | table `transaction` | `createAndSaveTransaction`, `getTxTypeByData`, `getFromToTokenAmountByTxDataAndType`, `getTxStatusByReceipt`, `checkMemberAddress` | `services/transaction.service.ts` 67-107, 140-181 |
| Sending tokens | a promise per request; nonce and pool in the node | `/wallet/sendtokenbymnemonic`, `/wallet/sendtokenfromadmin`, `sendTokenByMnemonic` | `controllers/wallet.controller.ts` 63-116, `services/web3.client.ts` 157-191, 366-377 |
| Other send methods | as above, and ether | five methods without callers | `web3.client.ts` 90-156, 193-316, 351-364 |
| Client connection | its own web socket | constructor, `onWsClose` | `web3.client.ts` 66-88, 379-393 |
| Wallet creation, queries | none | `createWallet`, `moneyInfo`, `transferTxFee` | `wallet.controller.ts`, `wallet.service.ts` |
| Requests and errors | none between requests of a route | the chain of `app.ts`, `handle`; `commonValidate` is attached to no route | `app.ts`, `middlewares/` |
| Configuration | constants | `startBlock`, `blockOffset`, `rpc.type` | `config.ts` |

How they interact. The IoC container builds the handler (`ioc.container.ts` 21), which
connects to the node, subscribes to `Transfer` (except over http) and starts
the job worker, while `bin/www.ts` is still waiting for MySQL. Subscription and job both call
`processTokenTransfer`: the job awaits it, the subscription does not. It starts
the accounting without awaiting it. The sending routes and the intake meet only in the
chain, and in `u_ols_myzc`, where the site's own application (not in the repository) stores the
hash a sending route answered.

What is hard. Node.js runs one callback at a time, but every `await` lets other
callbacks run, and nothing here uses a database transaction, a lock or a unique
index. So: find-then-insert and read-modify-write across awaits; two sources of
the same event; accounting that a crash can lose; a checkpoint that must never
run ahead; a node that lags, has no receipt yet or reorganises its chain;
replies lost with a socket; a queue of concurrency one; nonces taken from the mined
count. `PROJECT.json` lists each of these hazards at its line, with
the properties that would catch it going wrong.

What makes each part correct:

- intake: each transfer stored once, no stored outcome overwritten, none missed for ever;
- accounting: nothing credited that was not received, nothing received left
  uncredited, amounts that only grow, withdrawals settled as the chain says;
- checkpoint: every block it leaves behind is stored;
- contract: tokens conserved, taken only from those who agreed;
- sending: every request answered, and the answer true;
- the whole: what the tables say was paid or received has moved in the contract.

## 2. Modules

| Module | Models | Size of an instance |
|---|---|---|
| `TransferIntake` | what the intake promises of each transfer, without tasks, tables or faults | as `Web3Handler` |
| `TransactionService` | fields of transactions and rows, and by which a row is found again | any |
| `WalletColumns` | the nullable `double(10,2)` columns of `u_ols_wallet` | columns up to 1 token |
| `Web3Handler` | intake, accounting, restore job, connection and process lifecycle; extends the two before it, and is shown to implement `TransferIntake` over http | one or two events, up to three blocks, up to two faults |
| `MCWeb3Handler` | sets of events for `Web3Handler` | |
| `Web3HandlerProofs` | theorems about its intake; the others build on it | any |
| `CheckpointProofs`, `SettlementProofs` | theorems about the restore job and about withdrawals | any |
| `AccountingProofs` | theorems about deposits and draws, with the sums of `Sums` | any number of events and members |
| `Sums` | lemmas about sums over finite sets, for `AccountingProofs` and `BackendProofs` | any finite set |
| `MyToken` | the token contract | three addresses and the zero address, words up to 4 |
| `MyTokenProofs` | theorems about `MyToken` | any |
| `TokenSend` | the send routes and methods over the node's pool, ether and the client's connection, with `MyToken` as the contract (`INSTANCE`) | six requests, one fault |
| `MCTokenSend` | sets of requests for `TokenSend` | |
| `TokenSendProofs` | theorems about `TokenSend` | any |
| `Backend` | the whole server over http: extends `TokenSend`, instantiates `Web3Handler`, over one chain and one site | three requests, one fault of each part |
| `MCBackend` | the requests of `Backend` | |
| `BackendProofs` | theorems about `Backend`; extends `TokenSendProofs` and `Sums` | any |

### Web3Handler

An action ends where the code awaits a reply. State and code correspond so:

| Variable | In the program |
|---|---|
| `handler[l, o]` | the invocation of `processTokenTransfer` for event `l` from the subscription (`live`) or the job (`restore`): where it stands, the row `tx` it looked up, the `status` of the receipt |
| `dispatch[l, o]` | the accounting started for it, and the wallet row `user` it has loaded |
| `job` | the running Bull job: `currentBlock` and the events still to handle |
| `rows[k]` | rows of the table `transaction` with hash, sender, receiver and type `k`, in order of id |
| `wallet`, `myzr`, `myzc` | wallet rows; number of deposit records of an event; status of the withdrawal with a hash |
| `lastCheckedBlock` | the Redis key |
| `process`, `conn`, `wire` | booting / ready / without database / down; the socket; events on their way to the subscription |
| `height`, `block`, `reverted` | the chain (external) |

| Action | Code |
|---|---|
| `Deliver`, `FindTx`, `GetReceipt`, `SaveTx` | `processTokenTransfer`, cut at its awaits; `getBlock` is part of `GetReceipt` as nothing is decided by it |
| `Route` | `processReceivedEthOrToken`; the promise of `checkMemberAddress` is always true as a condition |
| `Charge`, `addUserCoin`, `InsertMyzr` | `processChargeEthOrToken`: the two writes run concurrently, in either order |
| `Transfer`, `addUserDrawCoin` | `processTransferEthOrToken` |
| `FoundWithdrawals`, `Withdraw`, `Settle` | `processWithdrawEthOrToken` and its lookup by hash |
| `JobStart`, `JobFetch`, `JobNext`, `JobDone` | `checkAndRestoreTransactions`; the Redis `GET` is part of `JobFetch`, as only the job writes the key |
| `WsClose`, `Reconnect` | the socket's `onclose`, then `onWsClose` |
| `Crash`, `Restart`, `CreateConnection` | the process and `bin/www.ts` |
| `RejectHandler`, `RejectDispatch`, `RejectJob` | a rejected query or call at an await of `processTokenTransfer`, of the accounting, and of the job itself; a rejected Redis `SET` may have been executed |
| `NewBlock`, `Reorg`, `LinkWithdrawal` | the chain and the site (external) |

`TransactionService` says which fields a Transfer event is looked up by (`Key`) and which ones
`createAndSaveTransaction` gave the row of the same transaction before it was mined (`SavedKey`). They agree for a direct
call of `transfer` only: of a call of `transferFrom` the receiver is not decoded, and of a call of another contract
the row has another type; such a row stays pending and the event is stored in a second one.
No code of the repository calls `createAndSaveTransaction`. `PendingLogs` are rows that a caller outside it left in the table before
the server started, so that the branch of `processTokenTransfer` for a pending row (`web3.handler.ts` 135-137) is modelled; with
`PendingLogs = {}`, as in every run but `accounting`, the model is the repository by itself. A caller that
saves such rows while the server runs is not modelled, and nothing is claimed of it: a row it saves after its event was handled stays pending.

`WalletColumns` counts in thousandths of a token, the columns keep hundredths. `parsePlus` is `parseFloat` and the
addition: NULL makes NaN. `Stored` and `Refused` are MySQL's: outside strict mode NaN becomes 0 and a sum out of
range the largest value; strict mode refuses both. So a wallet whose amounts are NULL loses its first deposit: `DepositsCredited` leaves
its member out, and the runs have none (`NullMembers`); the theorems hold with any.

`InsertMyzr` compares the fields of the record with the columns `u_ols_myzr` requires, and fails in
strict SQL mode. `addUserCoin` saves the whole row it was given: TypeORM's `save` writes every column
that differs from the database, so the columns another task changed meanwhile
are set back.

Abstractions. A lagging node (`lag`) is one block behind with its events; `Reorg` replaces the tip block only. A member has one wallet row; addresses in events and tables are
spelled alike; the manager's row exists and does not change. An event fetched by the job keeps the block it was found in. `ipc`
connections behave like `ws` without `Reconnect`. Of an event announced again while its first
invocation runs, the second waits (`Deliver`).

### MyToken

A call runs to its end or reverts, so each public function is one action, with
its `require`s and the assertions of SafeMath as guards. `Plus` wraps at the width of
a word and `Fits` is SafeMath's test, so a missing test would show. `_mint`, `_burn` and
`_burnFrom` are internal and called by nobody.

### TokenSend

`Calls` lists the awaited calls of each route or method in order, and `pc[r]` is the one that request `r`
waits for; `answer[r]` is the first thing its promise was settled with, `tx[r]` what became of its
transaction. The methods differ in these calls, in who signs (`Signer`), in what is paid (`EtherSent`, `Fee`) and in
what is checked (`sufficient`); the rest of their promise chain is the same code. `CheckBalance` goes on to `Sign` after a
refusal, as the code does. `Rejected` says what a rejected call does: most reject the promise,
but the balance check and `signTransaction` have no `catch`, and the request hangs.

`WsClose` closes the client's own connection: its `onclose` takes the place of the provider's, so calls under way get no
reply (`Interrupt`), although the node may have accepted what they sent; later ones are rejected until
`Reconnect`. `Crash` ends the process: calls under way are interrupted in the same way, and the restarted server has a new
client. `Accept` and `Refuse` are the node's pool: a transaction with a nonce already mined, or that its account cannot
pay, is refused; one with the nonce of another in the pool is refused or, when it pays more gas,
replaces it. `Mine` moves ether, executes `MyToken`'s `transfer` or reverts. `transferPreSigned`, which
`sendTokenWithNoEth` calls, is in the ABI but not in `MyToken.sol`, so such a call reverts. `After` is the callers'
discipline: the requests whose outcome a caller waits for before it makes the next.
Manager and members are addresses of the contract; address 1 deploys it.

Abstractions. The key given with a request is that of `input.from`; the amounts of the balance check are exact
(`parseFloat` of two token amounts may take nearby ones for equal); the gas of a
mined call is its limit.

### Backend

`Backend` extends `TokenSend` and adds the state of the intake, which `Handler`, an `INSTANCE` of `Web3Handler`, works on: its
`conn` is `socket` and its `faults` are `intakeFaults`, as each part has a budget of faults of its own. The requests are the
possible events. The chain of the whole is not reorganised: `BackendAssumption` leaves `reorg` out of `IntakeFaults`, and `BackendNext` has no
`Handler!Reorg`. A replaced block would take back what its transfers did to the contract, and `MyToken` and `TokenSend` have no such step. So the branch
of `processWithdrawEthOrToken` that answers failed (`web3.handler.ts` 238-240) is reached in `Web3Handler` alone, and
the properties of `Backend` are promised of a chain without reorganisations only: after one, a withdrawal can be settled as failed, and one settled
as success, or a wallet already charged, can lose its tokens.

| Action | What the parts do |
|---|---|
| `Request` | a step of a sending route; `bin/www.ts` listens once the database connection is there |
| `MineTransfer` | the node mines a transaction (`Mine`), and the intake's chain has a new block (`NewBlock`), with a `Transfer` event if tokens have moved and without one if the transfer was reverted |
| `LinkWithdrawal` | the site stores the hash that a route answered, and no other |
| `CrashProcess` | the one process ends: both parts lose their tasks |
| `Intake` | a step of the intake, its job, or the start of the process |

## 3. Runs

`Faults` names the kinds of fault a run injects and `MaxFaults` how many;
`MaxBlocks` bounds the blocks mined.

| Run | Question | Result |
|---|---|---|
| `intake_http` | a contract's transaction with a deposit to the manager and a payment of the manager to itself, over http with crash, rejected call, lagging node, reorganisation, failed database connection: is each transfer stored and dispatched once, and final, does the checkpoint (offset of one) leave nothing behind, and is the one wallet both touch never charged or drawn beyond the rows? | holds |
| `accounting` | over http without crashes and rejected queries, a deposit of one member and a withdrawal to the other that has a pending row at boot: does the intake implement `TransferIntake`, is every deposit credited and recorded once accounting is quiet, and a linked withdrawal settled as stored, for good, and in the end? | holds |
| `recover` | over a web socket with crashes, rejected calls and lost connections: is every mined transfer stored in the end? | holds |
| `token` | is the contract sound under every sequence of calls? | holds |
| `send` | six methods, two signers, one fault (any one call rejected, the socket closed, the process killed): what can a hash, an error, a refusal by the node and a revert mean, and is every request answered and every hash mined? | holds |
| `backend` | two payments of the manager, who has tokens for one, and a payment of a member to the manager, with one fault of each part (a crash, a lost reply; a rejected call of the intake): do the tables agree with the contract? | holds |
| `lost_update`, `received_twice`, `payment`, `deposit_record`, `send_nonce`, `send_refused` | what a comment, a declaration or an answer of the code promises | violated |

Why the bounds are enough. The races are between two invocations of one event, or between the
events of one member, so one or two events show them; two blocks put
events before and after a checkpoint, and three let the checkpoint
move past a block by more than the offset. Two faults let one hit the recovery from another. In `TokenSend` the manager signs three requests one after the other, and a member overlaps
two token transfers of which only one can be paid with one of ether: queued and unqueued accounts, lack of tokens and lack of ether all occur, and
members spend what the manager brings. In `Backend` the reply to the first payment may be lost; its caller then makes the second before the first is
mined, the balance check passes, and the second payment is answered with a hash, linked and reverted. The draw is reached in `intake_http`, the
column of 1 token holds the sums of every run, and 16 and 24 thousandths are rounded up and down. Words up to 4 with a supply of 3 make every overflow and underflow of the contract reachable.
Start blocks are those of `.env` (4697004, with the 200 blocks that an offset of 0 is
turned into) except where the run is about the offset.

Runs that may stop: `recover`, when the job hangs and no event is left, and those of `TokenSend`, when all requests are done. They turn the deadlock check off; the others have it on (the restore job never stops).

Fairness. The event loop runs every callback that is ready, Bull starts the job again
every ten minutes, `onWsClose` retries by a timer, and an operator restarts a crashed process:
weak fairness of these steps. In `TokenSend` the event loop and the node answer some request as long as one waits, and mine some
transaction as long as one can be: requests are finite in number and calls in a request too, so fairness of the union is enough. Nothing is
assumed of the chain's growth, of callers or of the site. Faults are bounded, so they
stop in the end; that is an assumption of every liveness property.

### What the violations show

- `payment`: `checkMemberAddress(...)` is not awaited (`web3.handler.ts:149`), so a member's payment to the manager
  is taken for a deposit and `addUserDrawCoin` is reached only by the manager's payments to itself.
- `lost_update`: overlapping deposits of one member lose an amount (`helpers.ts:43`).
- `received_twice`: subscription and job insert and credit one transfer twice (`web3.handler.ts:131`).
- `deposit_record`: in strict SQL mode the deposit record, built with fields its table does not have and without columns it requires (`web3.handler.ts:184`), is refused after the wallet was credited.
- `send_refused`: a refused request is sent all the same (`web3.client.ts:171`). It can also take the nonce of a later request.
- `send_nonce`: a pending transfer of the manager is replaced by the next one (`web3.client.ts:177`).

The last two are why `PendingIsKept` is about callers that wait (`Queued`) and about requests before which none was
refused (`RefusedBefore`).
`DepositsCredited` promises nothing for a sum that, with half a cent for each deposit, exceeds its column, as MySQL then
stores the largest value or refuses the row.
Two more disagreements need no model: the comment of `helpers.ts:60` says the amount is decreased where the line
adds, and `app.spec.ts` expects headers and 406 answers that `app.ts` 31-60 has commented out.

## 4. Proofs

Every theorem holds for every value of the constants that the assumptions of the models allow: any set of events,
requests, members and addresses, any configuration, kinds and number of faults, width of a word and size of a column. The assumptions say what
the constants are (`LogsAssumption`, `DataAssumption`, `ConfigAssumption`, `ColumnAssumption`, `TokenAssumption`, `ContractAssumption`,
`SendAssumption`, and `BackendAssumption`, which says that the whole runs over http and without reorganisations), and TLC evaluates each of them in a run. A theorem that needs more names it
as a hypothesis:

| Hypothesis | Meaning | Needed since |
|---|---|---|
| `RpcType = "http"` | the restore job is the only source of events | over a web socket a transfer may be stored and credited twice (`received_twice`) |
| `IsFiniteSet(Logs)`, `IsFiniteSet(Requests)` | finitely many events, or requests | the sum over an infinite set means nothing |
| `"null" \notin Faults` | the node has the receipt of an event it announced | an event without a receipt is dropped without an error (`web3.handler.ts:104`) |
| `OnePayment` | a transaction of the manager pays once | a second payment could settle the withdrawal again |
| `NoLoss` | neither crashes nor rejected queries | they lose the accounting of a stored transfer |
| `startBlock < blockOffset` | the configured scan begins at a negative block | what the two `RefusedScan` theorems are about; both defaults (1 and 200) satisfy it |
| `[]NoOverlap` | no two accountings hold one wallet at once | the later write loses what the earlier one added (`lost_update`) |
| `OneTransfer` | each member has at most one deposit, and the manager one payment to itself | implies `[]NoOverlap` over http |
| `~StrictSql`, `PendingMatches` | MySQL is not in strict mode; a row saved before its transfer was mined has its tokens | `deposit_record`; of a `transferFrom` no amount is decoded, so its row has none |

### The intake

`Web3HandlerProofs`

- `TypeCorrect`: `Spec => []TypeOK`. `TypeOK` alone is not inductive: a save updates
  row 1 of a key, so a handler that found a row must know that there is one. `TypeInv` adds that, and that a task under way
  that writes a wallet does so for a member.
- `HttpUniqueRows`, `HttpFreshLookup`, `HttpDispatchIsNew`, `HttpRowIsFinal`: with RPC type http
  there is no subscription, and the job handles one event at a time. `HttpInv` says just that: no live
  invocation; at most one restore invocation, and only while the job is in its loop; a row looked up is still the
  current one. Then `SaveTx` inserts only where no row is (`UniqueRows`), and updates and
  dispatches only a row that is pending (`DispatchIsNew`, `RowIsFinal`). Over a web socket these properties are false, as
  `received_twice` shows.
- `HttpImplementsIntake`: over http the intake implements `TransferIntake`. The refinement maps the state of a key to the status of its first row,
  and the accounting under way to the keys of the busy `dispatch` entries. Initially only the rows of `PendingLogs` are
  there (`LogKeys`, `PendingRowType`). `HttpInv` makes `SaveTx` a `Store`: the key is unknown or pending, its first row gets the new status, and
  the same step starts the accounting (`SaveStores`). Every other step leaves the rows alone and can only end
  accounting, of one key or, in a crash, of all (`StopsAccounting`), or stutters.

`CheckpointProofs`, over http and over a web socket

- `CheckpointIsSafe`: no transfer still in the chain falls behind the checkpoint by more than the offset without a row, unless the node withholds
  a receipt. The checkpoint alone says nothing of the scan under way, so `CheckpointInv` adds `JobHasMissed`: while the
  job is in its loop, a transfer not stored and older than the checkpoint it will write is still to be handled, or is being handled. That holds when
  the loop starts because the scan begins an offset below the last checkpoint, behind which nothing is missing; a rejected
  invocation ends the job without a checkpoint. `BlocksBounded` keeps both checkpoints below the tip, so that a
  reorganisation or a lagging node, which concern the tip, cannot touch what is older; `FoundIsStored` says that an invocation
  that found a row need not insert one.
- `RefusedScanNeverChecks`, `RefusedScanStoresNothing`: what becomes of a start block below the offset. The job is refused before its loop, so
  no checkpoint is written that would raise the next start (`NeverScans`); over http no invocation, and so no accounting, ever begins
  (`NeverStores`). No run uses such a configuration.

### The accounting, over http

`SettlementProofs`

- `HttpSettledByRow`: a withdrawal is settled as success, or as failed, only if a payment of the manager with its hash is stored so. `SettleInv`
  carries the outcome along the way from the row to the task to `u_ols_myzc`: a task works on an outcome its row has
  (`DispatchedIsStored`), and a settled withdrawal has the row that settled it (`SettledIsStored`).
- `HttpSettledIsFinal`: it never changes afterwards, whatever reorganisations and later scans: only the row of its one payment can settle it, and
  that row is final.
- `TaskSteps` is the table of the transitions of an accounting, from which most of what follows is read off.

`Sums` proves, by induction over the subsets of a finite set, which inclusion orders well, that the fold of the
community modules computes what a sum should: the order does not matter, larger summands give larger sums, one changed
summand changes the sum by as much, and an injection bounds one sum by another.

`AccountingProofs`

- `HttpWalletBacked`: no wallet is charged or drawn for more than the stored confirmed transfers add up to, but for half a cent
  each, for any number of overlapping accountings, with crashes, rejections, NULLs and sums out of range. `Credit` counts a
  transfer from the moment its accounting has written, so that it only grows; `BackedInv` says that every wallet row, whether stored
  or already read by a task, is within it, and that no two tasks work on one transfer. The write of a stale row is then
  within it too. Over a web socket the property is false, as `received_twice` credits a transfer twice.
- `OnlyOverlapsShrink`: over http or a web socket, an amount falls only if two accountings held that wallet at once. `FreshUser`
  is the invariant: what a task holds is the current row. So the overlap that `lost_update` shows is the only way in which `addUserCoin` or
  `addUserDrawCoin` loses an amount. `HttpWalletNeverShrinks`: over http with `OneTransfer`, none does.
- `SerialDepositsCredited`, `HttpDepositsCredited`: with `NoLoss`, every confirmed deposit is in its wallet once accounting is
  quiet. `CreditedInv` bounds the wallet from below by what is written (`Paid`), as long as all that is due fits the column. A confirmed deposit leaves the
  accounting only by its write (`DepositIsWritten`), which `WalletBacked` and `DueGrows` show to fit, so that it is stored as
  it is but for rounding (`DepositIsAdded`).
- `HttpDepositsRecorded`: with `NoLoss`, the deposit records account for all that is charged. `RecordedInv` gives every confirmed
  deposit an event that is recorded or whose accounting has yet to insert the record; the events of different rows differ, so their
  records add up to the rows at least, and `HttpWalletBacked` does the rest. Overlaps do no harm here.

### Contract, sending and the whole

`MyTokenProofs`

- `TokenTypeCorrect`: balances, allowances and supply stay in a word. `NothingAtZero`: the zero address holds nothing and owns nothing.
- `Conservation`: the balances add up to the supply. The sum is stated by a function of prefix sums, so that a
  step needs no induction over a set: the lemmas `SumsDebit` and `SumsCredit` give the prefix sums after a step from those before it.
- `NoOverflow`: two balances are at most the sum of all, which is a word; so SafeMath's assertion in a transfer never fires.
- `SupplyIsOwners`: the supply falls only by `burn` and `burnFrom`, both of the owner.
- `FallsAreAuthorised`: a balance falls only by a call of its holder, or of a spender whose allowance falls by as much.

`TokenSendProofs`

- `SendTypeCorrect`: types, and that no account or holder pays more than it has. `SendInv` adds where a request stands relative to its calls, its answer
  and its transaction.
- `ErrorsMayBeRetried`: a request answered with an error has no transaction, unless the reply to its send was lost.
- `HashesAreKept`: the transaction of an answered hash is not replaced if the signer's requests wait for one another and none before was refused. `QueueInv` says
  that of two waiting requests the second reads the nonce after the first is over.
- `RevertsAreRaces`, `RefusalsAreRaces`: after a successful check of the balance, only another request of the same account makes the transfer revert, or the node refuse
  it. `RaceInv` and `NodeInv` say that until then the account still has what was checked (`IsCovered`, `IsPayable`).
- `SendsAreCalls`: what the routes, the pool and the chain do to the contract is what `MyToken` lets its callers do: the module implements it.

`BackendProofs`

- `RoutesImplemented`, `IntakeImplemented`: in the whole, the routes behave as `TokenSend` and the intake as `Web3Handler` says. The constants given to the
  parts satisfy their assumptions (`ContractIsAllowed`, `IntakeIsAllowed`), so what is proved of the parts holds of the whole. For `TokenSend`, whose theorems
  `BackendProofs` extends, tlapm checks that step; the theorems about an `INSTANCE` cannot be cited by name, so for
  `Web3Handler` and `MyToken` it is an argument on paper.
- `WithdrawalsArePaid`: on a chain without reorganisations, a withdrawal is settled only as success, and only when its tokens have moved. `PaidInv` follows a transfer from the contract over
  the chain's blocks, the rows and the tasks to `u_ols_myzc`: a reverted transaction has no event, so nothing of the intake stands for one.
- `LinksAreSent`: a hash in the site's record names a transaction in pool or chain, for the callers of `HashesAreKept`; `LinkInv` relates
  the record to the answer of the route.
- `CreditsHaveMoved`: on such a chain no wallet shows more charged or drawn than the contract has moved. Here the bound is exact, as the amounts of
  requests are whole cents (`Cents`), which rounding to cents leaves alone. The theorems of the parts do not give it: they bound a wallet by the rows, and
  may be cited of an `INSTANCE` only on paper. `CreditInv` therefore goes from the contract to the wallet: `Credit` counts the tokens of
  a request from when its row is stored and no accounting of it can still write (`Written`), so that it only grows; every wallet row, stored or
  held by a task, is within it (`Backed`, `Accounts`); and what is counted has moved (`WrittenHasMoved`), since `PaidInv` lets
  a row exist only for a transfer that did. A task's write takes its request out of `Writes` in the same step, so the amount it
  adds is counted then (`CreditAccounting`); a crash or a rejection counts an amount that is never added.

### Only model-checked

- `Answered`, `HashIsMined`, `MinedIsRecorded`, `LinkedIsSettled`: liveness under fairness, which the prover cannot reason about.
- Everything about the intake over a web socket but `TypeCorrect`, `CheckpointProofs` and `OnlyOverlapsShrink`: most of it is false there.

## 5. Not modelled

- Wallet creation and queries: no state, key derivation and reads.
- The HTTP chain of `app.ts`, error responses, logging, authentication (always `next()`), translation, resources: nothing is
  kept from one request to the next, and the translator is set and used without an `await` in between.
- Request validation: bound in `ioc.container.ts` 34-48, but no route lists it. If one did, `options.language`
  (`request.validation.ts:109`), which is shared and never reset, would answer one client in the language of another.
- `createAndSaveTransaction`, `updateTx`, `getTxByTxData`, `getUserCountByTxData`, `decUserLockedCoin`: no callers. Of the first the model has
  the rows it would have left before the server started (`PendingLogs`), not the call.
- Reorganisations of the server as a whole: the contract and the node's pool of `TokenSend` would have to be taken back with the blocks.
- A deposit lost by a crash between the save of its row and its accounting: the model has
  the step, but no property can promise what the code does not; it is listed as a hazard. The same holds for a second transfer
  between the same two addresses in one transaction. For the default start block two theorems say what happens, as no promise is left to check.

## 6. Plan

1. `Backend` over a web socket, with the connection of each part lost on its own.
