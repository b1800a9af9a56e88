---------------------------- MODULE Web3Handler ----------------------------
(***************************************************************************)
(* The token-transfer intake of src/src/events/handlers/web3.handler.ts:   *)
(* Transfer events of the token contract reach processTokenTransfer from a *)
(* live subscription and from the restore job; a transfer seen first is    *)
(* stored in the transaction table and dispatched, without being awaited,  *)
(* to the accounting of deposits, draws and withdrawals.                   *)
(*                                                                         *)
(* Node.js runs callbacks one at a time, so everything between two awaits  *)
(* is one action, and an action ends where the code awaits a reply of the  *)
(* Ethereum node, of MySQL or of Redis.                                    *)
(***************************************************************************)
EXTENDS TransactionService, WalletColumns, FiniteSetsExt

CONSTANTS
  Members,                  \* eth_address of the rows of u_ols_wallet
  NullMembers,              \* those whose amounts are NULL at first
  Manager,                  \* eth_address of row 1 of s_manager_wallet
  PendingLogs,              \* transfers that have a pending row before boot
  RpcType,                  \* config.rpc.type: "ws" or "http"
  WEB3_RESTORE_START_BLOCK, \* environment; 0 stands for unset
  WEB3_BLOCK_OFFSET,        \* environment; 0 is what .env sets
  Faults,                   \* kinds of fault the environment may inject
  MaxFaults,                \* bound on the number of injected faults
  MaxBlocks                 \* bound on the blocks mined after startBlock

FaultKinds == {"crash", "noDb", "wsclose", "reject", "null", "lag", "reorg"}

ASSUME DataAssumption ==
  /\ NullMembers \subseteq Members
  /\ PendingLogs \subseteq Logs
  /\ \A l \in PendingLogs : Decodes(TxData(l))

ASSUME ConfigAssumption ==
  /\ RpcType \in {"ws", "http"}
  /\ WEB3_RESTORE_START_BLOCK \in Nat /\ WEB3_BLOCK_OFFSET \in Nat
  /\ Faults \subseteq FaultKinds /\ MaxFaults \in Nat /\ MaxBlocks \in Nat

\* parseInt(x, 10) || default: a configured 0 is taken for unset.
startBlock ==
  IF WEB3_RESTORE_START_BLOCK # 0 THEN WEB3_RESTORE_START_BLOCK ELSE 1
blockOffset == IF WEB3_BLOCK_OFFSET # 0 THEN WEB3_BLOCK_OFFSET ELSE 200

Origins == {"live", "restore"}
Handlers == Logs \X Origins    \* an invocation of processTokenTransfer
Hashes == {TxHash[l] : l \in Logs}
Keys == {Key(l) : l \in Logs} \cup {SavedKey(l) : l \in PendingLogs}

VARIABLES
  height, block, reverted,  \* chain: tip, block of each log (0: none), and
                            \* the logs whose transaction now fails instead
  process,                  \* "down", "booting", "ready" or "noDb"
  conn, wire,               \* web socket, and the events it has in flight
  handler, dispatch, job,   \* in-memory tasks, lost by a crash
  rows,                     \* transaction table: rows of a key by id
  wallet, myzr, myzc,       \* u_ols_wallet, deposit and withdrawal records
  lastCheckedBlock,         \* Redis; 0 when the key is absent
  faults                    \* faults injected so far

chainVars == <<height, block, reverted>>
linkVars == <<process, conn, wire>>
moneyVars == <<wallet, myzr, myzc>>
vars == <<chainVars, linkVars, handler, dispatch, job, rows, moneyVars,
          lastCheckedBlock, faults>>

\* "none": no u_ols_myzc record has the hash; its other columns are the site's.
WithdrawalStatus == {"none", "sent", "success", "failed"}
Idle == [pc |-> "idle", tx |-> NoTx, status |-> "none"]
NoDispatch == [pc |-> "idle", tx |-> NoTx, user |-> NoUser]
NoJob == [pc |-> "idle", currentBlock |-> 0, events |-> {}]

HandlerState ==
  [pc : {"idle", "find", "receipt", "save", "hung"},
   tx : Row \cup {NoTx}, status : {"none", "confirmed", "failed"}]
DispatchState ==
  [pc : {"idle", "route", "charge", "both", "wallet", "record",
         "transfer", "draw", "withdraw", "settle"},
   tx : Row \cup {NoTx}, user : WalletRow]
JobState ==
  [pc : {"idle", "fetch", "loop", "hung"}, currentBlock : Nat,
   events : SUBSET (Logs \X Nat)]

TypeOK ==
  /\ height \in Nat /\ block \in [Logs -> Nat] /\ reverted \subseteq Logs
  /\ process \in {"down", "booting", "ready", "noDb"}
  /\ conn \in {"open", "closed"} /\ wire \subseteq Logs
  /\ handler \in [Handlers -> HandlerState]
  /\ dispatch \in [Handlers -> DispatchState]
  /\ job \in JobState
  /\ rows \in [Keys -> Seq(Row)]
  /\ wallet \in [Members -> WalletRow]
  /\ myzr \in [Logs -> Nat]
  /\ myzc \in [Hashes -> WithdrawalStatus]
  /\ lastCheckedBlock \in Nat
  /\ faults \in Nat

\* At boot the IoC container builds the handler, which subscribes and starts
\* the job worker before createConnection has answered.  No code of the
\* repository calls createAndSaveTransaction, so no row is saved as pending
\* later; PendingLogs are rows that a caller outside it left in the table.
Init ==
  /\ height = startBlock
  /\ block = [l \in Logs |-> 0] /\ reverted = {}
  /\ process = "booting" /\ conn = "open" /\ wire = {}
  /\ handler = [h \in Handlers |-> Idle]
  /\ dispatch = [h \in Handlers |-> NoDispatch]
  /\ job = NoJob
  /\ rows = [k \in Keys |->
       IF \E l \in PendingLogs : SavedKey(l) = k
       THEN <<PendingRow(CHOOSE l \in PendingLogs : SavedKey(l) = k)>> ELSE <<>>]
  /\ wallet = [m \in Members |-> IF m \in NullMembers THEN NullUser ELSE NoUser]
  /\ myzr = [l \in Logs |-> 0]
  /\ myzc = [x \in Hashes |-> "none"]
  /\ lastCheckedBlock = 0
  /\ faults = 0

Fault(kind) == kind \in Faults /\ faults < MaxFaults /\ faults' = faults + 1

Running == process # "down"
RpcUp == RpcType = "http" \/ conn = "open"
\* Mutant: attachHandlers is called for every type of connection.
SubscribedAlways == Running /\ conn = "open"
Subscribed == RpcType = "ws" /\ Running /\ conn = "open"

-----------------------------------------------------------------------------
(* The chain and the site's own application: outside the repository.       *)

SameTransaction(S) ==
  \A l \in S, k \in Logs : TxHash[k] = TxHash[l] => k \in S

NewBlock(S) ==
  /\ height < startBlock + MaxBlocks
  /\ \A l \in S : block[l] = 0
  /\ SameTransaction(S)
  /\ height' = height + 1
  /\ block' = [l \in Logs |-> IF l \in S THEN height + 1 ELSE block[l]]
  /\ wire' = IF Subscribed THEN wire \cup S ELSE wire
  /\ UNCHANGED <<reverted, process, conn, handler, dispatch, job, rows,
                 moneyVars, lastCheckedBlock, faults>>

\* The tip block is replaced: K is included again (and announced again), the
\* transactions of F are included but fail, the others leave the chain.
Reorg(K, F) ==
  LET tip == {l \in Logs : block[l] = height /\ l \notin reverted} IN
  /\ Fault("reorg")
  /\ tip # {} /\ K \subseteq tip /\ F \subseteq tip \ K
  /\ SameTransaction(K) /\ SameTransaction(F)
  /\ block' = [l \in Logs |-> IF l \in tip \ (K \cup F) THEN 0 ELSE block[l]]
  /\ reverted' = reverted \cup F
  /\ wire' = IF Subscribed THEN wire \cup K ELSE wire
  /\ UNCHANGED <<height, process, conn, handler, dispatch, job, rows,
                 moneyVars, lastCheckedBlock>>

\* The site stores the hash answered by /wallet/sendtokenfromadmin in the
\* u_ols_myzc record of a withdrawal, at a time of its own choosing.
LinkWithdrawal(x) ==
  /\ myzc[x] = "none"
  /\ \E l \in Logs : TxHash[l] = x /\ Sender[l] = Manager
  /\ myzc' = [myzc EXCEPT ![x] = "sent"]
  /\ UNCHANGED <<chainVars, linkVars, handler, dispatch, job, rows, wallet,
                 myzr, lastCheckedBlock, faults>>

Receipt(l) ==
  IF block[l] = 0 THEN "null"
  ELSE IF l \in reverted THEN "failed" ELSE "confirmed"

-----------------------------------------------------------------------------
(* processTokenTransfer: findOne, getTransactionReceipt, save.             *)

\* A rejected promise ends the invocation; in the job it fails the job.
Reject(h) ==
  /\ handler' = [handler EXCEPT ![h] = Idle]
  /\ job' = IF h[2] = "restore" THEN NoJob ELSE job

\* An event announced again (by a reorganisation) while its first invocation
\* runs waits here; an invocation whose reply never comes does not hold it up.
Deliver(l) ==
  /\ Subscribed /\ l \in wire
  /\ handler[<<l, "live">>].pc \in {"idle", "hung"}
  /\ wire' = wire \ {l}
  /\ handler' = [handler EXCEPT ![<<l, "live">>] = [Idle EXCEPT !.pc = "find"]]
  /\ UNCHANGED <<chainVars, process, conn, dispatch, job, rows, moneyVars,
                 lastCheckedBlock, faults>>

\* Mutant: only pending rows are looked up.
FoundPendingTx(k) ==
  IF rows[k] = <<>> \/ Head(rows[k]).status # "pending" THEN NoTx ELSE Head(rows[k])

FoundTx(k) == IF rows[k] = <<>> THEN NoTx ELSE Head(rows[k])

FindTx(h) ==
  /\ handler[h].pc = "find"
  /\ \/ /\ process = "ready"
        /\ handler' = [handler EXCEPT
             ![h] = [@ EXCEPT !.pc = "receipt", !.tx = FoundTx(Key(h[1]))]]
        /\ UNCHANGED job
     \/ process # "ready" /\ Reject(h)    \* getConnection() throws
  /\ UNCHANGED <<chainVars, linkVars, dispatch, rows, moneyVars,
                 lastCheckedBlock, faults>>

\* An event whose receipt the node does not have is dropped without error.
GetReceipt(h) ==
  /\ handler[h].pc = "receipt"
  /\ \/ /\ RpcUp /\ Receipt(h[1]) # "null"
        /\ handler' = [handler EXCEPT
             ![h] = [@ EXCEPT !.pc = "save", !.status = Receipt(h[1])]]
        /\ UNCHANGED <<job, faults>>
     \/ /\ RpcUp /\ Receipt(h[1]) = "null"
        /\ handler' = [handler EXCEPT ![h] = Idle]
        /\ UNCHANGED <<job, faults>>
     \/ /\ RpcUp /\ Receipt(h[1]) # "null" /\ Fault("null")
        /\ handler' = [handler EXCEPT ![h] = Idle]
        /\ UNCHANGED job
     \/ ~RpcUp /\ Reject(h) /\ UNCHANGED faults
  /\ UNCHANGED <<chainVars, linkVars, dispatch, rows, moneyVars,
                 lastCheckedBlock>>

StartDispatch(h, row) ==
  dispatch' = [dispatch EXCEPT
                 ![h] = [pc |-> "route", tx |-> row, user |-> NoUser]]

\* Mutant: the else branch of "if (!tx)" without its condition.
IsStored(tx) == tx # NoTx
IsPending(tx) == tx.status = "pending"

SaveTx(h) ==
  LET k == Key(h[1])
      tx == handler[h].tx
      inserted == [status |-> handler[h].status, tokenAmount |-> Value[h[1]]]
      updated == [tx EXCEPT !.status = handler[h].status]
  IN
  /\ handler[h].pc = "save"
  /\ handler' = [handler EXCEPT ![h] = Idle]
  /\ \/ /\ tx = NoTx
        /\ rows' = [rows EXCEPT ![k] = Append(@, inserted)]
        /\ StartDispatch(h, inserted)
     \/ /\ IsPending(tx)
        /\ rows' = [rows EXCEPT ![k][1] = updated]
        /\ StartDispatch(h, updated)
     \/ /\ tx # NoTx /\ ~IsPending(tx)
        /\ UNCHANGED <<rows, dispatch>>
  /\ UNCHANGED <<chainVars, linkVars, job, moneyVars, lastCheckedBlock, faults>>

RejectHandler(h) ==
  /\ handler[h].pc \in {"find", "receipt", "save"}
  /\ Fault("reject") /\ Reject(h)
  /\ UNCHANGED <<chainVars, linkVars, dispatch, rows, moneyVars,
                 lastCheckedBlock>>

-----------------------------------------------------------------------------
(* processReceivedEthOrToken and the three kinds of accounting.            *)

Dispatching(h, pc) ==
  /\ dispatch[h].pc = pc
  /\ UNCHANGED <<chainVars, linkVars, handler, job, rows, lastCheckedBlock>>

DispatchTo(h, pc) == dispatch' = [dispatch EXCEPT ![h].pc = pc]
EndDispatch(h) == dispatch' = [dispatch EXCEPT ![h] = NoDispatch]

\* checkMemberAddress returns a promise that is not awaited: it is always
\* true as a condition, so only the manager's address decides.
\* Mutant: a manager's transfer is not tested for its receiver.
RouteBySender(h) ==
  /\ Dispatching(h, "route")
  /\ DispatchTo(h, IF Sender[h[1]] # Manager THEN "charge" ELSE "transfer")
  /\ UNCHANGED <<moneyVars, faults>>

Route(h) ==
  /\ Dispatching(h, "route")
  /\ DispatchTo(h, IF Sender[h[1]] # Manager THEN "charge"
                   ELSE IF Receiver[h[1]] = Manager THEN "transfer"
                   ELSE "withdraw")
  /\ UNCHANGED <<moneyVars, faults>>

\* processChargeEthOrToken loads the receiver's wallet row; addUserCoin and
\* the save of the deposit record then run concurrently.
Charge(h) ==
  /\ Dispatching(h, "charge")
  /\ IF dispatch[h].tx.status = "confirmed" /\ Receiver[h[1]] \in Members
     THEN dispatch' = [dispatch EXCEPT ![h] =
            [@ EXCEPT !.pc = "both", !.user = wallet[Receiver[h[1]]]]]
     ELSE EndDispatch(h)
  /\ UNCHANGED <<moneyVars, faults>>

\* One of the two concurrent writes settles; the other may be outstanding.
\* Mutant: whichever write settles first ends the accounting.
FinishFirst(h, other) == other # "idle" /\ EndDispatch(h)
FinishWrite(h, other) ==
  IF dispatch[h].pc = "both" THEN DispatchTo(h, other) ELSE EndDispatch(h)

\* Mutant: the amount is taken off, as decUserLockedCoin does.
decUserCoin(h) ==
  /\ Dispatching(h, "both") \/ Dispatching(h, "wallet")
  /\ wallet' = [wallet EXCEPT ![Receiver[h[1]]] =
       [dispatch[h].user EXCEPT !.charge_amount = @ - dispatch[h].tx.tokenAmount]]
  /\ FinishWrite(h, "record")
  /\ UNCHANGED <<myzr, myzc, faults>>

addUserCoin(h) ==
  LET user == dispatch[h].user
      charge_amount == parsePlus(user.charge_amount, dispatch[h].tx.tokenAmount)
      token_amount == parsePlus(user.amount, dispatch[h].tx.tokenAmount)
  IN
  /\ Dispatching(h, "both") \/ Dispatching(h, "wallet")
  /\ wallet' = IF Refused(charge_amount) \/ Refused(token_amount) THEN wallet
       ELSE [wallet EXCEPT ![Receiver[h[1]]] =
               [user EXCEPT !.charge_amount = Stored(charge_amount),
                            !.amount = Stored(token_amount)]]
  /\ FinishWrite(h, "record")
  /\ UNCHANGED <<myzr, myzc, faults>>

\* Columns of u_ols_myzr that are NOT NULL without a default, and the fields of
\* the record that is built: strict mode rejects an insert that lacks some.
RequiredColumns == {"u_user_id", "addr", "num", "created_at", "status"}
myzrData == {"userid", "username", "coinname", "type", "txid", "num", "mum",
             "fee", "addtime", "status"}
InsertFails == StrictSql /\ ~(RequiredColumns \subseteq myzrData)

InsertMyzr(h) ==
  /\ Dispatching(h, "both") \/ Dispatching(h, "record")
  /\ myzr' = IF InsertFails THEN myzr ELSE [myzr EXCEPT ![h[1]] = @ + 1]
  /\ FinishWrite(h, "wallet")
  /\ UNCHANGED <<wallet, myzc, faults>>

\* processTransferEthOrToken loads the sender's wallet row.
Transfer(h) ==
  /\ Dispatching(h, "transfer")
  /\ IF dispatch[h].tx.status = "confirmed" /\ Sender[h[1]] \in Members
     THEN dispatch' = [dispatch EXCEPT ![h] =
            [@ EXCEPT !.pc = "draw", !.user = wallet[Sender[h[1]]]]]
     ELSE EndDispatch(h)
  /\ UNCHANGED <<moneyVars, faults>>

addUserDrawCoin(h) ==
  LET user == dispatch[h].user
      draw_amount == parsePlus(user.draw_amount, dispatch[h].tx.tokenAmount)
  IN
  /\ Dispatching(h, "draw")
  /\ wallet' = IF Refused(draw_amount) THEN wallet
       ELSE [wallet EXCEPT ![Sender[h[1]]] =
               [user EXCEPT !.draw_amount = Stored(draw_amount)]]
  /\ EndDispatch(h)
  /\ UNCHANGED <<myzr, myzc, faults>>

\* processWithdrawEthOrToken looks the withdrawal up by its hash, then saves it.
\* Mutant: it is looked up by its status.
OpenWithdrawals(h) == {x \in Hashes : myzc[x] = "sent"}
FoundWithdrawals(h) == {x \in Hashes : x = TxHash[h[1]] /\ myzc[x] # "none"}

Withdraw(h) ==
  /\ Dispatching(h, "withdraw")
  /\ IF FoundWithdrawals(h) = {} THEN EndDispatch(h) ELSE DispatchTo(h, "settle")
  /\ UNCHANGED <<moneyVars, faults>>

\* Mutant: every withdrawal succeeds.
SettleSuccess(h) ==
  /\ Dispatching(h, "settle")
  /\ myzc' = [myzc EXCEPT ![TxHash[h[1]]] = "success"]
  /\ EndDispatch(h)
  /\ UNCHANGED <<wallet, myzr, faults>>

Settle(h) ==
  /\ Dispatching(h, "settle")
  /\ LET status == IF dispatch[h].tx.status = "confirmed" THEN "success" ELSE "failed"
     IN  myzc' = [x \in Hashes |-> IF x \in FoundWithdrawals(h) THEN status ELSE myzc[x]]
  /\ EndDispatch(h)
  /\ UNCHANGED <<wallet, myzr, faults>>

\* A rejection of one of the two concurrent writes leaves the other alone.
RejectDispatch(h) ==
  /\ dispatch[h].pc # "idle" /\ Dispatching(h, dispatch[h].pc)
  /\ Fault("reject")
  /\ IF dispatch[h].pc = "both" THEN \E pc \in {"wallet", "record"} : DispatchTo(h, pc)
     ELSE EndDispatch(h)
  /\ UNCHANGED moneyVars

-----------------------------------------------------------------------------
(* checkAndRestoreTransactions, a Bull job repeated every ten minutes with *)
(* a concurrency of one.                                                   *)

Restoring(pc) ==
  /\ Running /\ job.pc = pc
  /\ \A l \in Logs : handler[<<l, "restore">>] = Idle
  /\ UNCHANGED <<chainVars, linkVars, dispatch, rows, moneyVars>>

JobStart ==
  /\ Restoring("idle") /\ RpcUp
  /\ job' = [job EXCEPT !.pc = "fetch", !.currentBlock = height]
  /\ UNCHANGED <<handler, lastCheckedBlock, faults>>

\* Redis holds the head read when the job began, not the last block seen.
\* Mutant: the head is read again when the job ends.
checkpointAtEnd == height
checkpoint == job.currentBlock

\* Mutant: the scan resumes at the checkpoint, without the offset.
fromCheckpoint == IF lastCheckedBlock # 0 THEN lastCheckedBlock ELSE startBlock

fromBlock ==
  (IF lastCheckedBlock # 0 THEN lastCheckedBlock ELSE startBlock) - blockOffset

Scan(upTo) ==
  {e \in {<<l, block[l]>> : l \in Logs \ reverted} :
     e[2] # 0 /\ fromBlock <= e[2] /\ e[2] <= upTo}

\* A negative block number is refused by the node. A lagging node ("lag")
\* does not return the events of the tip yet.
JobFetch ==
  /\ Restoring("fetch")
  /\ \/ /\ RpcUp /\ fromBlock >= 0
        /\ job' = [job EXCEPT !.pc = "loop", !.events = Scan(height)]
        /\ UNCHANGED faults
     \/ /\ RpcUp /\ fromBlock >= 0 /\ Fault("lag")
        /\ job' = [job EXCEPT !.pc = "loop", !.events = Scan(height - 1)]
     \/ (RpcUp => fromBlock < 0) /\ job' = NoJob /\ UNCHANGED faults
  /\ UNCHANGED <<handler, lastCheckedBlock>>

\* Events are handled in block order, each awaited before the next.
JobNext(e) ==
  /\ Restoring("loop")
  /\ e \in job.events /\ \A d \in job.events : e[2] <= d[2]
  /\ job' = [job EXCEPT !.events = @ \ {e}]
  /\ handler' = [handler EXCEPT ![<<e[1], "restore">>].pc = "find"]
  /\ UNCHANGED <<lastCheckedBlock, faults>>

JobDone ==
  /\ Restoring("loop") /\ job.events = {}
  /\ lastCheckedBlock' = checkpoint
  /\ job' = NoJob
  /\ UNCHANGED <<handler, faults>>

\* One of the job's own awaits is rejected and fails the job: the Redis GET,
\* getPastEvents, or the Redis SET, which may have been executed all the same.
\* A rejected getBlockNumber leaves nothing behind.
RejectJob ==
  /\ Restoring(job.pc) /\ Fault("reject")
  /\ job' = NoJob
  /\ \/ job.pc = "fetch" /\ UNCHANGED lastCheckedBlock
     \/ job.pc = "loop" /\ job.events = {}
          /\ lastCheckedBlock' \in {lastCheckedBlock, checkpoint}
  /\ UNCHANGED handler

-----------------------------------------------------------------------------
(* Connection loss, crash and restart.                                     *)

\* The handler replaces the provider's onclose, so a call whose reply is
\* outstanding when the socket closes may never be settled: any subset
\* of them hangs.
WsClose ==
  /\ Fault("wsclose") /\ Subscribed
  /\ conn' = "closed" /\ wire' = {}
  /\ \E H \in SUBSET {h \in Handlers : handler[h].pc = "receipt"} :
       handler' = [h \in Handlers |->
         IF h \in H THEN [Idle EXCEPT !.pc = "hung"] ELSE handler[h]]
  /\ job' \in {job} \cup
       (IF job.pc \in {"idle", "fetch"} THEN {[NoJob EXCEPT !.pc = "hung"]} ELSE {})
  /\ UNCHANGED <<chainVars, process, dispatch, rows, moneyVars,
                 lastCheckedBlock>>

\* onWsClose: new provider, new contract object, new subscription.
Reconnect ==
  /\ Running /\ conn = "closed"
  /\ conn' = "open"
  /\ UNCHANGED <<chainVars, process, wire, handler, dispatch, job, rows,
                 moneyVars, lastCheckedBlock, faults>>

Crash ==
  /\ Fault("crash") /\ Running
  /\ process' = "down" /\ conn' = "closed" /\ wire' = {}
  /\ handler' = [h \in Handlers |-> Idle]
  /\ dispatch' = [h \in Handlers |-> NoDispatch]
  /\ job' = NoJob
  /\ UNCHANGED <<chainVars, rows, moneyVars, lastCheckedBlock>>

Restart ==
  /\ process = "down"
  /\ process' = "booting" /\ conn' = "open"
  /\ UNCHANGED <<chainVars, wire, handler, dispatch, job, rows, moneyVars,
                 lastCheckedBlock, faults>>

\* createConnection answers; a failure is logged and not retried.
CreateConnection ==
  /\ process = "booting"
  /\ \/ process' = "ready" /\ UNCHANGED faults
     \/ process' = "noDb" /\ Fault("noDb")
  /\ UNCHANGED <<chainVars, conn, wire, handler, dispatch, job, rows,
                 moneyVars, lastCheckedBlock>>

-----------------------------------------------------------------------------
HandlerStep(h) == FindTx(h) \/ GetReceipt(h) \/ SaveTx(h)
DispatchStep(h) ==
  \/ Route(h) \/ Charge(h) \/ addUserCoin(h) \/ InsertMyzr(h)
  \/ Transfer(h) \/ addUserDrawCoin(h) \/ Withdraw(h) \/ Settle(h)
JobStep == JobStart \/ JobFetch \/ JobDone \/ \E e \in job.events : JobNext(e)

Next ==
  \/ \E S \in SUBSET Logs : NewBlock(S)
  \/ \E K, F \in SUBSET Logs : Reorg(K, F)
  \/ \E x \in Hashes : LinkWithdrawal(x)
  \/ \E l \in Logs : Deliver(l)
  \/ \E h \in Handlers : HandlerStep(h) \/ RejectHandler(h)
  \/ \E h \in Handlers : DispatchStep(h) \/ RejectDispatch(h)
  \/ JobStep \/ RejectJob
  \/ WsClose \/ Reconnect \/ Crash \/ Restart \/ CreateConnection

Spec == Init /\ [][Next]_vars

\* The event loop, the repeated job, the reconnect timer and the operator
\* who restarts the process; the chain and the site promise nothing.
Fairness ==
  /\ \A l \in Logs : WF_vars(Deliver(l))
  /\ \A h \in Handlers : WF_vars(HandlerStep(h)) /\ WF_vars(DispatchStep(h))
  /\ WF_vars(JobStep)
  /\ WF_vars(Reconnect) /\ WF_vars(Restart) /\ WF_vars(CreateConnection)

FairSpec == Spec /\ Fairness

-----------------------------------------------------------------------------
(* Safety of the transaction table.                                        *)

\* With the restore job as the only source of events, the find-then-insert of
\* processTokenTransfer never stores a transfer twice.
UniqueRows == \A k \in Keys : Len(rows[k]) <= 1

\* With the restore job as the only source of events, the row an invocation
\* looked up is still the current one when it saves, two awaits later.
FreshLookup ==
  \A h \in Handlers :
    handler[h].pc \in {"receipt", "save"} => handler[h].tx = FoundTx(Key(h[1]))

Accounted(k) == \E i \in DOMAIN rows[k] : rows[k][i].status # "pending"

\* processReceivedEthOrToken is for new transfers: it starts only for a key
\* none of whose rows was confirmed or failed before.
DispatchIsNew ==
  [][\A h \in Handlers :
       dispatch[h].pc = "idle" /\ dispatch'[h].pc = "route"
         => ~Accounted(Key(h[1]))]_vars

\* A confirmed or failed row keeps its status: neither a reorganisation nor a
\* task that still holds the pending row overwrites it.
RowIsFinal ==
  [][\A k \in Keys : \A i \in DOMAIN rows[k] :
       rows[k][i].status # "pending" => rows'[k][i] = rows[k][i]]_vars

\* The checkpoint in Redis moves past a block by more than blockOffset only
\* when the transfers of that block are in the table, whatever crashes,
\* rejections, lagging answers and reorganisations occurred.
CheckpointSafe ==
  \A l \in Logs \ reverted :
    block[l] # 0 /\ block[l] < lastCheckedBlock - blockOffset
      => rows[Key(l)] # <<>>

-----------------------------------------------------------------------------
(* Over http the intake keeps the promise of TransferIntake.               *)

StateOf(k) == IF rows[k] = <<>> THEN "unknown" ELSE Head(rows[k]).status

Intake == INSTANCE TransferIntake WITH
  Transfers <- Keys,
  Known <- {SavedKey(l) : l \in PendingLogs},
  state <- [k \in Keys |-> StateOf(k)],
  accounting <- {Key(h[1]) : h \in {g \in Handlers : dispatch[g].pc # "idle"}}

\* Fed by the restore job alone, every transfer is stored and dispatched as in
\* TransferIntake: by one step, once.
ImplementsIntake == Intake!Spec

-----------------------------------------------------------------------------
(* Safety of the accounting.                                               *)

ConfirmedRows(k) == {i \in DOMAIN rows[k] : rows[k][i].status = "confirmed"}
RowTotal(k) == MapThenSumSet(LAMBDA i : rows[k][i].tokenAmount, ConfirmedRows(k))
\* Rounding to two decimals may add or lose half a cent per transfer.
HalfCents(K) ==
  5 * Cardinality({k \in K : ConfirmedRows(k) # {}})
DepositKeys(m) == {k \in Keys : k[3] = m /\ k[2] # Manager}
DrawKeys(m) == {k \in Keys : k[2] = m /\ k[3] = Manager}
DepositTotal(m) == MapThenSumSet(RowTotal, DepositKeys(m))
DrawTotal(m) == MapThenSumSet(RowTotal, DrawKeys(m))

\* No member is ever charged more than the confirmed transfers from others
\* than the manager add up to, but for rounding: nothing is credited twice,
\* from a failed transfer or from a withdrawal, however the writes of
\* addUserCoin and addUserDrawCoin overlap, and whatever NULL or out-of-range
\* columns they meet.
WalletBackedByRows ==
  \A m \in Members :
    /\ wallet[m].charge_amount <= DepositTotal(m) + HalfCents(DepositKeys(m))
    /\ wallet[m].draw_amount <= DrawTotal(m) + HalfCents(DrawKeys(m))

Quiet == \A h \in Handlers : dispatch[h].pc = "idle"

\* When no accounting is under way every confirmed deposit of a member has
\* been added to the wallet, but for rounding: promised for columns that are
\* not NULL and can hold the sum, and while no two accountings hold the same
\* wallet, as they do not if each member has one deposit.
DepositsCredited ==
  Quiet => \A m \in Members \ NullMembers :
    DepositTotal(m) + HalfCents(DepositKeys(m)) <= MaxColumn =>
      wallet[m].charge_amount >= DepositTotal(m) - HalfCents(DepositKeys(m))

\* processWithdrawEthOrToken answers success only for a withdrawal one of
\* whose transfers is stored as confirmed, and failed for one stored as failed.
SettledByRow ==
  \A x \in Hashes :
    /\ myzc[x] = "success" =>
         \E k \in Keys : k[1] = x /\ k[2] = Manager /\ ConfirmedRows(k) # {}
    /\ myzc[x] = "failed" =>
         \E k \in Keys : /\ k[1] = x /\ k[2] = Manager
                         /\ \E i \in DOMAIN rows[k] : rows[k][i].status = "failed"

\* A settled withdrawal stays settled the way it is.
SettledIsFinal ==
  [][\A x \in Hashes : myzc[x] \in {"success", "failed"} => myzc'[x] = myzc[x]]_vars

\* When no accounting is under way the deposit records, which keep eight
\* decimals, account for all that was charged to a member but for rounding.
MyzrTotal(m) ==
  MapThenSumSet(LAMBDA l : myzr[l] * Value[l], {l \in Logs : Receiver[l] = m})
DepositsRecorded ==
  Quiet => \A m \in Members :
    wallet[m].charge_amount <= MyzrTotal(m) + HalfCents(DepositKeys(m))

\* addUserCoin (helpers.ts) says it increases the amounts of a wallet, and
\* addUserDrawCoin adds as well: no write of theirs lowers one.
WalletNeverShrinks ==
  [][\A m \in Members :
       /\ wallet'[m].charge_amount >= wallet[m].charge_amount
       /\ wallet'[m].draw_amount >= wallet[m].draw_amount]_vars

\* A confirmed transfer from a member's wallet to the manager's is recorded in
\* the member's draw_amount once no accounting is under way.
PaymentIsDrawn ==
  Quiet => \A m \in Members \ {Manager} : wallet[m].draw_amount = DrawTotal(m)

-----------------------------------------------------------------------------
(* Liveness.                                                               *)

RestoreHangs ==
  job.pc = "hung" \/ \E l \in Logs : handler[<<l, "restore">>].pc = "hung"

\* A mined transfer is stored in the end, unless it leaves the chain or the
\* restore job waits for a reply lost with its connection.
MinedIsRecorded ==
  \A l \in Logs :
    block[l] # 0 ~> \/ rows[Key(l)] # <<>>
                    \/ block[l] = 0 \/ l \in reverted
                    \/ RestoreHangs

\* A withdrawal linked before its transfer is stored as confirmed or failed is
\* settled once the transfer is mined.
LinkedIsSettled ==
  \A l \in Logs :
    /\ Sender[l] = Manager /\ myzc[TxHash[l]] = "sent"
    /\ block[l] # 0 /\ ~Accounted(Key(l))
    ~> \/ myzc[TxHash[l]] \in {"success", "failed"}
       \/ block[l] = 0 \/ l \in reverted
=============================================================================
