-------------------------- MODULE Web3HandlerProofs --------------------------
(***************************************************************************)
(* Theorems about Web3Handler, for every value of its constants.           *)
(***************************************************************************)
EXTENDS Web3Handler, SequenceTheorems, TLAPS

LEMMA ConfigInNat == startBlock \in Nat /\ blockOffset \in Nat
BY ConfigAssumption DEF startBlock, blockOffset

\* Replacing the first element of a sequence keeps it a sequence of rows.
LEMMA ExceptFirst ==
  ASSUME NEW s \in Seq(Row), NEW x \in Row
  PROVE  [s EXCEPT ![1] = x] \in Seq(Row)
<1>1. CASE s = <<>>
  <2>1. DOMAIN s = {}
    BY <1>1
  <2>2. [s EXCEPT ![1] = x] = [i \in DOMAIN s |-> s[i]]
    BY <2>1, Zenon
  <2>3. s \in [DOMAIN s -> Row]
    BY <2>1, <1>1
  <2>4. [i \in DOMAIN s |-> s[i]] = s
    BY <2>3, Zenon
  <2> QED
    BY <2>2, <2>4
<1>2. CASE s # <<>>
  BY <1>2, ExceptSeq
<1> QED
  BY <1>1, <1>2

LEMMA FoundTxType ==
  ASSUME rows \in [Keys -> Seq(Row)], NEW k \in Keys
  PROVE  /\ FoundTx(k) \in Row \cup {NoTx}
         /\ FoundTx(k) = NoTx <=> rows[k] = <<>>
<1>1. NoTx \notin Row
  BY DEF NoTx, Row, Status
<1>2. rows[k] # <<>> => Head(rows[k]) \in Row
  OBVIOUS
<1> QED
  BY <1>1, <1>2 DEF FoundTx

-----------------------------------------------------------------------------
(* The data an invocation works on.                                        *)

LEMMA LogKeys ==
  /\ \A h \in Handlers : h[1] \in Logs /\ Key(h[1]) \in Keys
  /\ \A l \in PendingLogs : SavedKey(l) \in Keys
BY DEF Handlers, Keys

\* What the node decodes of a transaction is a row of the table.
LEMMA PendingRowType ==
  ASSUME NEW l \in PendingLogs
  PROVE  PendingRow(l) \in Row
<1>1. Value[l] \in Nat
  BY LogsAssumption, DataAssumption
<1>2. ASSUME NEW type
      PROVE  getFromToTokenAmountByTxDataAndType(TxData(l), type).tokenAmount \in Nat
  BY <1>1 DEF getFromToTokenAmountByTxDataAndType, TxData
<1> QED
  BY <1>2 DEF PendingRow, Row, Status

LEMMA NewWallets == NoUser \in WalletRow /\ NullUser \in WalletRow
BY ColumnAssumption DEF NoUser, NullUser, WalletRow, Column, NULL

\* A column keeps its range whatever amount is added to it.
LEMMA StoredType ==
  ASSUME NEW c \in Column, NEW a \in Nat
  PROVE  Stored(parsePlus(c, a)) \in Column
<1>1. MaxColumn \in Nat
  BY ColumnAssumption
<1>2. ASSUME NEW v \in Nat
      PROVE  Rounded(v) \in Nat
  BY <1>2 DEF Rounded
<1>3. CASE c = NULL
  BY <1>1, <1>3 DEF Stored, parsePlus, Column, NULL
<1>4. CASE c # NULL
  <2>1. parsePlus(c, a) \in Nat
    BY <1>1, <1>4 DEF parsePlus, Column, NULL
  <2>2. Rounded(parsePlus(c, a)) \in Nat
    BY <1>2, <2>1
  <2> HIDE DEF parsePlus
  <2> QED
    BY <1>1, <2>1, <2>2 DEF Stored, Column, NULL
<1> QED
  BY <1>3, <1>4

-----------------------------------------------------------------------------
(* Type correctness.  The status saved by SaveTx is the one GetReceipt got. *)

TypeInv ==
  /\ TypeOK
  /\ \A h \in Handlers : handler[h].pc = "save" => handler[h].status # "none"

LEMMA TypeInit == Init => TypeInv
<1> SUFFICES ASSUME Init PROVE TypeInv
  OBVIOUS
<1> USE DEF Init
<1>1. handler \in [Handlers -> HandlerState]
  BY DEF HandlerState, Idle
<1>2. dispatch \in [Handlers -> DispatchState]
  BY NewWallets DEF DispatchState, NoDispatch
<1>3. job \in JobState
  BY DEF JobState, NoJob
<1>4. rows \in [Keys -> Seq(Row)]
  <2>1. ASSUME NEW k \in Keys, \E l \in PendingLogs : SavedKey(l) = k
        PROVE  PendingRow(CHOOSE l \in PendingLogs : SavedKey(l) = k) \in Row
    BY <2>1, PendingRowType
  <2> QED
    BY <2>1
<1>5. wallet \in [Members -> WalletRow]
  BY NewWallets
<1>6. height \in Nat
  BY ConfigInNat
<1> QED
  BY <1>1, <1>2, <1>3, <1>4, <1>5, <1>6 DEF TypeInv, TypeOK, Idle, WithdrawalStatus

\* A rejected invocation leaves well-typed state behind.
LEMMA RejectType ==
  ASSUME TypeInv, NEW h \in Handlers, Reject(h)
  PROVE  /\ handler' \in [Handlers -> HandlerState]
         /\ \A g \in Handlers :
              handler'[g].pc = "save" => handler'[g].status # "none"
         /\ job' \in JobState
<1>1. Idle \in HandlerState /\ Idle.pc = "idle" /\ NoJob \in JobState
  BY DEF Idle, NoJob, HandlerState, JobState
<1>2. handler' = [handler EXCEPT ![h] = Idle] /\ job' \in {job, NoJob}
  BY DEF Reject
<1> QED
  BY <1>1, <1>2 DEF TypeInv, TypeOK

\* What one invocation of processTokenTransfer may change.
LEMMA TypeHandlerStep ==
  ASSUME TypeInv, NEW h \in Handlers, HandlerStep(h) \/ RejectHandler(h)
  PROVE  TypeInv'
<1> USE DEF chainVars, linkVars, moneyVars
<1>0. h[1] \in Logs /\ Key(h[1]) \in Keys
  BY LogKeys
<1>1. ASSUME Reject(h), faults' \in Nat,
             UNCHANGED <<chainVars, linkVars, dispatch, rows, moneyVars, lastCheckedBlock>>
      PROVE  TypeInv'
  BY <1>1, RejectType DEF TypeInv, TypeOK
<1>2. ASSUME NEW s \in HandlerState, s.pc = "save" => s.status # "none",
             handler' = [handler EXCEPT ![h] = s], faults' \in Nat,
             UNCHANGED <<chainVars, linkVars, dispatch, job, rows, moneyVars, lastCheckedBlock>>
      PROVE  TypeInv'
  BY <1>2 DEF TypeInv, TypeOK
<1> DEFINE found == [handler[h] EXCEPT !.pc = "receipt", !.tx = FoundTx(Key(h[1]))]
           got == [handler[h] EXCEPT !.pc = "save", !.status = Receipt(h[1])]
<1>3. CASE FindTx(h)
  <2>1. found \in HandlerState /\ found.pc = "receipt"
    <3>1. FoundTx(Key(h[1])) \in Row \cup {NoTx}
      BY <1>0, FoundTxType DEF TypeInv, TypeOK
    <3> QED
      BY <3>1 DEF HandlerState, TypeInv, TypeOK
  <2>2. CASE /\ process = "ready" /\ handler' = [handler EXCEPT ![h] = found]
             /\ UNCHANGED job
    <3>1. faults' \in Nat
      BY <1>3 DEF FindTx, TypeInv, TypeOK
    <3> HIDE DEF found
    <3> QED
      BY <1>3, <1>2, <2>1, <2>2, <3>1 DEF FindTx
  <2>3. CASE Reject(h)
    BY <1>3, <1>1, <2>3 DEF FindTx, TypeInv, TypeOK
  <2> QED
    BY <1>3, <2>2, <2>3 DEF FindTx
<1>4. CASE GetReceipt(h)
  <2>0. faults' \in Nat
    BY <1>4 DEF GetReceipt, Fault, TypeInv, TypeOK
  <2>1. CASE Receipt(h[1]) # "null" /\ handler' = [handler EXCEPT ![h] = got] /\ UNCHANGED job
    <3>1. got \in HandlerState /\ got.status # "none"
      BY <2>1 DEF Receipt, HandlerState, TypeInv, TypeOK
    <3> HIDE DEF got
    <3> QED
      BY <1>4, <1>2, <2>0, <2>1, <3>1 DEF GetReceipt
  <2>2. CASE handler' = [handler EXCEPT ![h] = Idle] /\ UNCHANGED job
    <3>1. Idle \in HandlerState /\ Idle.pc = "idle"
      BY DEF Idle, HandlerState
    <3> QED
      BY <1>4, <1>2, <2>0, <2>2, <3>1 DEF GetReceipt
  <2>3. CASE Reject(h)
    BY <1>4, <1>1, <2>0, <2>3 DEF GetReceipt
  <2> QED
    BY <1>4, <2>1, <2>2, <2>3 DEF GetReceipt
<1>5. CASE RejectHandler(h)
  BY <1>5, <1>1 DEF RejectHandler, Fault, TypeInv, TypeOK
<1>6. CASE SaveTx(h)
  <2> DEFINE k == Key(h[1])
             tx == handler[h].tx
             inserted == [status |-> handler[h].status, tokenAmount |-> Value[h[1]]]
             updated == [tx EXCEPT !.status = handler[h].status]
  <2>1. handler[h].status \in Status
    BY <1>6 DEF SaveTx, Status, HandlerState, TypeInv, TypeOK
  <2>2. inserted \in Row
    BY <1>0, <2>1, LogsAssumption DEF Row
  <2>3. IsPending(tx) => updated \in Row
    <3>1. tx \in Row \cup {NoTx}
      BY DEF HandlerState, TypeInv, TypeOK
    <3> QED
      BY <2>1, <3>1 DEF IsPending, NoTx, Row
  <2>4. ASSUME NEW row \in Row, StartDispatch(h, row)
        PROVE  dispatch' \in [Handlers -> DispatchState]
    <3>1. [pc |-> "route", tx |-> row, user |-> NoUser] \in DispatchState
      BY NewWallets DEF DispatchState
    <3> QED
      BY <2>4, <3>1 DEF StartDispatch, TypeInv, TypeOK
  <2>5. Idle \in HandlerState /\ Idle.pc = "idle"
    BY DEF Idle, HandlerState
  <2>6. ASSUME rows' \in [Keys -> Seq(Row)], dispatch' \in [Handlers -> DispatchState]
        PROVE  TypeInv'
    BY <1>6, <2>5, <2>6 DEF SaveTx, TypeInv, TypeOK
  <2>7. CASE rows' = [rows EXCEPT ![k] = Append(@, inserted)] /\ StartDispatch(h, inserted)
    <3>0. k \in Keys
      BY <1>0
    <3> HIDE DEF inserted, k
    <3>1. rows' \in [Keys -> Seq(Row)]
      BY <2>2, <2>7, <3>0 DEF TypeInv, TypeOK
    <3> QED
      BY <2>2, <2>4, <2>6, <2>7, <3>1
  <2>8. CASE /\ IsPending(tx) /\ rows' = [rows EXCEPT ![k][1] = updated]
             /\ StartDispatch(h, updated)
    <3>1. [rows[k] EXCEPT ![1] = updated] \in Seq(Row)
      BY <1>0, <2>3, <2>8, ExceptFirst DEF TypeInv, TypeOK
    <3> HIDE DEF updated, k
    <3>2. rows' \in [Keys -> Seq(Row)]
      BY <2>8, <3>1 DEF TypeInv, TypeOK
    <3> QED
      BY <2>3, <2>4, <2>6, <2>8, <3>2
  <2>9. CASE UNCHANGED <<rows, dispatch>>
    BY <2>6, <2>9 DEF TypeInv, TypeOK
  <2> QED
    BY <1>6, <2>7, <2>8, <2>9 DEF SaveTx
<1> QED
  BY <1>3, <1>4, <1>5, <1>6 DEF HandlerStep

\* What the accounting of one transfer may change.
LEMMA TypeDispatchStep ==
  ASSUME TypeInv, NEW h \in Handlers, DispatchStep(h) \/ RejectDispatch(h)
  PROVE  TypeInv'
<1> USE DEF chainVars, linkVars, moneyVars
<1>0. h[1] \in Logs
  BY DEF Handlers
<1> DEFINE Others == UNCHANGED <<chainVars, linkVars, handler, job, rows, lastCheckedBlock>>
<1>1. Others
  BY DEF DispatchStep, Route, Charge, addUserCoin, InsertMyzr, Transfer,
     addUserDrawCoin, Withdraw, Settle, RejectDispatch, Dispatching
<1>2. faults' \in Nat
  BY DEF DispatchStep, Route, Charge, addUserCoin, InsertMyzr, Transfer,
     addUserDrawCoin, Withdraw, Settle, RejectDispatch, Fault, TypeInv, TypeOK
<1>3. ASSUME dispatch' \in [Handlers -> DispatchState], wallet' \in [Members -> WalletRow],
             myzr' \in [Logs -> Nat],
             myzc' \in [Hashes -> WithdrawalStatus]
      PROVE  TypeInv'
  BY <1>1, <1>2, <1>3 DEF TypeInv, TypeOK
<1> HIDE DEF Others
<1>4. ASSUME NEW pc, DispatchTo(h, pc),
             pc \in {"idle", "route", "charge", "both", "wallet", "record",
                     "transfer", "draw", "withdraw", "settle"}
      PROVE  dispatch' \in [Handlers -> DispatchState]
  <2>1. [dispatch[h] EXCEPT !.pc = pc] \in DispatchState
    BY <1>4 DEF DispatchState, TypeInv, TypeOK
  <2>2. dispatch' = [dispatch EXCEPT ![h] = [dispatch[h] EXCEPT !.pc = pc]]
    BY <1>4 DEF DispatchTo
  <2> QED
    BY <2>1, <2>2 DEF TypeInv, TypeOK
<1>5. ASSUME EndDispatch(h)
      PROVE  dispatch' \in [Handlers -> DispatchState]
  <2>1. NoDispatch \in DispatchState
    BY NewWallets DEF NoDispatch, DispatchState
  <2> QED
    BY <1>5, <2>1 DEF EndDispatch, TypeInv, TypeOK
<1>6. ASSUME NEW m \in Members, NEW pc \in {"both", "draw"},
             dispatch' = [dispatch EXCEPT ![h] = [@ EXCEPT !.pc = pc, !.user = wallet[m]]]
      PROVE  dispatch' \in [Handlers -> DispatchState]
  <2>1. [dispatch[h] EXCEPT !.pc = pc, !.user = wallet[m]] \in DispatchState
    BY DEF DispatchState, TypeInv, TypeOK
  <2> QED
    BY <1>6, <2>1 DEF TypeInv, TypeOK
<1>7. CASE Route(h)
  BY <1>3, <1>4, <1>7 DEF Route, TypeInv, TypeOK
<1>8. CASE Charge(h)
  BY <1>3, <1>5, <1>6, <1>8 DEF Charge, TypeInv, TypeOK
<1> DEFINE row == dispatch[h].tx
           user == dispatch[h].user
<1>9. row.tokenAmount \in Nat /\ user \in WalletRow
  BY DEF DispatchState, Row, NoTx, TypeInv, TypeOK
<1>16. CASE addUserCoin(h)
  <2> DEFINE charge_amount == parsePlus(user.charge_amount, row.tokenAmount)
             token_amount == parsePlus(user.amount, row.tokenAmount)
  <2>0. Stored(charge_amount) \in Column /\ Stored(token_amount) \in Column
    BY <1>9, StoredType DEF WalletRow
  <2>1. [user EXCEPT !.charge_amount = Stored(charge_amount),
                     !.amount = Stored(token_amount)] \in WalletRow
    BY <1>9, <2>0 DEF WalletRow
  <2>2. wallet' \in [Members -> WalletRow]
    BY <1>16, <2>1 DEF addUserCoin, TypeInv, TypeOK
  <2> QED
    BY <1>3, <1>4, <1>5, <1>16, <2>2 DEF addUserCoin, FinishWrite, TypeInv, TypeOK
<1>10. CASE InsertMyzr(h)
  BY <1>0, <1>3, <1>4, <1>5, <1>10 DEF InsertMyzr, FinishWrite, TypeInv, TypeOK
<1>11. CASE Transfer(h)
  BY <1>3, <1>5, <1>6, <1>11 DEF Transfer, TypeInv, TypeOK
<1>12. CASE addUserDrawCoin(h)
  <2> DEFINE draw_amount == parsePlus(user.draw_amount, row.tokenAmount)
  <2>0. Stored(draw_amount) \in Column
    BY <1>9, StoredType DEF WalletRow
  <2>1. [user EXCEPT !.draw_amount = Stored(draw_amount)] \in WalletRow
    BY <1>9, <2>0 DEF WalletRow
  <2>2. wallet' \in [Members -> WalletRow]
    BY <1>12, <2>1 DEF addUserDrawCoin, TypeInv, TypeOK
  <2> QED
    BY <1>3, <1>5, <1>12, <2>2 DEF addUserDrawCoin, TypeInv, TypeOK
<1>13. CASE Withdraw(h)
  BY <1>3, <1>4, <1>5, <1>13 DEF Withdraw, TypeInv, TypeOK
<1>14. CASE Settle(h)
  BY <1>0, <1>3, <1>5, <1>14 DEF Settle, WithdrawalStatus, TypeInv, TypeOK
<1>15. CASE RejectDispatch(h)
  BY <1>3, <1>4, <1>5, <1>15 DEF RejectDispatch, TypeInv, TypeOK
<1> QED
  BY <1>7, <1>8, <1>10, <1>11, <1>12, <1>13, <1>14, <1>15, <1>16 DEF DispatchStep

\* What the restore job may change.
LEMMA TypeJobStep ==
  ASSUME TypeInv, JobStep
  PROVE  TypeInv'
<1> USE DEF chainVars, linkVars, moneyVars
<1>1. ASSUME job' \in JobState, faults' \in Nat, lastCheckedBlock' \in Nat,
             UNCHANGED <<chainVars, linkVars, handler, dispatch, rows, moneyVars>>
      PROVE  TypeInv'
  BY <1>1 DEF TypeInv, TypeOK
<1>2. NoJob \in JobState
  BY DEF NoJob, JobState
<1>3. CASE JobStart
  <2>1. [job EXCEPT !.pc = "fetch", !.currentBlock = height] \in JobState
    BY DEF JobState, TypeInv, TypeOK
  <2> QED
    BY <1>1, <1>3, <2>1 DEF JobStart, Restoring, TypeInv, TypeOK
<1>4. CASE JobFetch
  <2>1. ASSUME NEW upTo
        PROVE  [job EXCEPT !.pc = "loop", !.events = Scan(upTo)] \in JobState
    <3>1. Scan(upTo) \subseteq Logs \X Nat
      BY DEF Scan, TypeInv, TypeOK
    <3> QED
      BY <3>1 DEF JobState, TypeInv, TypeOK
  <2>2. job' \in JobState
    BY <1>2, <1>4, <2>1 DEF JobFetch
  <2> QED
    BY <1>1, <1>4, <2>2 DEF JobFetch, Restoring, Fault, TypeInv, TypeOK
<1>5. ASSUME NEW e \in job.events, JobNext(e)
      PROVE  TypeInv'
  <2>1. e[1] \in Logs
    BY DEF JobState, TypeInv, TypeOK
  <2>2. [job EXCEPT !.events = @ \ {e}] \in JobState
    BY DEF JobState, TypeInv, TypeOK
  <2> DEFINE g == <<e[1], "restore">>
  <2>3. [handler[g] EXCEPT !.pc = "find"] \in HandlerState
    <3>1. handler[g] \in HandlerState
      BY <2>1 DEF Handlers, Origins, TypeInv, TypeOK
    <3> QED
      BY <3>1 DEF HandlerState
  <2>4. handler' = [handler EXCEPT ![g] = [handler[g] EXCEPT !.pc = "find"]]
    BY <1>5 DEF JobNext
  <2> HIDE DEF g
  <2>5. /\ handler' \in [Handlers -> HandlerState]
        /\ \A h \in Handlers : handler'[h].pc = "save" => handler'[h].status # "none"
    BY <2>3, <2>4 DEF HandlerState, TypeInv, TypeOK
  <2> QED
    BY <1>5, <2>2, <2>5 DEF JobNext, Restoring, TypeInv, TypeOK
<1>6. CASE JobDone
  <2>1. checkpoint \in Nat
    BY DEF checkpoint, JobState, TypeInv, TypeOK
  <2> QED
    BY <1>1, <1>2, <1>6, <2>1 DEF JobDone, Restoring, TypeInv, TypeOK
<1> QED
  BY <1>3, <1>4, <1>5, <1>6 DEF JobStep

Environment ==
  \/ \E S \in SUBSET Logs : NewBlock(S)
  \/ \E K, F \in SUBSET Logs : Reorg(K, F)
  \/ \E x \in Hashes : LinkWithdrawal(x)
  \/ \E l \in Logs : Deliver(l)
  \/ WsClose \/ Reconnect \/ Crash \/ Restart \/ CreateConnection \/ RejectJob

LEMMA NextParts ==
  Next <=> \/ Environment \/ JobStep
           \/ \E h \in Handlers : HandlerStep(h) \/ RejectHandler(h)
           \/ \E h \in Handlers : DispatchStep(h) \/ RejectDispatch(h)
BY DEF Next, Environment

\* What the chain, the site, the connection and the operator may change.
LEMMA TypeEnvironment ==
  ASSUME TypeInv, Environment
  PROVE  TypeInv'
<1> USE DEF chainVars, linkVars, moneyVars
<1>1. ASSUME NEW S \in SUBSET Logs, NewBlock(S)
      PROVE  TypeInv'
  BY <1>1, ConfigInNat DEF NewBlock, TypeInv, TypeOK
<1>2. ASSUME NEW K \in SUBSET Logs, NEW F \in SUBSET Logs, Reorg(K, F)
      PROVE  TypeInv'
  BY <1>2 DEF Reorg, Fault, TypeInv, TypeOK
<1>3. ASSUME NEW x \in Hashes, LinkWithdrawal(x)
      PROVE  TypeInv'
  BY <1>3 DEF LinkWithdrawal, WithdrawalStatus, TypeInv, TypeOK
<1>4. ASSUME NEW l \in Logs, Deliver(l)
      PROVE  TypeInv'
  <2>1. [Idle EXCEPT !.pc = "find"] \in HandlerState
    BY DEF Idle, HandlerState
  <2> QED
    BY <1>4, <2>1 DEF Deliver, HandlerState, TypeInv, TypeOK
<1>5. CASE WsClose
  <2>1. [Idle EXCEPT !.pc = "hung"] \in HandlerState /\ [NoJob EXCEPT !.pc = "hung"] \in JobState
    BY DEF Idle, HandlerState, NoJob, JobState
  <2>2. [Idle EXCEPT !.pc = "hung"].pc = "hung"
    BY DEF Idle
  <2>3. /\ handler' \in [Handlers -> HandlerState]
        /\ \A h \in Handlers : handler'[h].pc = "save" => handler'[h].status # "none"
    <3>1. PICK H \in SUBSET {h \in Handlers : handler[h].pc = "receipt"} :
            handler' = [h \in Handlers |->
              IF h \in H THEN [Idle EXCEPT !.pc = "hung"] ELSE handler[h]]
      BY <1>5 DEF WsClose
    <3> QED
      BY <2>1, <2>2, <3>1 DEF TypeInv, TypeOK
  <2>4. job' \in JobState
    BY <1>5, <2>1 DEF WsClose, TypeInv, TypeOK
  <2>5. /\ conn' = "closed" /\ wire' = {} /\ faults' \in Nat
        /\ UNCHANGED <<chainVars, process, dispatch, rows, moneyVars, lastCheckedBlock>>
    BY <1>5 DEF WsClose, Fault, TypeInv, TypeOK
  <2> QED
    BY <2>3, <2>4, <2>5 DEF TypeInv, TypeOK
<1>6. CASE Reconnect
  BY <1>6 DEF Reconnect, TypeInv, TypeOK
<1>7. CASE Crash
  <2>1. Idle \in HandlerState /\ Idle.pc = "idle" /\ NoJob \in JobState
    BY DEF Idle, HandlerState, NoJob, JobState
  <2>2. NoDispatch \in DispatchState
    BY NewWallets DEF NoDispatch, DispatchState
  <2> QED
    BY <1>7, <2>1, <2>2 DEF Crash, Fault, TypeInv, TypeOK
<1>8. CASE Restart
  BY <1>8 DEF Restart, TypeInv, TypeOK
<1>9. CASE CreateConnection
  BY <1>9 DEF CreateConnection, Fault, TypeInv, TypeOK
<1>10. CASE RejectJob
  <2>1. NoJob \in JobState /\ checkpoint \in Nat
    BY DEF NoJob, JobState, checkpoint, TypeInv, TypeOK
  <2> QED
    BY <1>10, <2>1 DEF RejectJob, Restoring, Fault, TypeInv, TypeOK
<1> QED
  BY <1>1, <1>2, <1>3, <1>4, <1>5, <1>6, <1>7, <1>8, <1>9, <1>10 DEF Environment

LEMMA TypeNext == TypeInv /\ [Next]_vars => TypeInv'
<1> SUFFICES ASSUME TypeInv, [Next]_vars PROVE TypeInv'
  OBVIOUS
<1>1. CASE UNCHANGED vars
  BY <1>1 DEF vars, chainVars, linkVars, moneyVars, TypeInv, TypeOK
<1> QED
  BY <1>1, NextParts, TypeEnvironment, TypeJobStep, TypeHandlerStep, TypeDispatchStep

\* Every variable keeps to its type, for any set of transfers, any
\* configuration and any number of faults.
THEOREM TypeCorrect == Spec => []TypeOK
<1>1. TypeInv => TypeOK
  BY DEF TypeInv
<1> QED
  BY <1>1, TypeInit, TypeNext, PTL DEF Spec

-----------------------------------------------------------------------------
(* What any step may do to the rows, the chain and the lookups.            *)

\* Only the save of an invocation changes a row.
LEMMA RowsChange ==
  ASSUME [Next]_vars, rows' # rows
  PROVE  \E h \in Handlers : SaveTx(h)
<1> USE DEF chainVars, linkVars, moneyVars
<1>1. ~Environment
  BY DEF Environment, RejectJob, Restoring, NewBlock, Reorg, LinkWithdrawal, Deliver, WsClose,
     Reconnect, Crash, Restart, CreateConnection
<1>2. ~JobStep
  BY DEF JobStep, JobStart, JobFetch, JobNext, JobDone, Restoring
<1>3. ASSUME NEW h \in Handlers, DispatchStep(h) \/ RejectDispatch(h)
      PROVE  FALSE
  BY <1>3 DEF DispatchStep, Route, Charge, addUserCoin, InsertMyzr, Transfer,
     addUserDrawCoin, Withdraw, Settle, RejectDispatch, Dispatching
<1>4. ASSUME NEW h \in Handlers, HandlerStep(h) \/ RejectHandler(h)
      PROVE  SaveTx(h)
  BY <1>4 DEF HandlerStep, FindTx, GetReceipt, RejectHandler
<1>5. ~UNCHANGED vars
  BY DEF vars
<1> QED
  BY <1>1, <1>2, <1>3, <1>4, <1>5, NextParts

\* No row is ever deleted.
LEMMA RowsStay ==
  ASSUME TypeInv, [Next]_vars, NEW k \in Keys
  PROVE  /\ Len(rows'[k]) >= Len(rows[k])
         /\ rows[k] # <<>> => rows'[k] # <<>>
<1>1. CASE rows' = rows
  BY <1>1 DEF TypeInv, TypeOK
<1>2. ASSUME NEW h \in Handlers, SaveTx(h)
      PROVE  Len(rows'[k]) >= Len(rows[k])
  <2> DEFINE j == Key(h[1])
  <2>1. rows \in [Keys -> Seq(Row)] /\ j \in Keys
    BY LogKeys DEF TypeInv, TypeOK
  <2>2. CASE \E row : rows' = [rows EXCEPT ![j] = Append(@, row)]
    <3>1. PICK row : rows' = [rows EXCEPT ![j] = Append(@, row)]
      BY <2>2
    <3>2. rows'[k] = IF k = j THEN Append(rows[k], row) ELSE rows[k]
      BY <2>1, <3>1
    <3> HIDE DEF j
    <3>3. rows[k] \in Seq(Row)
      BY <2>1
    <3>4. Len(Append(rows[k], row)) = Len(rows[k]) + 1
      BY <3>3
    <3> QED
      BY <3>2, <3>3, <3>4
  <2>3. CASE \E row : rows' = [rows EXCEPT ![j][1] = row]
    <3>1. PICK row : rows' = [rows EXCEPT ![j][1] = row]
      BY <2>3
    <3>2. Len(rows'[k]) = Len(rows[k])
      BY <2>1, <3>1
    <3> QED
      BY <2>1, <3>2
  <2>4. CASE rows' = rows
    BY <2>1, <2>4
  <2> QED
    BY <1>2, <2>2, <2>3, <2>4 DEF SaveTx
<1>3. Len(rows'[k]) >= Len(rows[k])
  BY <1>1, <1>2, RowsChange
<1>4. rows[k] \in Seq(Row) /\ rows'[k] \in Seq(Row)
  BY TypeNext DEF TypeInv, TypeOK
<1> QED
  BY <1>3, <1>4

\* An invocation past its lookup was there before, or has just looked up.
LEMMA Lookups ==
  ASSUME TypeInv, [Next]_vars, NEW h \in Handlers, handler'[h].pc \in {"receipt", "save"}
  PROVE  \/ /\ handler[h].pc \in {"receipt", "save"}
            /\ handler'[h].tx = handler[h].tx
         \/ /\ handler'[h].tx = FoundTx(Key(h[1])) /\ UNCHANGED rows
<1> USE DEF chainVars, linkVars, moneyVars
<1>0. handler \in [Handlers -> HandlerState] /\ Idle.pc = "idle"
  BY DEF Idle, TypeInv, TypeOK
<1>1. CASE handler' = handler
  BY <1>1
<1>2. ASSUME NEW g \in Handlers, NEW s, handler' = [handler EXCEPT ![g] = s],
             s.pc \notin {"receipt", "save"}
      PROVE  handler'[h] = handler[h]
  BY <1>0, <1>2
<1>3. CASE Environment
  <2>1. ASSUME NEW l \in Logs, Deliver(l)
        PROVE  handler'[h] = handler[h]
    <3>1. <<l, "live">> \in Handlers /\ [Idle EXCEPT !.pc = "find"].pc = "find"
      BY DEF Handlers, Origins, Idle
    <3> QED
      BY <1>2, <2>1, <3>1 DEF Deliver
  <2>2. CASE WsClose
    <3>1. [Idle EXCEPT !.pc = "hung"].pc = "hung"
      BY DEF Idle
    <3> QED
      BY <2>2, <3>1 DEF WsClose
  <2>3. ~Crash
    BY <1>0 DEF Crash
  <2> QED
    BY <1>1, <1>3, <2>1, <2>2, <2>3 DEF Environment, RejectJob, Restoring, NewBlock,
       Reorg, LinkWithdrawal,
       Reconnect, Restart, CreateConnection
<1>4. CASE JobStep
  <2>1. ASSUME NEW e \in job.events, JobNext(e)
        PROVE  handler'[h] = handler[h]
    <3> DEFINE g == <<e[1], "restore">>
    <3>1. g \in Handlers
      BY DEF JobState, Handlers, Origins, TypeInv, TypeOK
    <3>2. handler' = [handler EXCEPT ![g] = [handler[g] EXCEPT !.pc = "find"]]
      BY <2>1 DEF JobNext
    <3>3. [handler[g] EXCEPT !.pc = "find"].pc = "find"
      BY <1>0, <3>1 DEF HandlerState
    <3> HIDE DEF g
    <3> QED
      BY <1>2, <3>1, <3>2, <3>3
  <2> QED
    BY <1>1, <1>4, <2>1 DEF JobStep, JobStart, JobFetch, JobDone
<1>5. ASSUME NEW g \in Handlers, DispatchStep(g) \/ RejectDispatch(g)
      PROVE  handler' = handler
  BY <1>5 DEF DispatchStep, Route, Charge, addUserCoin, InsertMyzr, Transfer,
     addUserDrawCoin, Withdraw, Settle, RejectDispatch, Dispatching
<1>6. ASSUME NEW g \in Handlers, HandlerStep(g) \/ RejectHandler(g)
      PROVE  \/ handler'[h] = handler[h]
             \/ /\ handler[h].pc \in {"receipt", "save"}
                /\ handler'[h].tx = handler[h].tx
             \/ handler'[h].tx = FoundTx(Key(h[1])) /\ UNCHANGED rows
  <2>1. CASE handler' = [handler EXCEPT ![g] = Idle]
    BY <1>0, <1>2, <2>1
  <2> DEFINE found == [handler[g] EXCEPT !.pc = "receipt", !.tx = FoundTx(Key(g[1]))]
             got == [handler[g] EXCEPT !.pc = "save", !.status = Receipt(g[1])]
  <2>2. CASE handler' = [handler EXCEPT ![g] = found] /\ UNCHANGED rows
    <3>1. found.tx = FoundTx(Key(g[1]))
      BY <1>0 DEF HandlerState
    <3> HIDE DEF found
    <3> QED
      BY <1>0, <2>2, <3>1
  <2>3. CASE handler[g].pc = "receipt" /\ handler' = [handler EXCEPT ![g] = got]
    <3>1. got.tx = handler[g].tx
      BY <1>0 DEF HandlerState
    <3> HIDE DEF got
    <3> QED
      BY <1>0, <2>3, <3>1
  <2> QED
    BY <1>6, <2>1, <2>2, <2>3 DEF HandlerStep, FindTx, GetReceipt, SaveTx, RejectHandler, Reject
<1>7. CASE UNCHANGED vars
  BY <1>1, <1>7 DEF vars
<1> QED
  BY <1>1, <1>3, <1>4, <1>5, <1>6, <1>7, NextParts

-----------------------------------------------------------------------------
(* Over http the restore job is the only source of events.  It awaits one  *)
(* invocation before the next, so at most one is under way, no save can    *)
(* come between its lookup and its own save, and a transfer is stored and  *)
(* dispatched once.                                                        *)

OneAtATime ==
  /\ \A l \in Logs : handler[<<l, "live">>].pc = "idle"
  /\ \A g, h \in Handlers :
       handler[g].pc # "idle" /\ handler[h].pc # "idle" => g = h

HttpInv == RpcType = "http" /\ TypeInv /\ OneAtATime /\ FreshLookup /\ UniqueRows

\* Steps that leave handlers and rows as they are, or clear the handlers.
LEMMA HttpUnchanged ==
  ASSUME HttpInv, TypeInv', UNCHANGED rows,
         \/ UNCHANGED handler
         \/ handler' = [h \in Handlers |-> Idle]
         \/ \E h \in Handlers : handler' = [handler EXCEPT ![h] = Idle]
  PROVE  HttpInv'
<1>1. Idle.pc = "idle"
  BY DEF Idle
<1>2. /\ \A h \in Handlers : handler'[h] = handler[h] \/ handler'[h].pc = "idle"
      /\ \A k : FoundTx(k)' = FoundTx(k)
  BY <1>1 DEF FoundTx, HttpInv, TypeInv, TypeOK
<1>3. \A l \in Logs : <<l, "live">> \in Handlers
  BY DEF Handlers, Origins
<1>4. OneAtATime'
  BY <1>2, <1>3 DEF HttpInv, OneAtATime
<1>5. FreshLookup'
  BY <1>2 DEF HttpInv, FreshLookup
<1> QED
  BY <1>4, <1>5 DEF HttpInv, UniqueRows

LEMMA HttpEnvironment ==
  ASSUME HttpInv, TypeInv', Environment
  PROVE  HttpInv'
<1>1. ~Subscribed
  BY DEF Subscribed, HttpInv
<1>2. UNCHANGED rows /\ (UNCHANGED handler \/ handler' = [h \in Handlers |-> Idle])
  BY <1>1 DEF Environment, RejectJob, Restoring, NewBlock, Reorg, LinkWithdrawal,
     Deliver, WsClose,
     Reconnect, Crash, Restart, CreateConnection, moneyVars
<1> QED
  BY <1>2, HttpUnchanged

LEMMA HttpJobStep ==
  ASSUME HttpInv, TypeInv', JobStep
  PROVE  HttpInv'
<1>1. ASSUME NEW e \in job.events, JobNext(e)
      PROVE  HttpInv'
  <2> DEFINE g == <<e[1], "restore">>
  <2>1. e[1] \in Logs /\ g \in Handlers
    BY DEF JobState, Handlers, Origins, HttpInv, TypeInv, TypeOK
  <2>2. \A h \in Handlers : handler[h].pc = "idle"
    <3>1. \A l \in Logs : handler[<<l, "restore">>].pc = "idle"
      <4>1. Idle.pc = "idle"
        BY DEF Idle
      <4> QED
        BY <1>1, <4>1 DEF JobNext, Restoring
    <3> QED
      BY <3>1 DEF HttpInv, OneAtATime, Handlers, Origins
  <2>3. UNCHANGED rows /\ handler' = [handler EXCEPT ![g].pc = "find"]
    BY <1>1 DEF JobNext, Restoring
  <2>4. \A h \in Handlers :
          /\ h # g => handler'[h].pc = "idle"
          /\ handler'[h].pc \in {"idle", "find"}
    BY <2>2, <2>3 DEF HandlerState, HttpInv, TypeInv, TypeOK
  <2>5. \A l \in Logs : <<l, "live">> \in Handlers /\ <<l, "live">> # g
    BY DEF Handlers, Origins
  <2> HIDE DEF g
  <2>6. OneAtATime'
    BY <2>4, <2>5 DEF OneAtATime
  <2>7. FreshLookup'
    BY <2>4 DEF FreshLookup
  <2> QED
    BY <2>3, <2>6, <2>7 DEF HttpInv, UniqueRows
<1>2. CASE JobStart \/ JobFetch \/ JobDone
  <2>1. UNCHANGED <<handler, rows>>
    BY <1>2 DEF JobStart, JobFetch, JobDone, Restoring
  <2> QED
    BY <2>1, HttpUnchanged
<1> QED
  BY <1>1, <1>2 DEF JobStep

\* The invocation that saves is the only one under way, and its lookup fresh.
LEMMA SaveIsFresh ==
  ASSUME HttpInv, NEW h \in Handlers, handler[h].pc # "idle"
  PROVE  /\ \A g \in Handlers : g # h => handler[g].pc = "idle"
         /\ \A l \in Logs : h # <<l, "live">>
         /\ handler[h].pc = "save" => handler[h].tx = FoundTx(Key(h[1]))
         /\ Key(h[1]) \in Keys /\ Len(rows[Key(h[1])]) <= 1
<1>1. h[1] \in Logs /\ Key(h[1]) \in Keys
  BY LogKeys
<1>2. Len(rows[Key(h[1])]) <= 1
  BY <1>1 DEF HttpInv, UniqueRows
<1>3. \A g \in Handlers : g # h => handler[g].pc = "idle"
  BY DEF HttpInv, OneAtATime
<1>4. \A l \in Logs : h # <<l, "live">>
  BY DEF HttpInv, OneAtATime
<1>5. handler[h].pc = "save" => handler[h].tx = FoundTx(Key(h[1]))
  BY DEF HttpInv, FreshLookup
<1> QED
  BY <1>1, <1>2, <1>3, <1>4, <1>5

LEMMA HttpHandlerStep ==
  ASSUME HttpInv, TypeInv', NEW h \in Handlers, HandlerStep(h) \/ RejectHandler(h)
  PROVE  HttpInv'
<1> DEFINE k == Key(h[1])
<1>0. handler[h].pc # "idle"
  BY DEF HandlerStep, FindTx, GetReceipt, SaveTx, RejectHandler
<1>1. /\ \A g \in Handlers : g # h => handler[g].pc = "idle"
      /\ \A l \in Logs : h # <<l, "live">>
      /\ k \in Keys
  BY <1>0, SaveIsFresh
<1>2. ASSUME UNCHANGED rows, NEW s \in HandlerState,
             handler' = [handler EXCEPT ![h] = s],
             s.pc \in {"receipt", "save"} => s.tx = FoundTx(k)
      PROVE  HttpInv'
  <2>1. \A g \in Handlers : handler'[g] = IF g = h THEN s ELSE handler[g]
    BY <1>2 DEF HttpInv, TypeInv, TypeOK
  <2>2. \A l \in Logs : <<l, "live">> \in Handlers
    BY DEF Handlers, Origins
  <2>3. OneAtATime'
    BY <1>1, <2>1, <2>2 DEF OneAtATime, HttpInv
  <2>4. \A j : FoundTx(j)' = FoundTx(j)
    BY <1>2 DEF FoundTx
  <2>5. FreshLookup'
    BY <1>1, <1>2, <2>1, <2>4 DEF FreshLookup
  <2> QED
    BY <1>2, <2>3, <2>5 DEF HttpInv, UniqueRows
<1>3. CASE UNCHANGED rows /\ handler' = [handler EXCEPT ![h] = Idle]
  BY <1>3, HttpUnchanged
<1>4. CASE RejectHandler(h) \/ (FindTx(h) /\ Reject(h)) \/ (GetReceipt(h) /\ Reject(h))
  BY <1>4, <1>3 DEF RejectHandler, FindTx, GetReceipt, Reject
<1>5. CASE FindTx(h) /\ ~Reject(h)
  <2> DEFINE found == [handler[h] EXCEPT !.pc = "receipt", !.tx = FoundTx(k)]
  <2>1. handler' = [handler EXCEPT ![h] = found] /\ UNCHANGED rows
    BY <1>5 DEF FindTx
  <2>2. found \in HandlerState /\ found.tx = FoundTx(k)
    <3>1. FoundTx(k) \in Row \cup {NoTx}
      BY <1>1, FoundTxType DEF HttpInv, TypeInv, TypeOK
    <3>2. handler[h] \in HandlerState
      BY DEF HttpInv, TypeInv, TypeOK
    <3> QED
      BY <3>1, <3>2 DEF HandlerState
  <2> HIDE DEF found, k
  <2> QED
    BY <1>2, <2>1, <2>2
<1>6. CASE GetReceipt(h) /\ ~Reject(h)
  <2> DEFINE got == [handler[h] EXCEPT !.pc = "save", !.status = Receipt(h[1])]
  <2>1. CASE handler' = [handler EXCEPT ![h] = Idle] /\ UNCHANGED rows
    BY <1>3, <2>1
  <2>2. CASE /\ Receipt(h[1]) # "null"
             /\ handler' = [handler EXCEPT ![h] = got] /\ UNCHANGED rows
    <3>1. handler[h] \in HandlerState
      BY DEF HttpInv, TypeInv, TypeOK
    <3>2. got \in HandlerState /\ got.tx = handler[h].tx
      BY <2>2, <3>1 DEF Receipt, HandlerState
    <3>3. handler[h].tx = FoundTx(k)
      BY <1>6 DEF GetReceipt, HttpInv, FreshLookup
    <3> HIDE DEF got, k
    <3> QED
      BY <1>2, <2>2, <3>2, <3>3
  <2> QED
    BY <1>6, <2>1, <2>2 DEF GetReceipt
<1>7. CASE SaveTx(h)
  <2> DEFINE tx == handler[h].tx
  <2>1. /\ handler' = [handler EXCEPT ![h] = Idle] /\ Idle.pc = "idle"
        /\ tx = FoundTx(k)
    BY <1>7 DEF SaveTx, Idle, HttpInv, FreshLookup
  <2>2. \A g \in Handlers : handler'[g].pc = "idle"
    BY <1>1, <2>1 DEF HttpInv, TypeInv, TypeOK
  <2>3. OneAtATime' /\ FreshLookup'
    BY <2>2 DEF OneAtATime, FreshLookup, Handlers, Origins
  <2>4. UniqueRows'
    <3>1. tx = NoTx <=> rows[k] = <<>>
      BY <1>1, <2>1, FoundTxType DEF HttpInv, TypeInv, TypeOK
    <3>2. CASE \E row : tx = NoTx /\ rows' = [rows EXCEPT ![k] = Append(@, row)]
      <4>1. PICK row : tx = NoTx /\ rows' = [rows EXCEPT ![k] = Append(@, row)]
        BY <3>2
      <4>2. Len(rows'[k]) = 1
        <5>1. rows'[k] = Append(rows[k], row) /\ rows[k] = <<>>
          BY <1>1, <3>1, <4>1 DEF HttpInv, TypeInv, TypeOK
        <5> HIDE DEF k
        <5>2. Append(<<>>, row) = <<row>>
          OBVIOUS
        <5> QED
          BY <5>1, <5>2
      <4>3. \A j \in Keys : j # k => rows'[j] = rows[j]
        BY <4>1 DEF HttpInv, TypeInv, TypeOK
      <4>4. \A j \in Keys : Len(rows[j]) <= 1
        BY DEF UniqueRows, HttpInv
      <4> HIDE DEF k
      <4>5. ASSUME NEW j \in Keys
            PROVE  Len(rows'[j]) <= 1
        <5>1. CASE j = k
          <6>1. rows'[j] = rows'[k]
            BY <5>1
          <6>2. Len(rows'[j]) = 1
            BY <4>2, <6>1
          <6> QED
            BY <6>2
        <5>2. CASE j # k
          BY <4>3, <4>4, <5>2
        <5> QED
          BY <5>1, <5>2
      <4> QED
        BY <4>5 DEF UniqueRows
    <3>3. CASE \E row : rows' = [rows EXCEPT ![k][1] = row]
      <4>1. PICK row : rows' = [rows EXCEPT ![k][1] = row]
        BY <3>3
      <4>2. \A j \in Keys : Len(rows'[j]) = Len(rows[j])
        BY <1>1, <4>1 DEF HttpInv, TypeInv, TypeOK
      <4> QED
        BY <4>2 DEF UniqueRows, HttpInv
    <3>4. CASE UNCHANGED rows
      BY <3>4 DEF UniqueRows, HttpInv
    <3> QED
      BY <1>7, <3>2, <3>3, <3>4 DEF SaveTx
  <2> QED
    BY <2>3, <2>4 DEF HttpInv
<1> QED
  BY <1>4, <1>5, <1>6, <1>7 DEF HandlerStep

LEMMA HttpInit == RpcType = "http" /\ Init => HttpInv
<1> SUFFICES ASSUME RpcType = "http", Init PROVE HttpInv
  OBVIOUS
<1>1. TypeInv
  BY TypeInit
<1>2. \A h \in Handlers : handler[h].pc = "idle"
  BY DEF Init, Idle
<1>3. OneAtATime /\ FreshLookup
  BY <1>2 DEF OneAtATime, FreshLookup, Handlers, Origins
<1>4. ASSUME NEW k \in Keys
      PROVE  Len(rows[k]) <= 1
  <2>1. CASE rows[k] = <<>>
    <3>1. Len(rows[k]) = 0
      BY <2>1
    <3> QED
      BY <3>1
  <2>2. ASSUME NEW row, rows[k] = <<row>>
        PROVE  Len(rows[k]) <= 1
    <3>1. Len(rows[k]) = 1
      BY <2>2
    <3> QED
      BY <3>1
  <2> QED
    BY <2>1, <2>2 DEF Init
<1> QED
  BY <1>1, <1>3, <1>4 DEF HttpInv, UniqueRows

LEMMA HttpNext == HttpInv /\ [Next]_vars => HttpInv'
<1> SUFFICES ASSUME HttpInv, [Next]_vars PROVE HttpInv'
  OBVIOUS
<1>0. TypeInv'
  BY TypeNext DEF HttpInv
<1>1. CASE UNCHANGED vars
  BY <1>0, <1>1, HttpUnchanged DEF vars
<1>2. ASSUME NEW h \in Handlers, DispatchStep(h) \/ RejectDispatch(h)
      PROVE  HttpInv'
  <2>1. UNCHANGED <<handler, rows>>
    BY <1>2 DEF DispatchStep, Route, Charge, addUserCoin, InsertMyzr, Transfer,
       addUserDrawCoin, Withdraw, Settle, RejectDispatch, Dispatching
  <2> QED
    BY <1>0, <2>1, HttpUnchanged
<1> QED
  BY <1>0, <1>1, <1>2, NextParts, HttpEnvironment, HttpJobStep, HttpHandlerStep

LEMMA HttpInvariant == RpcType = "http" /\ Spec => []HttpInv
BY HttpInit, HttpNext, PTL DEF Spec

\* Over http no transfer is stored twice, whatever crashes, rejected calls,
\* lagging answers and reorganisations occur.
THEOREM HttpUniqueRows == RpcType = "http" /\ Spec => []UniqueRows
<1>1. HttpInv => UniqueRows
  BY DEF HttpInv
<1> QED
  BY <1>1, HttpInvariant, PTL

\* Over http the row looked up is current when the invocation saves.
THEOREM HttpFreshLookup == RpcType = "http" /\ Spec => []FreshLookup
<1>1. HttpInv => FreshLookup
  BY DEF HttpInv
<1> QED
  BY <1>1, HttpInvariant, PTL

\* Only the save of processTokenTransfer starts the accounting of a transfer.
LEMMA DispatchStarts ==
  ASSUME TypeInv, [Next]_vars, NEW h \in Handlers,
         dispatch[h].pc = "idle", dispatch'[h].pc # "idle"
  PROVE  SaveTx(h) /\ dispatch'[h] # dispatch[h]
<1> USE DEF chainVars, linkVars, moneyVars
<1>1. dispatch' # dispatch
  OBVIOUS
<1>2. ~Environment
  <2>1. Crash => dispatch'[h].pc = "idle"
    BY DEF Crash, NoDispatch
  <2> QED
    BY <1>1, <2>1 DEF Environment, RejectJob, Restoring, NewBlock, Reorg, LinkWithdrawal,
       Deliver,
       WsClose, Reconnect, Restart, CreateConnection
<1>3. ~JobStep
  BY <1>1 DEF JobStep, JobStart, JobFetch, JobNext, JobDone, Restoring
<1>4. ASSUME NEW g \in Handlers, DispatchStep(g) \/ RejectDispatch(g)
      PROVE  FALSE
  <2>1. dispatch[g].pc # "idle"
    BY <1>4 DEF DispatchStep, Route, Charge, addUserCoin, InsertMyzr, Transfer,
       addUserDrawCoin, Withdraw, Settle, RejectDispatch, Dispatching
  <2>2. \E d : dispatch' = [dispatch EXCEPT ![g] = d]
    BY <1>4 DEF DispatchStep, Route, Charge, addUserCoin, InsertMyzr, Transfer,
       addUserDrawCoin, Withdraw, Settle, RejectDispatch, DispatchTo,
       EndDispatch, FinishWrite, TypeInv, TypeOK, DispatchState
  <2>3. dispatch'[h] = dispatch[h]
    BY <2>1, <2>2 DEF TypeInv, TypeOK
  <2> QED
    BY <2>3
<1>5. ASSUME NEW g \in Handlers, HandlerStep(g) \/ RejectHandler(g)
      PROVE  SaveTx(h)
  <2>1. SaveTx(g)
    BY <1>1, <1>5 DEF HandlerStep, FindTx, GetReceipt, RejectHandler
  <2>2. g # h => dispatch'[h] = dispatch[h]
    <3>1. (\E d : dispatch' = [dispatch EXCEPT ![g] = d]) \/ dispatch' = dispatch
      BY <2>1, Zenon DEF SaveTx, StartDispatch
    <3> QED
      BY <3>1 DEF TypeInv, TypeOK
  <2> QED
    BY <2>1, <2>2
<1>6. ~UNCHANGED vars
  BY <1>1 DEF vars
<1> QED
  BY <1>2, <1>3, <1>4, <1>5, <1>6, NextParts

\* Over http the accounting is started only for transfers that were not
\* accounted for before: each is credited, drawn or settled at most once.
THEOREM HttpDispatchIsNew == RpcType = "http" /\ Spec => DispatchIsNew
<1>1. ASSUME HttpInv, [Next]_vars, NEW h \in Handlers,
             dispatch[h].pc = "idle", dispatch'[h].pc = "route"
      PROVE  ~Accounted(Key(h[1]))
  <2> DEFINE k == Key(h[1])
             tx == handler[h].tx
  <2>1. SaveTx(h) /\ dispatch'[h] # dispatch[h]
    BY <1>1, DispatchStarts DEF HttpInv
  <2>2. tx = NoTx \/ IsPending(tx)
    BY <2>1 DEF SaveTx
  <2>3. handler[h].pc = "save" /\ tx = FoundTx(k)
    BY <1>1, <2>1 DEF SaveTx, HttpInv, FreshLookup
  <2>4. k \in Keys /\ Len(rows[k]) <= 1
    BY <2>3, SaveIsFresh, <1>1
  <2>5. rows[k] \in Seq(Row)
    BY <2>4, <1>1 DEF HttpInv, TypeInv, TypeOK
  <2>6. ASSUME NEW i \in DOMAIN rows[k]
        PROVE  rows[k][i].status = "pending"
    <3>1. i = 1 /\ rows[k] # <<>>
      BY <2>4, <2>5
    <3>2. FoundTx(k) = rows[k][1]
      BY <2>5, <3>1 DEF FoundTx
    <3>3. FoundTx(k) # NoTx
      BY <2>4, <3>1, <1>1, FoundTxType DEF HttpInv, TypeInv, TypeOK
    <3> QED
      BY <2>2, <2>3, <3>1, <3>2, <3>3 DEF IsPending
  <2> QED
    BY <2>6 DEF Accounted
<1>2. HttpInv /\ [Next]_vars =>
        [\A h \in Handlers :
           dispatch[h].pc = "idle" /\ dispatch'[h].pc = "route"
             => ~Accounted(Key(h[1]))]_vars
  BY <1>1
<1> QED
  BY <1>2, HttpInvariant, PTL DEF Spec, DispatchIsNew

\* Over http a save finds the current row, and leaves it once it has an outcome.
LEMMA OutcomeStays ==
  ASSUME HttpInv, [Next]_vars, NEW k \in Keys, NEW i \in DOMAIN rows[k],
         rows[k][i].status # "pending"
  PROVE  i \in DOMAIN rows'[k] /\ rows'[k][i] = rows[k][i]
<1>0. i \in DOMAIN rows'[k]
  <2>1. rows[k] \in Seq(Row) /\ rows'[k] \in Seq(Row)
    BY TypeNext DEF HttpInv, TypeInv, TypeOK
  <2>2. Len(rows'[k]) >= Len(rows[k])
    BY RowsStay DEF HttpInv
  <2> QED
    BY <2>1, <2>2
<1>1. CASE rows' = rows
  BY <1>0, <1>1
<1>2. ASSUME NEW h \in Handlers, SaveTx(h)
      PROVE  rows'[k][i] = rows[k][i]
  <2> DEFINE j == Key(h[1])
             tx == handler[h].tx
  <2>1. tx = FoundTx(j)
    BY <1>2 DEF SaveTx, HttpInv, FreshLookup
  <2>2. /\ rows \in [Keys -> Seq(Row)] /\ Len(rows[k]) <= 1
        /\ rows[k] \in Seq(Row)
    BY DEF HttpInv, UniqueRows, TypeInv, TypeOK
  <2>3. i = 1 /\ rows[k] # <<>> /\ FoundTx(k) = rows[k][1]
    BY <2>2 DEF FoundTx
  <2>4. CASE j # k
    <3>1. (\E r : rows' = [rows EXCEPT ![j] = r]) \/ rows' = rows
      BY <1>2, Zenon DEF SaveTx
    <3> QED
      BY <2>2, <2>4, <3>1
  <2>5. CASE j = k
    <3>1. tx # NoTx /\ ~IsPending(tx)
      BY <2>1, <2>2, <2>3, <2>5, FoundTxType DEF IsPending
    <3> QED
      BY <1>2, <3>1 DEF SaveTx
  <2> QED
    BY <2>4, <2>5
<1> QED
  BY <1>0, <1>1, <1>2, RowsChange

\* Over http a confirmed or failed row is never written again.
THEOREM HttpRowIsFinal == RpcType = "http" /\ Spec => RowIsFinal
<1>1. HttpInv /\ [Next]_vars =>
        [\A k \in Keys : \A i \in DOMAIN rows[k] :
           rows[k][i].status # "pending" => rows'[k][i] = rows[k][i]]_vars
  BY OutcomeStays
<1> QED
  BY <1>1, HttpInvariant, PTL DEF Spec, RowIsFinal

-----------------------------------------------------------------------------
(* Over http the intake implements TransferIntake.                         *)

States == [k \in Keys |-> StateOf(k)]
UnderWay == {Key(h[1]) : h \in {g \in Handlers : dispatch[g].pc # "idle"}}

\* A step that saves nothing and starts nothing can only end some accounting.
LEMMA StopsAccounting ==
  ASSUME UNCHANGED rows,
         \A h \in Handlers : dispatch'[h].pc # "idle" => dispatch[h].pc # "idle"
  PROVE  [Intake!Next]_<<States, UnderWay>>
<1>1. States' = States
  BY DEF States, StateOf
<1>2. UnderWay' \subseteq UnderWay
  BY DEF UnderWay
<1>3. UnderWay \ UnderWay' \in SUBSET Keys
  BY LogKeys DEF UnderWay
<1>4. PICK T \in SUBSET Keys : T = UnderWay \ UnderWay'
  BY <1>3
<1>5. Intake!Stop(T)
  BY <1>1, <1>2, <1>4 DEF Intake!Stop, States, UnderWay
<1> QED
  BY <1>5 DEF Intake!Next

\* The save of an invocation, over http, stores an outcome that was open.
LEMMA SaveStores ==
  ASSUME HttpInv, NEW h \in Handlers, SaveTx(h)
  PROVE  [Intake!Next]_<<States, UnderWay>>
<1> DEFINE k == Key(h[1])
           tx == handler[h].tx
           inserted == [status |-> handler[h].status, tokenAmount |-> Value[h[1]]]
           updated == [tx EXCEPT !.status = handler[h].status]
<1>1. /\ k \in Keys /\ tx = FoundTx(k)
      /\ rows \in [Keys -> Seq(Row)] /\ rows[k] \in Seq(Row)
      /\ handler[h].status \in {"confirmed", "failed"}
      /\ tx \in Row \cup {NoTx}
      /\ dispatch \in [Handlers -> DispatchState]
  BY LogKeys DEF SaveTx, HttpInv, FreshLookup, TypeInv, TypeOK, HandlerState
<1>2. ASSUME NEW s, s # <<>>, Head(s).status = handler[h].status,
             rows' = [rows EXCEPT ![k] = s],
             StateOf(k) \in {"unknown", "pending"},
             NEW row, StartDispatch(h, row)
      PROVE  Intake!Store(k)
  <2>1. States' = [States EXCEPT ![k] = handler[h].status]
    <3>1. \A j \in Keys : rows'[j] = IF j = k THEN s ELSE rows[j]
      BY <1>1, <1>2
    <3>2. \A j \in Keys : StateOf(j)' = IF j = k THEN handler[h].status ELSE StateOf(j)
      BY <1>2, <3>1 DEF StateOf
    <3> HIDE DEF k
    <3> QED
      BY <3>2 DEF States
  <2>2. UnderWay' = UnderWay \cup {k}
    <3>1. \A g \in Handlers :
            dispatch'[g].pc = IF g = h THEN "route" ELSE dispatch[g].pc
      BY <1>1, <1>2 DEF StartDispatch
    <3> QED
      BY <3>1 DEF UnderWay
  <2>3. States[k] \in {"unknown", "pending"}
    BY <1>1, <1>2 DEF States
  <2> HIDE DEF k
  <2> QED
    BY <1>1, <2>1, <2>2, <2>3 DEF Intake!Store, States, UnderWay
<1>3. CASE tx = NoTx /\ rows' = [rows EXCEPT ![k] = Append(@, inserted)]
           /\ StartDispatch(h, inserted)
  <2>1. rows[k] = <<>>
    BY <1>1, <1>3, FoundTxType
  <2> DEFINE s == <<inserted>>
  <2>2. rows' = [rows EXCEPT ![k] = s] /\ StateOf(k) = "unknown"
    BY <1>3, <2>1 DEF StateOf
  <2>3. s # <<>> /\ Head(s) = inserted
    OBVIOUS
  <2>4. Head(s).status = handler[h].status
    BY <2>3
  <2> HIDE DEF s, inserted, k
  <2>5. Intake!Store(k)
    BY <1>2, <1>3, <2>2, <2>3, <2>4
  <2> QED
    BY <1>1, <2>5 DEF Intake!Next
<1>4. CASE /\ IsPending(tx) /\ rows' = [rows EXCEPT ![k][1] = updated]
           /\ StartDispatch(h, updated)
  <2>1. tx # NoTx
    BY <1>4 DEF IsPending, NoTx
  <2>2. rows[k] # <<>> /\ tx = Head(rows[k])
    BY <1>1, <2>1, FoundTxType DEF FoundTx
  <2> DEFINE s == [rows[k] EXCEPT ![1] = updated]
  <2>3. rows' = [rows EXCEPT ![k] = s] /\ StateOf(k) = "pending"
    BY <1>4, <2>2 DEF StateOf, IsPending
  <2>4. s # <<>> /\ Head(s) = updated
    BY <1>1, <2>2
  <2>5. updated.status = handler[h].status
    BY <1>1, <2>1 DEF Row
  <2>6. Head(s).status = handler[h].status
    BY <2>4, <2>5
  <2> HIDE DEF s, updated, k
  <2>7. Intake!Store(k)
    BY <1>2, <1>4, <2>3, <2>4, <2>6
  <2> QED
    BY <1>1, <2>7 DEF Intake!Next
<1>5. CASE UNCHANGED <<rows, dispatch>>
  BY <1>5, StopsAccounting
<1> QED
  BY <1>3, <1>4, <1>5 DEF SaveTx

\* Over http the intake keeps the promise of TransferIntake: each transfer is
\* stored once, by the step that starts its accounting, and by no other.
THEOREM HttpImplementsIntake == RpcType = "http" /\ Spec => ImplementsIntake
<1>1. Init => Intake!Init
  <2> SUFFICES ASSUME Init PROVE Intake!Init
    OBVIOUS
  <2>1. ASSUME NEW k \in Keys
        PROVE  StateOf(k) = IF k \in {SavedKey(l) : l \in PendingLogs}
                            THEN "pending" ELSE "unknown"
    <3>1. CASE \E l \in PendingLogs : SavedKey(l) = k
      <4> DEFINE r == PendingRow(CHOOSE l \in PendingLogs : SavedKey(l) = k)
      <4>1. rows[k] = <<r>>
        BY <2>1, <3>1 DEF Init
      <4>2. r.status = "pending"
        BY DEF PendingRow
      <4> HIDE DEF r
      <4>3. <<r>> # <<>> /\ Head(<<r>>) = r
        OBVIOUS
      <4>4. StateOf(k) = "pending"
        BY <4>1, <4>2, <4>3 DEF StateOf
      <4> QED
        BY <3>1, <4>4
    <3>2. CASE ~\E l \in PendingLogs : SavedKey(l) = k
      <4>1. rows[k] = <<>>
        BY <2>1, <3>2 DEF Init
      <4> QED
        BY <3>2, <4>1 DEF StateOf
    <3> QED
      BY <3>1, <3>2
  <2>2. UnderWay = {}
    BY DEF Init, UnderWay, NoDispatch
  <2> QED
    BY <2>1, <2>2 DEF Intake!Init, UnderWay
<1>2. ASSUME HttpInv, [Next]_vars
      PROVE  [Intake!Next]_<<States, UnderWay>>
  <2> USE DEF chainVars, linkVars, moneyVars
  <2>1. ASSUME NEW h \in Handlers, SaveTx(h)
        PROVE  [Intake!Next]_<<States, UnderWay>>
    BY <1>2, <2>1, SaveStores
  <2>2. CASE ~\E h \in Handlers : SaveTx(h)
    <3>1. UNCHANGED rows
      BY <1>2, <2>2, RowsChange
    <3>2. ASSUME NEW h \in Handlers, dispatch'[h].pc # "idle"
          PROVE  dispatch[h].pc # "idle"
      BY <1>2, <2>2, <3>2, DispatchStarts DEF HttpInv
    <3> QED
      BY <3>1, <3>2, StopsAccounting
  <2> QED
    BY <2>1, <2>2
<1>3. HttpInv /\ [Next]_vars => [Intake!Next]_<<States, UnderWay>>
  BY <1>2
<1> QED
  BY <1>1, <1>3, HttpInvariant, PTL
     DEF Spec, ImplementsIntake, Intake!Spec, States, UnderWay
=============================================================================
