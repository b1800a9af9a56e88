-------------------------- MODULE SettlementProofs --------------------------
(***************************************************************************)
(* Theorems about the settlement of withdrawals (u_ols_myzc), over http    *)
(* and for every value of the other constants.                             *)
(***************************************************************************)
EXTENDS Web3HandlerProofs

Outcomes == {"confirmed", "failed"}

\* Some row of the key has the outcome.
HasOutcome(k, s) == \E i \in DOMAIN rows[k] : rows[k][i].status = s

\* What processWithdrawEthOrToken makes of an outcome.
Settled(s) == IF s = "confirmed" THEN "success" ELSE "failed"

DispatchedIsStored ==
  \A h \in Handlers : dispatch[h].pc # "idle" =>
    /\ dispatch[h].tx.status \in Outcomes
    /\ HasOutcome(Key(h[1]), dispatch[h].tx.status)
    /\ dispatch[h].pc \in {"withdraw", "settle"} => Sender[h[1]] = Manager

SettledIsStored ==
  \A x \in Hashes : \A s \in Outcomes : myzc[x] = Settled(s) =>
    \E l \in Logs :
      TxHash[l] = x /\ Sender[l] = Manager /\ HasOutcome(Key(l), s)

SettleInv == HttpInv /\ DispatchedIsStored /\ SettledIsStored

-----------------------------------------------------------------------------
\* The accounting of h takes one of its steps and is not yet over.
GoesOn(h) ==
  LET old == dispatch[h]
      new == dispatch'[h]
      from == Sender[h[1]]
      to == Receiver[h[1]]
  IN
  /\ new.tx = old.tx
  /\ \/ /\ old.pc = "route"
        /\ \/ new.pc = "charge" /\ from # Manager
           \/ new.pc = "transfer" /\ from = Manager /\ to = Manager
           \/ new.pc = "withdraw" /\ from = Manager
     \/ /\ old.pc = "charge" /\ new.pc = "both" /\ UNCHANGED wallet
        /\ new.tx.status = "confirmed" /\ to \in Members /\ new.user = wallet[to]
     \/ old.pc = "both" /\ new.pc \in {"wallet", "record"} /\ new.user = old.user
     \/ /\ old.pc = "transfer" /\ new.pc = "draw" /\ UNCHANGED wallet
        /\ new.tx.status = "confirmed" /\ from \in Members /\ new.user = wallet[from]
     \/ old.pc = "withdraw" /\ new.pc = "settle"

LEMMA TaskSteps ==
  ASSUME TypeInv, [Next]_vars, NEW h \in Handlers, dispatch'[h].pc # "idle"
  PROVE  \/ dispatch'[h] = dispatch[h] \/ GoesOn(h)
         \/ SaveTx(h) /\ dispatch'[h].pc = "route"
<1> USE DEF chainVars, linkVars, moneyVars
<1>0. dispatch \in [Handlers -> DispatchState]
  BY DEF TypeInv, TypeOK
<1>1. CASE UNCHANGED vars
  BY <1>1 DEF vars
<1>2. CASE Environment
  <2>1. ~Crash
    BY DEF Crash, NoDispatch
  <2> QED
    BY <1>2, <2>1 DEF Environment, RejectJob, Restoring, NewBlock, Reorg, LinkWithdrawal,
       Deliver,
       WsClose, Reconnect, Restart, CreateConnection
<1>3. CASE JobStep
  BY <1>3 DEF JobStep, JobStart, JobFetch, JobNext, JobDone, Restoring
<1>4. ASSUME NEW g \in Handlers, HandlerStep(g) \/ RejectHandler(g)
      PROVE  dispatch'[h] = dispatch[h] \/ (SaveTx(h) /\ dispatch'[h].pc = "route")
  <2>1. CASE SaveTx(g)
    <3>1. dispatch' = dispatch \/ \E row : StartDispatch(g, row)
      BY <2>1, Zenon DEF SaveTx
    <3> QED
      BY <1>0, <2>1, <3>1 DEF StartDispatch
  <2> QED
    BY <1>4, <2>1 DEF HandlerStep, FindTx, GetReceipt, RejectHandler
<1>5. ASSUME NEW g \in Handlers, DispatchStep(g) \/ RejectDispatch(g), g # h
      PROVE  dispatch'[h] = dispatch[h]
  <2>1. \E d : dispatch' = [dispatch EXCEPT ![g] = d]
    BY <1>5 DEF DispatchStep, Route, Charge, addUserCoin, InsertMyzr, Transfer,
       addUserDrawCoin, Withdraw, Settle, RejectDispatch, DispatchTo,
       EndDispatch, FinishWrite
  <2> QED
    BY <1>0, <1>5, <2>1
<1>6. ASSUME DispatchStep(h) \/ RejectDispatch(h) PROVE GoesOn(h)
  <2>1. ~EndDispatch(h)
    BY <1>0 DEF EndDispatch, NoDispatch
  <2>2. ASSUME NEW pc, DispatchTo(h, pc)
        PROVE  /\ dispatch'[h].tx = dispatch[h].tx /\ dispatch'[h].pc = pc
               /\ dispatch'[h].user = dispatch[h].user
    BY <1>0, <2>2 DEF DispatchTo, DispatchState
  <2>3. ASSUME NEW pc, NEW u,
               dispatch' = [dispatch EXCEPT ![h] = [@ EXCEPT !.pc = pc, !.user = u]]
        PROVE  /\ dispatch'[h].tx = dispatch[h].tx /\ dispatch'[h].pc = pc
               /\ dispatch'[h].user = u
    BY <1>0, <2>3 DEF DispatchState
  <2>4. CASE Route(h)
    <3>1. /\ dispatch[h].pc = "route"
          /\ \/ DispatchTo(h, "charge") /\ Sender[h[1]] # Manager
             \/ DispatchTo(h, "transfer") /\ Sender[h[1]] = Manager /\ Receiver[h[1]] = Manager
             \/ DispatchTo(h, "withdraw") /\ Sender[h[1]] = Manager
      BY <2>4 DEF Route, Dispatching
    <3> QED
      BY <2>2, <3>1 DEF GoesOn
  <2>5. CASE Withdraw(h)
    BY <2>1, <2>2, <2>5 DEF Withdraw, Dispatching, GoesOn
  <2>6. CASE Charge(h)
    <3>1. /\ dispatch[h].pc = "charge" /\ UNCHANGED wallet
          /\ dispatch[h].tx.status = "confirmed" /\ Receiver[h[1]] \in Members
          /\ dispatch' = [dispatch EXCEPT ![h] =
               [@ EXCEPT !.pc = "both", !.user = wallet[Receiver[h[1]]]]]
      BY <2>1, <2>6 DEF Charge, Dispatching
    <3> QED
      BY <2>3, <3>1 DEF GoesOn
  <2>7. CASE Transfer(h)
    <3>1. /\ dispatch[h].pc = "transfer" /\ UNCHANGED wallet
          /\ dispatch[h].tx.status = "confirmed" /\ Sender[h[1]] \in Members
          /\ dispatch' = [dispatch EXCEPT ![h] =
               [@ EXCEPT !.pc = "draw", !.user = wallet[Sender[h[1]]]]]
      BY <2>1, <2>7 DEF Transfer, Dispatching
    <3> QED
      BY <2>3, <3>1 DEF GoesOn
  <2>8. CASE addUserCoin(h) \/ InsertMyzr(h)
    <3>1. dispatch[h].pc = "both" /\ (DispatchTo(h, "wallet") \/ DispatchTo(h, "record"))
      BY <2>1, <2>8 DEF addUserCoin, InsertMyzr, FinishWrite, Dispatching
    <3> QED
      BY <2>2, <3>1 DEF GoesOn
  <2>9. CASE RejectDispatch(h)
    <3>1. dispatch[h].pc = "both" /\ \E pc \in {"wallet", "record"} : DispatchTo(h, pc)
      BY <2>1, <2>9 DEF RejectDispatch
    <3> QED
      BY <2>2, <3>1 DEF GoesOn
  <2> QED
    BY <1>6, <2>1, <2>4, <2>5, <2>6, <2>7, <2>8, <2>9 DEF DispatchStep, addUserDrawCoin, Settle
<1> QED
  BY <1>1, <1>2, <1>3, <1>4, <1>5, <1>6, NextParts

\* The accounting of a transfer works on the row it was started with, and
\* reaches the withdrawals only for a transfer of the manager.
LEMMA DispatchGoesOn ==
  ASSUME TypeInv, [Next]_vars, NEW h \in Handlers, ~SaveTx(h),
         dispatch'[h].pc # "idle"
  PROVE  /\ dispatch[h].pc # "idle" /\ dispatch'[h].tx = dispatch[h].tx
         /\ dispatch'[h].pc \in {"withdraw", "settle"} =>
              dispatch[h].pc \in {"withdraw", "settle"} \/ Sender[h[1]] = Manager
<1>1. dispatch'[h] = dispatch[h] \/ GoesOn(h)
  BY TaskSteps
<1> QED
  BY <1>1 DEF GoesOn

\* A save that starts the accounting has just stored the outcome it works on.
LEMMA SaveStarts ==
  ASSUME HttpInv, NEW h \in Handlers, SaveTx(h), dispatch' # dispatch
  PROVE  /\ dispatch'[h].pc = "route" /\ dispatch'[h].tx.status \in Outcomes
         /\ HasOutcome(Key(h[1]), dispatch[h].tx.status)'
<1> DEFINE k == Key(h[1])
           tx == handler[h].tx
           inserted == [status |-> handler[h].status, tokenAmount |-> Value[h[1]]]
           updated == [tx EXCEPT !.status = handler[h].status]
<1>0. /\ k \in Keys /\ rows \in [Keys -> Seq(Row)] /\ rows[k] \in Seq(Row)
      /\ dispatch \in [Handlers -> DispatchState]
      /\ handler[h].status \in Outcomes /\ tx \in Row \cup {NoTx} /\ tx = FoundTx(k)
  BY LogKeys DEF SaveTx, HttpInv, FreshLookup, TypeInv, TypeOK, HandlerState, Outcomes
<1>1. ASSUME NEW row, StartDispatch(h, row), row.status = handler[h].status,
             NEW i \in DOMAIN rows'[k], rows'[k][i] = row
      PROVE  /\ dispatch'[h].pc = "route" /\ dispatch'[h].tx.status \in Outcomes
             /\ HasOutcome(Key(h[1]), dispatch[h].tx.status)'
  <2>1. dispatch'[h] = [pc |-> "route", tx |-> row, user |-> NoUser]
    BY <1>0, <1>1 DEF StartDispatch
  <2>2. dispatch'[h].pc = "route" /\ dispatch'[h].tx = row
    BY <2>1
  <2> QED
    BY <1>0, <1>1, <2>2 DEF HasOutcome
<1>2. CASE rows' = [rows EXCEPT ![k] = Append(@, inserted)] /\ StartDispatch(h, inserted)
  <2>1. rows'[k] = Append(rows[k], inserted)
    BY <1>0, <1>2
  <2>2. inserted.status = handler[h].status
    OBVIOUS
  <2> HIDE DEF k, inserted
  <2> DEFINE i == Len(rows[k]) + 1
  <2>3. i \in DOMAIN rows'[k] /\ rows'[k][i] = inserted
    BY <1>0, <2>1
  <2> HIDE DEF i
  <2> QED
    BY <1>1, <1>2, <2>2, <2>3
<1>3. CASE /\ IsPending(tx) /\ rows' = [rows EXCEPT ![k][1] = updated]
           /\ StartDispatch(h, updated)
  <2>1. tx # NoTx
    BY <1>3 DEF IsPending, NoTx
  <2>2. rows[k] # <<>>
    BY <1>0, <2>1, FoundTxType
  <2>3. updated.status = handler[h].status
    BY <1>0, <2>1 DEF Row
  <2> HIDE DEF updated, k
  <2>4. 1 \in DOMAIN rows'[k] /\ rows'[k][1] = updated
    BY <1>0, <1>3, <2>2
  <2> QED
    BY <1>1, <1>3, <2>3, <2>4
<1> QED
  BY <1>2, <1>3 DEF SaveTx

\* Over http a stored outcome stays.
LEMMA HasOutcomeStays ==
  ASSUME HttpInv, [Next]_vars, NEW k \in Keys, NEW s \in Outcomes, HasOutcome(k, s)
  PROVE  HasOutcome(k, s)'
<1>1. PICK i \in DOMAIN rows[k] : rows[k][i].status = s
  BY DEF HasOutcome
<1>2. i \in DOMAIN rows'[k] /\ rows'[k][i] = rows[k][i]
  BY <1>1, OutcomeStays DEF Outcomes
<1> QED
  BY <1>1, <1>2 DEF HasOutcome

\* The site links a withdrawal, and only Settle writes its outcome.
LEMMA MyzcChange ==
  ASSUME TypeInv, [Next]_vars, NEW x \in Hashes, myzc'[x] # myzc[x]
  PROVE  \/ myzc[x] = "none" /\ myzc'[x] = "sent"
         \/ \E h \in Handlers :
              /\ dispatch[h].pc = "settle" /\ TxHash[h[1]] = x
              /\ myzc'[x] = Settled(dispatch[h].tx.status)
<1> USE DEF chainVars, linkVars, moneyVars
<1>0. myzc \in [Hashes -> WithdrawalStatus]
  BY DEF TypeInv, TypeOK
<1>1. CASE UNCHANGED vars
  BY <1>1 DEF vars
<1>2. ASSUME NEW y \in Hashes, LinkWithdrawal(y)
      PROVE  myzc[x] = "none" /\ myzc'[x] = "sent"
  BY <1>0, <1>2 DEF LinkWithdrawal
<1>3. CASE Environment
  BY <1>2, <1>3 DEF Environment, RejectJob, Restoring, NewBlock, Reorg, Deliver, WsClose,
     Reconnect, Crash,
     Restart, CreateConnection
<1>4. CASE JobStep
  BY <1>4 DEF JobStep, JobStart, JobFetch, JobNext, JobDone, Restoring
<1>5. ASSUME NEW h \in Handlers, HandlerStep(h) \/ RejectHandler(h)
      PROVE  FALSE
  BY <1>5 DEF HandlerStep, FindTx, GetReceipt, SaveTx, RejectHandler
<1>6. ASSUME NEW h \in Handlers, DispatchStep(h) \/ RejectDispatch(h)
      PROVE  /\ dispatch[h].pc = "settle" /\ TxHash[h[1]] = x
             /\ myzc'[x] = Settled(dispatch[h].tx.status)
  <2>1. Settle(h)
    BY <1>6 DEF DispatchStep, Route, Charge, addUserCoin, InsertMyzr, Transfer,
       addUserDrawCoin, Withdraw, RejectDispatch
  <2> QED
    BY <1>0, <2>1 DEF Settle, FoundWithdrawals, Dispatching, Settled
<1> QED
  BY <1>1, <1>3, <1>4, <1>5, <1>6, NextParts

LEMMA SettleInit == RpcType = "http" /\ Init => SettleInv
<1> SUFFICES ASSUME RpcType = "http", Init PROVE SettleInv
  OBVIOUS
<1>1. \A h \in Handlers : dispatch[h].pc = "idle"
  BY DEF Init, NoDispatch
<1>2. \A x \in Hashes : myzc[x] = "none"
  BY DEF Init
<1> QED
  BY <1>1, <1>2, HttpInit DEF SettleInv, DispatchedIsStored, SettledIsStored, Settled

LEMMA SettleNext == SettleInv /\ [Next]_vars => SettleInv'
<1> SUFFICES ASSUME SettleInv, [Next]_vars PROVE SettleInv'
  OBVIOUS
<1>0. HttpInv /\ TypeInv /\ HttpInv'
  BY HttpNext DEF SettleInv, HttpInv
<1>1. ASSUME NEW h \in Handlers, dispatch'[h].pc # "idle"
      PROVE  /\ dispatch'[h].tx.status \in Outcomes
             /\ HasOutcome(Key(h[1]), dispatch[h].tx.status)'
             /\ dispatch'[h].pc \in {"withdraw", "settle"} => Sender[h[1]] = Manager
  <2>1. CASE SaveTx(h) /\ dispatch' # dispatch
    BY <1>0, <2>1, SaveStarts
  <2>2. ASSUME dispatch[h].pc # "idle", dispatch'[h].tx = dispatch[h].tx
        PROVE  /\ dispatch'[h].tx.status \in Outcomes
               /\ HasOutcome(Key(h[1]), dispatch[h].tx.status)'
    <3> DEFINE k == Key(h[1])
    <3>1. PICK s \in Outcomes : s = dispatch[h].tx.status
      BY <2>2 DEF SettleInv, DispatchedIsStored
    <3>2. HasOutcome(k, s) /\ k \in Keys
      BY <2>2, <3>1, LogKeys DEF SettleInv, DispatchedIsStored
    <3>3. HasOutcome(k, s)'
      BY <1>0, <3>2, HasOutcomeStays
    <3>4. dispatch'[h].tx.status = s
      BY <2>2, <3>1
    <3> QED
      BY <3>3, <3>4 DEF HasOutcome
  <2>3. CASE SaveTx(h) /\ dispatch' = dispatch
    BY <1>1, <2>2, <2>3 DEF SettleInv, DispatchedIsStored
  <2>4. CASE ~SaveTx(h)
    <3>1. /\ dispatch[h].pc # "idle" /\ dispatch'[h].tx = dispatch[h].tx
          /\ dispatch'[h].pc \in {"withdraw", "settle"} =>
               dispatch[h].pc \in {"withdraw", "settle"} \/ Sender[h[1]] = Manager
      BY <1>0, <1>1, <2>4, DispatchGoesOn
    <3> QED
      BY <2>2, <3>1 DEF SettleInv, DispatchedIsStored
  <2> QED
    BY <2>1, <2>3, <2>4
<1>2. ASSUME NEW x \in Hashes, NEW s \in Outcomes, myzc'[x] = Settled(s)
      PROVE  \E l \in Logs :
               TxHash[l] = x /\ Sender[l] = Manager /\ HasOutcome(Key(l), s)'
  <2>1. ASSUME NEW l \in Logs, TxHash[l] = x, Sender[l] = Manager, HasOutcome(Key(l), s)
        PROVE  TxHash[l] = x /\ Sender[l] = Manager /\ HasOutcome(Key(l), s)'
    BY <1>0, <2>1, HasOutcomeStays DEF Keys
  <2>2. CASE myzc'[x] = myzc[x]
    <3>1. \E l \in Logs : TxHash[l] = x /\ Sender[l] = Manager /\ HasOutcome(Key(l), s)
      BY <1>2, <2>2 DEF SettleInv, SettledIsStored
    <3> QED
      BY <2>1, <3>1
  <2>3. CASE myzc'[x] # myzc[x]
    <3>1. PICK h \in Handlers :
            /\ dispatch[h].pc = "settle" /\ TxHash[h[1]] = x
            /\ myzc'[x] = Settled(dispatch[h].tx.status)
      BY <1>0, <1>2, <2>3, MyzcChange DEF Settled
    <3>2. /\ dispatch[h].tx.status \in Outcomes /\ Sender[h[1]] = Manager
          /\ HasOutcome(Key(h[1]), dispatch[h].tx.status)
      BY <3>1 DEF SettleInv, DispatchedIsStored
    <3>3. dispatch[h].tx.status = s
      BY <1>2, <3>1, <3>2 DEF Settled, Outcomes
    <3> QED
      BY <2>1, <3>1, <3>2, <3>3, LogKeys
  <2> QED
    BY <2>2, <2>3
<1> QED
  BY <1>0, <1>1, <1>2 DEF SettleInv, DispatchedIsStored, SettledIsStored

LEMMA SettleInvariant == RpcType = "http" /\ Spec => []SettleInv
BY SettleInit, SettleNext, PTL DEF Spec

\* Over http a withdrawal is settled as success only if a transfer of the
\* manager with its hash is stored as confirmed, and as failed only if one is
\* stored as failed, whatever crashes, rejections and reorganisations occur.
THEOREM HttpSettledByRow == RpcType = "http" /\ Spec => []SettledByRow
<1>1. SettleInv => SettledByRow
  <2> SUFFICES ASSUME SettleInv, NEW x \in Hashes
               PROVE  \A s \in Outcomes : myzc[x] = Settled(s) =>
                        \E k \in Keys : k[1] = x /\ k[2] = Manager /\ HasOutcome(k, s)
    BY DEF SettledByRow, Settled, Outcomes, HasOutcome, ConfirmedRows
  <2>1. ASSUME NEW l \in Logs
        PROVE  Key(l) \in Keys /\ Key(l)[1] = TxHash[l] /\ Key(l)[2] = Sender[l]
    BY DEF Keys, Key
  <2> QED
    BY <2>1 DEF SettleInv, SettledIsStored
<1> QED
  BY <1>1, SettleInvariant, PTL

\* A transaction of the manager makes one payment, as sendtokenfromadmin does.
OnePayment ==
  \A k, l \in Logs :
    TxHash[k] = TxHash[l] /\ Sender[k] = Manager /\ Sender[l] = Manager
      => Key(k) = Key(l)

\* Over http the outcome of a withdrawal never changes, even when its block is
\* replaced and its transaction fails after it was settled: only the row of
\* its one payment can settle it, and that row is final.
THEOREM HttpSettledIsFinal == RpcType = "http" /\ OnePayment /\ Spec => SettledIsFinal
<1>1. ASSUME OnePayment, SettleInv, [Next]_vars, NEW x \in Hashes,
             myzc[x] \in {"success", "failed"}
      PROVE  myzc'[x] = myzc[x]
  <2> SUFFICES ASSUME myzc'[x] # myzc[x] PROVE FALSE
    OBVIOUS
  <2>1. PICK h \in Handlers :
          /\ dispatch[h].pc = "settle" /\ TxHash[h[1]] = x
          /\ myzc'[x] = Settled(dispatch[h].tx.status)
    BY <1>1, MyzcChange DEF SettleInv, HttpInv
  <2> DEFINE k == Key(h[1])
             s == dispatch[h].tx.status
  <2>2. s \in Outcomes /\ Sender[h[1]] = Manager /\ HasOutcome(k, s) /\ k \in Keys
    BY <1>1, <2>1, LogKeys DEF SettleInv, DispatchedIsStored
  <2>3. PICK t \in Outcomes : myzc[x] = Settled(t)
    BY <1>1 DEF Settled, Outcomes
  <2>4. HasOutcome(k, t)
    <3>1. PICK l \in Logs : TxHash[l] = x /\ Sender[l] = Manager /\ HasOutcome(Key(l), t)
      BY <1>1, <2>3 DEF SettleInv, SettledIsStored
    <3>2. Key(l) = k
      BY <1>1, <2>1, <2>2, <3>1, LogKeys DEF OnePayment
    <3> QED
      BY <3>1, <3>2
  <2>5. s = t
    <3>1. Len(rows[k]) <= 1 /\ rows[k] \in Seq(Row)
      BY <1>1, <2>2 DEF SettleInv, HttpInv, UniqueRows, TypeInv, TypeOK
    <3> HIDE DEF k, s
    <3>2. \A i, j \in DOMAIN rows[k] : i = j
      BY <3>1
    <3> QED
      BY <2>2, <2>4, <3>2 DEF HasOutcome
  <2> QED
    BY <2>1, <2>3, <2>5
<1>2. OnePayment /\ SettleInv /\ [Next]_vars =>
        [\A x \in Hashes : myzc[x] \in {"success", "failed"} => myzc'[x] = myzc[x]]_vars
  BY <1>1
<1>3. OnePayment /\ [Next]_vars => OnePayment'
  BY DEF OnePayment
<1> QED
  BY <1>2, <1>3, SettleInvariant, PTL DEF Spec, SettledIsFinal
=============================================================================
