-------------------------- MODULE AccountingProofs --------------------------
(***************************************************************************)
(* Theorems about the accounting of deposits and draws (u_ols_wallet and   *)
(* u_ols_myzr), over http and for every value of the other constants.      *)
(***************************************************************************)
EXTENDS SettlementProofs, Sums

\* The accounting of k is under way and may still write to a wallet.
Writes == {"route", "charge", "both", "wallet", "transfer", "draw"}
Awaited(k) == \E h \in Handlers : Key(h[1]) = k /\ dispatch[h].pc \in Writes

\* The most that a transfer may have added to a wallet: its tokens, rounded,
\* from the moment its row is confirmed and its accounting has written.
IsConfirmed(k) == rows[k] # <<>> /\ rows[k][1].status = "confirmed"
Credit ==
  [k \in Keys |->
     IF IsConfirmed(k) /\ ~Awaited(k) THEN rows[k][1].tokenAmount + 5 ELSE 0]
Charged(m) == Total(Credit, DepositKeys(m))
Drawn(m) == Total(Credit, DrawKeys(m))

\* A wallet row, stored or read by a task, has no more than was added to it.
Backed(user, m) ==
  user.charge_amount <= Charged(m) /\ user.draw_amount <= Drawn(m)

\* The accounting of a transfer works on its row, which has an outcome; no
\* two invocations work on one.
DispatchedRow ==
  \A h \in Handlers : dispatch[h].pc # "idle" =>
    /\ rows[Key(h[1])] # <<>> /\ dispatch[h].tx = rows[Key(h[1])][1]
    /\ dispatch[h].tx.status \in Outcomes
    /\ \A g \in Handlers : dispatch[g].pc # "idle" /\ Key(g[1]) = Key(h[1]) => g = h

TaskBacked ==
  \A h \in Handlers :
    /\ dispatch[h].pc \in {"charge", "both", "wallet", "record"} => Sender[h[1]] # Manager
    /\ dispatch[h].pc \in {"both", "wallet"} =>
         /\ dispatch[h].tx.status = "confirmed" /\ Receiver[h[1]] \in Members
         /\ Backed(dispatch[h].user, Receiver[h[1]])
    /\ dispatch[h].pc \in {"transfer", "draw"} =>
         Sender[h[1]] = Manager /\ Receiver[h[1]] = Manager
    /\ dispatch[h].pc = "draw" =>
         /\ dispatch[h].tx.status = "confirmed" /\ Sender[h[1]] \in Members
         /\ Backed(dispatch[h].user, Sender[h[1]])

WalletBacked == \A m \in Members : Backed(wallet[m], m)

TaskInv == IsFiniteSet(Logs) /\ HttpInv /\ DispatchedRow
BackedInv == TaskInv /\ TaskBacked /\ WalletBacked

-----------------------------------------------------------------------------
(* The tasks and their rows.                                               *)

LEMMA KeysFinite ==
  ASSUME IsFiniteSet(Logs)
  PROVE  IsFiniteSet(Keys) /\ \A K \in SUBSET Keys : IsFiniteSet(K)
<1>1. IsFiniteSet({Key(l) : l \in Logs})
  <2>1. [l \in Logs |-> Key(l)] \in Surjection(Logs, {Key(l) : l \in Logs})
    BY DEF Surjection
  <2> QED
    BY <2>1, FS_Surjection
<1>2. IsFiniteSet({SavedKey(l) : l \in PendingLogs})
  <2>1. IsFiniteSet(PendingLogs)
    BY DataAssumption, FS_Subset
  <2>2. [l \in PendingLogs |-> SavedKey(l)] \in
          Surjection(PendingLogs, {SavedKey(l) : l \in PendingLogs})
    BY DEF Surjection
  <2> QED
    BY <2>1, <2>2, FS_Surjection
<1>3. IsFiniteSet(Keys)
  BY <1>1, <1>2, FS_Union DEF Keys
<1> QED
  BY <1>3, FS_Subset

\* A row of a key, over http the only one.
LEMMA OneRowOf ==
  ASSUME HttpInv, NEW k \in Keys, rows[k] # <<>>
  PROVE  /\ rows[k] \in Seq(Row) /\ Len(rows[k]) = 1 /\ DOMAIN rows[k] = {1}
         /\ rows[k][1] \in Row /\ FoundTx(k) = rows[k][1] /\ FoundTx(k) # NoTx
<1>1. rows[k] \in Seq(Row) /\ Len(rows[k]) <= 1 /\ rows \in [Keys -> Seq(Row)]
  BY DEF HttpInv, UniqueRows, TypeInv, TypeOK
<1>2. Len(rows[k]) = 1 /\ DOMAIN rows[k] = {1} /\ rows[k][1] \in Row
  <2>1. ASSUME NEW s \in Seq(Row), Len(s) <= 1, s # <<>>
        PROVE  Len(s) = 1
    <3>1. Len(s) \in Nat /\ Len(s) # 0
      BY <2>1, EmptySeq, Zenon
    <3> QED
      BY <2>1, <3>1
  <2>2. ASSUME NEW s \in Seq(Row), Len(s) = 1
        PROVE  DOMAIN s = {1} /\ s[1] \in Row
    BY <2>2
  <2> QED
    BY <1>1, <2>1, <2>2
<1>3. FoundTx(k) = rows[k][1] /\ FoundTx(k) # NoTx
  BY <1>1, FoundTxType DEF FoundTx
<1> QED
  BY <1>1, <1>2, <1>3

\* A save starts the accounting of a transfer that none of its rows was
\* accounted for, with the row it stores.
LEMMA SaveIsNew ==
  ASSUME HttpInv, NEW h \in Handlers, SaveTx(h), dispatch' # dispatch
  PROVE  /\ ~Accounted(Key(h[1]))
         /\ rows'[Key(h[1])] # <<>> /\ dispatch'[h].tx = rows'[Key(h[1])][1]
         /\ \A g \in Handlers : g # h => dispatch'[g] = dispatch[g]
<1> DEFINE k == Key(h[1])
           tx == handler[h].tx
           inserted == [status |-> handler[h].status, tokenAmount |-> Value[h[1]]]
           updated == [tx EXCEPT !.status = handler[h].status]
<1>0. /\ k \in Keys /\ rows \in [Keys -> Seq(Row)] /\ tx = FoundTx(k)
      /\ dispatch \in [Handlers -> DispatchState]
  BY LogKeys DEF SaveTx, HttpInv, FreshLookup, TypeInv, TypeOK
<1>1. ~Accounted(k)
  <2>1. tx = NoTx \/ IsPending(tx)
    BY DEF SaveTx
  <2>2. CASE rows[k] = <<>>
    BY <2>2 DEF Accounted
  <2>3. CASE rows[k] # <<>>
    <3>1. DOMAIN rows[k] = {1} /\ rows[k][1].status = "pending"
      BY <1>0, <2>1, <2>3, OneRowOf DEF IsPending
    <3> QED
      BY <3>1 DEF Accounted
  <2> QED
    BY <2>2, <2>3
<1>2. ASSUME NEW row, StartDispatch(h, row), rows'[k] # <<>>, rows'[k][1] = row
      PROVE  /\ rows'[k] # <<>> /\ dispatch'[h].tx = rows'[k][1]
             /\ \A g \in Handlers : g # h => dispatch'[g] = dispatch[g]
  BY <1>0, <1>2 DEF StartDispatch
<1>3. CASE /\ tx = NoTx /\ rows' = [rows EXCEPT ![k] = Append(@, inserted)]
           /\ StartDispatch(h, inserted)
  <2>1. rows[k] = <<>>
    BY <1>0, <1>3, FoundTxType
  <2> HIDE DEF inserted, k
  <2>2. rows'[k] = <<inserted>>
    BY <1>0, <1>3, <2>1
  <2>3. rows'[k] # <<>> /\ rows'[k][1] = inserted
    BY <2>2
  <2> QED
    BY <1>1, <1>2, <1>3, <2>3 DEF k
<1>4. CASE /\ IsPending(tx) /\ rows' = [rows EXCEPT ![k][1] = updated]
           /\ StartDispatch(h, updated)
  <2>1. tx # NoTx
    BY <1>4 DEF IsPending, NoTx
  <2>2. rows[k] # <<>>
    BY <1>0, <2>1, FoundTxType
  <2> HIDE DEF updated, k
  <2>3. rows'[k] # <<>> /\ rows'[k][1] = updated
    BY <1>0, <1>4, <2>2
  <2> QED
    BY <1>1, <1>2, <1>4, <2>3 DEF k
<1> QED
  BY <1>3, <1>4 DEF SaveTx

\* Over http the row of a transfer with an outcome stays as it is.
LEMMA RowStays ==
  ASSUME HttpInv, [Next]_vars, NEW k \in Keys, rows[k] # <<>>,
         rows[k][1].status \in Outcomes
  PROVE  rows'[k] # <<>> /\ rows'[k][1] = rows[k][1]
<1>1. 1 \in DOMAIN rows[k] /\ rows[k][1].status # "pending"
  BY OneRowOf DEF Outcomes
<1>2. rows'[k][1] = rows[k][1]
  BY <1>1, OutcomeStays
<1> QED
  BY <1>2, RowsStay DEF HttpInv

LEMMA BusyIsAccounted ==
  ASSUME TaskInv, NEW h \in Handlers, dispatch[h].pc # "idle"
  PROVE  /\ Key(h[1]) \in Keys /\ rows[Key(h[1])] # <<>>
         /\ rows[Key(h[1])][1].status \in Outcomes /\ Accounted(Key(h[1]))
<1>1. /\ Key(h[1]) \in Keys /\ rows[Key(h[1])] # <<>>
      /\ rows[Key(h[1])][1].status \in Outcomes
  BY LogKeys DEF TaskInv, DispatchedRow
<1>2. 1 \in DOMAIN rows[Key(h[1])]
  BY <1>1, OneRowOf DEF TaskInv
<1> QED
  BY <1>1, <1>2 DEF Accounted, Outcomes

\* The accounting of a transfer is new, or that of a moment ago.
LEMMA TaskCases ==
  ASSUME TaskInv, [Next]_vars, NEW h \in Handlers, dispatch'[h].pc # "idle"
  PROVE  \/ /\ SaveTx(h) /\ dispatch' # dispatch /\ ~Accounted(Key(h[1]))
            /\ dispatch'[h].pc = "route" /\ dispatch[h].pc = "idle"
         \/ /\ dispatch'[h] = dispatch[h] \/ GoesOn(h)
            /\ dispatch[h].pc # "idle" /\ dispatch'[h].tx = dispatch[h].tx
<1>1. CASE SaveTx(h) /\ dispatch' # dispatch
  <2>1. ~Accounted(Key(h[1])) /\ dispatch'[h].pc = "route"
    BY <1>1, SaveIsNew, SaveStarts DEF TaskInv
  <2> QED
    BY <1>1, <2>1, BusyIsAccounted
<1>2. CASE ~(SaveTx(h) /\ dispatch' # dispatch)
  <2>1. dispatch'[h] = dispatch[h] \/ GoesOn(h)
    BY <1>2, TaskSteps DEF TaskInv, HttpInv
  <2> QED
    BY <2>1 DEF GoesOn
<1> QED
  BY <1>1, <1>2

LEMMA TaskInit == RpcType = "http" /\ IsFiniteSet(Logs) /\ Init => TaskInv
<1>1. Init => \A h \in Handlers : dispatch[h].pc = "idle"
  BY DEF Init, NoDispatch
<1> QED
  BY <1>1, HttpInit DEF TaskInv, DispatchedRow

LEMMA TaskNext == TaskInv /\ [Next]_vars => TaskInv'
<1> SUFFICES ASSUME TaskInv, [Next]_vars PROVE TaskInv'
  OBVIOUS
<1>1. HttpInv' /\ IsFiniteSet(Logs)
  BY HttpNext DEF TaskInv
<1>2. ASSUME NEW h \in Handlers, dispatch'[h].pc # "idle"
      PROVE  /\ rows'[Key(h[1])] # <<>> /\ dispatch'[h].tx = rows'[Key(h[1])][1]
             /\ dispatch'[h].tx.status \in Outcomes
  <2>1. CASE SaveTx(h) /\ dispatch' # dispatch
    BY <2>1, SaveIsNew, SaveStarts DEF TaskInv
  <2>2. CASE dispatch[h].pc # "idle" /\ dispatch'[h].tx = dispatch[h].tx
    <3> DEFINE k == Key(h[1])
    <3>1. /\ k \in Keys /\ rows[k] # <<>> /\ dispatch[h].tx = rows[k][1]
          /\ rows[k][1].status \in Outcomes
      BY <2>2, LogKeys DEF TaskInv, DispatchedRow
    <3>2. rows'[k] # <<>> /\ rows'[k][1] = rows[k][1]
      BY <3>1, RowStays DEF TaskInv
    <3> QED
      BY <2>2, <3>1, <3>2
  <2> QED
    BY <1>2, <2>1, <2>2, TaskCases
<1>3. ASSUME NEW h \in Handlers, dispatch'[h].pc # "idle",
             NEW g \in Handlers, dispatch'[g].pc # "idle", Key(g[1]) = Key(h[1])
      PROVE  g = h
  <2>1. ASSUME NEW x \in Handlers, NEW y \in Handlers, SaveTx(x), dispatch' # dispatch,
               dispatch'[y].pc # "idle", Key(x[1]) = Key(y[1])
        PROVE  x = y
    <3>1. ~Accounted(Key(x[1])) /\ (x # y => dispatch'[y] = dispatch[y])
      BY <2>1, SaveIsNew DEF TaskInv
    <3> QED
      BY <2>1, <3>1, BusyIsAccounted
  <2>2. CASE dispatch[h].pc # "idle" /\ dispatch[g].pc # "idle"
    BY <1>3, <2>2 DEF TaskInv, DispatchedRow
  <2> QED
    BY <1>3, <2>1, <2>2, TaskCases
<1> QED
  BY <1>1, <1>2, <1>3 DEF TaskInv, DispatchedRow

-----------------------------------------------------------------------------
(* What transfers may have added to wallets only grows.                    *)

LEMMA FirstRow == ASSUME NEW s \in Seq(Row), s # <<>> PROVE s[1] \in Row
<1>1. Len(s) \in Nat /\ Len(s) # 0
  BY EmptySeq, Zenon
<1> QED
  BY <1>1

\* A transfer whose accounting has written is not accounted for again.
LEMMA AwaitedIsOver ==
  ASSUME TaskInv, [Next]_vars, NEW k \in Keys, IsConfirmed(k), ~Awaited(k)
  PROVE  ~Awaited(k)'
<1> SUFFICES ASSUME NEW h \in Handlers, Key(h[1]) = k, dispatch'[h].pc \in Writes
             PROVE  FALSE
  BY DEF Awaited
<1>1. Accounted(k)
  BY OneRowOf DEF IsConfirmed, Accounted, TaskInv
<1>2. dispatch'[h].pc # "idle"
  BY DEF Writes
<1>3. dispatch'[h] = dispatch[h] \/ GoesOn(h)
  BY <1>1, <1>2, TaskCases
<1>4. dispatch[h].pc \in Writes
  BY <1>3 DEF GoesOn, Writes
<1> QED
  BY <1>4 DEF Awaited

LEMMA CreditGrows ==
  ASSUME TaskInv, [Next]_vars
  PROVE  \A k \in Keys : /\ Credit[k] \in Nat /\ Credit'[k] \in Nat
                         /\ Credit[k] <= Credit'[k]
<1> TAKE k \in Keys
<1>1. Credit[k] = IF IsConfirmed(k) /\ ~Awaited(k) THEN rows[k][1].tokenAmount + 5 ELSE 0
  BY DEF Credit
<1>2. Credit'[k] = IF IsConfirmed(k)' /\ ~Awaited(k)' THEN rows'[k][1].tokenAmount + 5 ELSE 0
  BY DEF Credit
<1>3. (IsConfirmed(k) => rows[k][1] \in Row) /\ (IsConfirmed(k)' => rows'[k][1] \in Row)
  <2>1. rows[k] \in Seq(Row) /\ rows'[k] \in Seq(Row)
    BY TypeNext DEF TaskInv, HttpInv, TypeInv, TypeOK
  <2> QED
    BY <2>1, FirstRow DEF IsConfirmed
<1>4. ASSUME IsConfirmed(k), ~Awaited(k)
      PROVE  IsConfirmed(k)' /\ ~Awaited(k)' /\ rows'[k][1] = rows[k][1]
  <2>1. rows'[k] # <<>> /\ rows'[k][1] = rows[k][1]
    BY <1>4, RowStays DEF IsConfirmed, TaskInv, Outcomes
  <2> QED
    BY <1>4, <2>1, AwaitedIsOver DEF IsConfirmed
<1>5. ASSUME NEW r \in Row
      PROVE  r.tokenAmount \in Nat
  BY DEF Row
<1> QED
  BY <1>1, <1>2, <1>3, <1>4, <1>5

LEMMA TotalsGrow ==
  ASSUME TaskInv, [Next]_vars, NEW K \in SUBSET Keys
  PROVE  /\ Total(Credit, K) \in Nat /\ Total(Credit', K) \in Nat
         /\ Total(Credit, K) <= Total(Credit', K)
         /\ \A k \in K :
              Total(Credit, K) + (Credit'[k] - Credit[k]) <= Total(Credit', K)
<1>1. IsFiniteSet(K) /\ \A k \in K : /\ Credit[k] \in Nat /\ Credit'[k] \in Nat
                                     /\ Credit[k] <= Credit'[k]
  BY KeysFinite, CreditGrows DEF TaskInv
<1>2. ASSUME NEW F, NEW G,
             \A k \in K : F[k] \in Nat /\ G[k] \in Nat /\ F[k] <= G[k]
      PROVE  /\ Total(F, K) \in Nat /\ Total(G, K) \in Nat
             /\ Total(F, K) <= Total(G, K)
             /\ \A k \in K : Total(F, K) + (G[k] - F[k]) <= Total(G, K)
  <2>1. \A k \in K : F[k] \in Int /\ G[k] \in Int
    BY <1>2
  <2>2. Total(F, K) \in Nat /\ Total(G, K) \in Nat
    BY <1>1, <1>2, TotalNat
  <2>3. Total(F, K) <= Total(G, K)
    BY <1>1, <1>2, <2>1, TotalLess
  <2>4. \A k \in K : Total(F, K) + (G[k] - F[k]) <= Total(G, K)
    BY <1>1, <1>2, <2>1, TotalGrows
  <2> QED
    BY <2>2, <2>3, <2>4
<1> QED
  BY <1>1, <1>2

LEMMA BackedStays ==
  ASSUME TaskInv, [Next]_vars, NEW m, NEW u \in WalletRow, Backed(u, m)
  PROVE  u.charge_amount <= Charged(m)' /\ u.draw_amount <= Drawn(m)'
<1>1. u.charge_amount \in Int /\ u.draw_amount \in Int
  BY ColumnAssumption DEF WalletRow, Column, NULL
<1>2. DepositKeys(m) \in SUBSET Keys /\ DrawKeys(m) \in SUBSET Keys
  BY DEF DepositKeys, DrawKeys
<1>3. /\ Charged(m) \in Nat /\ Charged(m)' \in Nat /\ Charged(m) <= Charged(m)'
      /\ Drawn(m) \in Nat /\ Drawn(m)' \in Nat /\ Drawn(m) <= Drawn(m)'
  BY <1>2, TotalsGrow DEF Charged, Drawn
<1> QED
  BY <1>1, <1>3 DEF Backed

\* Only the two writes of the accounting change a wallet.
LEMMA WalletSteps ==
  ASSUME TypeInv, [Next]_vars, NEW m \in Members, wallet'[m] # wallet[m]
  PROVE  \E h \in Handlers :
    LET user == dispatch[h].user
        tokens == dispatch[h].tx.tokenAmount
    IN
    /\ \A g \in Handlers : g # h => dispatch'[g] = dispatch[g]
    /\ dispatch'[h].pc \notin Writes
    /\ \/ /\ dispatch[h].pc \in {"both", "wallet"} /\ m = Receiver[h[1]]
          /\ wallet'[m].charge_amount = Stored(parsePlus(user.charge_amount, tokens))
          /\ wallet'[m].amount = Stored(parsePlus(user.amount, tokens))
          /\ wallet'[m].draw_amount = user.draw_amount
       \/ /\ dispatch[h].pc = "draw" /\ m = Sender[h[1]]
          /\ wallet'[m].charge_amount = user.charge_amount
          /\ wallet'[m].amount = user.amount
          /\ wallet'[m].draw_amount = Stored(parsePlus(user.draw_amount, tokens))
<1> USE DEF chainVars, linkVars, moneyVars
<1>0. /\ wallet \in [Members -> WalletRow] /\ dispatch \in [Handlers -> DispatchState]
      /\ \A h \in Handlers : dispatch[h].user \in WalletRow
  BY DEF TypeInv, TypeOK, DispatchState
<1>1. ~UNCHANGED vars /\ ~Environment /\ ~JobStep
  BY DEF vars, Environment, RejectJob, Restoring, NewBlock, Reorg, LinkWithdrawal,
     Deliver, WsClose,
     Reconnect, Crash, Restart, CreateConnection, JobStep, JobStart, JobFetch,
     JobNext, JobDone, Restoring
<1>2. PICK h \in Handlers : addUserCoin(h) \/ addUserDrawCoin(h)
  <2>1. ASSUME NEW h \in Handlers, HandlerStep(h) \/ RejectHandler(h)
        PROVE  FALSE
    BY <2>1 DEF HandlerStep, FindTx, GetReceipt, SaveTx, RejectHandler
  <2>2. ASSUME NEW h \in Handlers, DispatchStep(h) \/ RejectDispatch(h)
        PROVE  addUserCoin(h) \/ addUserDrawCoin(h)
    BY <2>2 DEF DispatchStep, Route, Charge, InsertMyzr, Transfer, Withdraw, Settle,
       RejectDispatch
  <2> QED
    BY <1>1, <2>1, <2>2, NextParts
<1>3. /\ \A g \in Handlers : g # h => dispatch'[g] = dispatch[g]
      /\ dispatch'[h].pc \notin Writes
  <2>1. EndDispatch(h) \/ DispatchTo(h, "record")
    BY <1>2 DEF addUserCoin, addUserDrawCoin, FinishWrite
  <2>2. CASE EndDispatch(h)
    BY <1>0, <2>2 DEF EndDispatch, NoDispatch, Writes
  <2>3. CASE DispatchTo(h, "record")
    BY <1>0, <2>3 DEF DispatchTo, DispatchState, Writes
  <2> QED
    BY <2>1, <2>2, <2>3
<1> DEFINE user == dispatch[h].user
           tokens == dispatch[h].tx.tokenAmount
           charge_amount == parsePlus(user.charge_amount, tokens)
           token_amount == parsePlus(user.amount, tokens)
           draw_amount == parsePlus(user.draw_amount, tokens)
<1>4. CASE addUserCoin(h)
  <2>1. /\ dispatch[h].pc \in {"both", "wallet"} /\ m = Receiver[h[1]]
        /\ wallet'[m] = [user EXCEPT !.charge_amount = Stored(charge_amount),
                                     !.amount = Stored(token_amount)]
    BY <1>0, <1>4 DEF addUserCoin, Dispatching
  <2> HIDE DEF charge_amount, token_amount
  <2>2. /\ wallet'[m].charge_amount = Stored(charge_amount)
        /\ wallet'[m].amount = Stored(token_amount)
        /\ wallet'[m].draw_amount = user.draw_amount
    BY <1>0, <2>1 DEF WalletRow
  <2> QED
    BY <1>3, <2>1, <2>2 DEF charge_amount, token_amount
<1>5. CASE addUserDrawCoin(h)
  <2>1. /\ dispatch[h].pc = "draw" /\ m = Sender[h[1]]
        /\ wallet'[m] = [user EXCEPT !.draw_amount = Stored(draw_amount)]
    BY <1>0, <1>5 DEF addUserDrawCoin, Dispatching
  <2> HIDE DEF draw_amount
  <2>2. /\ wallet'[m].draw_amount = Stored(draw_amount)
        /\ wallet'[m].amount = user.amount
        /\ wallet'[m].charge_amount = user.charge_amount
    BY <1>0, <2>1 DEF WalletRow
  <2> QED
    BY <1>3, <2>1, <2>2 DEF draw_amount
<1> QED
  BY <1>2, <1>4, <1>5

\* Rounding adds at most half a cent; a NULL column becomes 0.
LEMMA StoredBound ==
  ASSUME NEW c \in Column, NEW a \in Nat
  PROVE  Stored(parsePlus(c, a)) = 0 \/ Stored(parsePlus(c, a)) <= c + a + 5
<1>1. MaxColumn \in Nat
  BY ColumnAssumption
<1>2. ASSUME NEW v \in Nat
      PROVE  Rounded(v) \in Nat /\ Rounded(v) <= v + 5
  BY <1>2 DEF Rounded
<1>3. CASE c = NULL
  BY <1>3 DEF Stored, parsePlus
<1>4. CASE c # NULL
  <2>1. parsePlus(c, a) = c + a /\ c + a \in Nat /\ c + a # NULL
    BY <1>1, <1>4 DEF parsePlus, Column, NULL
  <2>2. Rounded(c + a) \in Nat /\ Rounded(c + a) <= c + a + 5
    BY <1>2, <2>1
  <2>3. Stored(c + a) = IF Rounded(c + a) > MaxColumn THEN MaxColumn ELSE Rounded(c + a)
    BY <2>1 DEF Stored
  <2> QED
    BY <1>1, <2>1, <2>2, <2>3
<1> QED
  BY <1>3, <1>4

-----------------------------------------------------------------------------
(* No wallet has more than was added to it.                                *)

\* The step that writes the tokens of a transfer to a wallet is the one from
\* which they count.
LEMMA WrittenIsCredited ==
  ASSUME TaskInv, [Next]_vars, NEW h \in Handlers, dispatch[h].pc \in Writes,
         dispatch[h].tx.status = "confirmed", dispatch'[h].pc \notin Writes,
         \A g \in Handlers : g # h => dispatch'[g] = dispatch[g],
         NEW K \in SUBSET Keys, Key(h[1]) \in K
  PROVE  /\ dispatch[h].tx.tokenAmount \in Nat
         /\ Total(Credit, K) + dispatch[h].tx.tokenAmount + 5 <= Total(Credit', K)
<1> DEFINE k == Key(h[1])
           tokens == dispatch[h].tx.tokenAmount
<1>1. dispatch[h].pc # "idle"
  BY DEF Writes
<1>2. k \in Keys /\ rows[k] # <<>> /\ dispatch[h].tx = rows[k][1]
  BY <1>1, LogKeys DEF TaskInv, DispatchedRow
<1>3. rows'[k] # <<>> /\ rows'[k][1] = dispatch[h].tx
  BY <1>2, RowStays DEF TaskInv, Outcomes
<1>4. tokens \in Nat
  <2>1. dispatch[h].tx \in Row
    BY <1>2, OneRowOf DEF TaskInv
  <2> QED
    BY <2>1 DEF Row
<1>5. Credit[k] = 0
  BY <1>2 DEF Credit, Awaited
<1>6. ~Awaited(k)'
  <2> SUFFICES ASSUME NEW g \in Handlers, Key(g[1]) = k, dispatch'[g].pc \in Writes
               PROVE  FALSE
    BY DEF Awaited
  <2>1. g # h /\ dispatch[g].pc # "idle"
    BY DEF Writes
  <2> QED
    BY <1>1, <2>1 DEF TaskInv, DispatchedRow
<1>7. Credit'[k] = tokens + 5
  <2>1. IsConfirmed(k)'
    BY <1>3 DEF IsConfirmed
  <2> QED
    BY <1>2, <1>3, <1>6, <2>1 DEF Credit
<1>8. /\ Total(Credit, K) \in Nat /\ Total(Credit', K) \in Nat
      /\ Total(Credit, K) + (Credit'[k] - Credit[k]) <= Total(Credit', K)
  BY TotalsGrow
<1> QED
  BY <1>4, <1>5, <1>7, <1>8

LEMMA BackedInit == RpcType = "http" /\ IsFiniteSet(Logs) /\ Init => BackedInv
<1> SUFFICES ASSUME RpcType = "http", IsFiniteSet(Logs), Init PROVE BackedInv
  OBVIOUS
<1>1. \A h \in Handlers : dispatch[h].pc = "idle"
  BY DEF Init, NoDispatch
<1>2. ASSUME NEW m \in Members PROVE Backed(wallet[m], m)
  <2>1. \A k \in Keys : Credit[k] \in Nat
    <3>1. ASSUME NEW k \in Keys PROVE ~IsConfirmed(k)
      <4>1. rows[k] = <<>> \/ \E l \in PendingLogs : rows[k] = <<PendingRow(l)>>
        BY DEF Init
      <4>2. ASSUME NEW l \in PendingLogs, rows[k] = <<PendingRow(l)>>
            PROVE  rows[k][1].status = "pending"
        BY <4>2 DEF PendingRow
      <4> QED
        BY <4>1, <4>2 DEF IsConfirmed
    <3> QED
      BY <3>1 DEF Credit
  <2>2. ASSUME NEW K \in SUBSET Keys
        PROVE  Total(Credit, K) \in Nat
    BY <2>1, KeysFinite, TotalNat
  <2>3. Charged(m) \in Nat /\ Drawn(m) \in Nat
    BY <2>2 DEF Charged, Drawn, DepositKeys, DrawKeys
  <2>4. wallet[m] \in {NoUser, NullUser}
    BY DEF Init
  <2> QED
    BY <2>3, <2>4 DEF Backed, NoUser, NullUser, NULL
<1> QED
  BY <1>1, <1>2, TaskInit DEF BackedInv, TaskBacked, WalletBacked

LEMMA BackedNext == BackedInv /\ [Next]_vars => BackedInv'
<1> SUFFICES ASSUME BackedInv, [Next]_vars PROVE BackedInv'
  OBVIOUS
<1>0. /\ TaskInv /\ TaskInv' /\ TypeInv
      /\ dispatch \in [Handlers -> DispatchState] /\ wallet \in [Members -> WalletRow]
      /\ \A h \in Handlers : dispatch[h].user \in WalletRow
  BY TaskNext DEF BackedInv, TaskInv, HttpInv, TypeInv, TypeOK, DispatchState
<1>1. ASSUME NEW m, NEW u \in WalletRow, Backed(u, m)
      PROVE  u.charge_amount <= Charged(m)' /\ u.draw_amount <= Drawn(m)'
  BY <1>0, <1>1, BackedStays
<1>2. ASSUME NEW h \in Handlers
      PROVE  /\ dispatch'[h].pc \in {"charge", "both", "wallet", "record"} =>
                  Sender[h[1]] # Manager
             /\ dispatch'[h].pc \in {"transfer", "draw"} =>
                  Sender[h[1]] = Manager /\ Receiver[h[1]] = Manager
             /\ dispatch'[h].pc \in {"both", "wallet"} =>
                  /\ dispatch'[h].tx.status = "confirmed" /\ Receiver[h[1]] \in Members
                  /\ Backed(dispatch[h].user, Receiver[h[1]])'
             /\ dispatch'[h].pc = "draw" =>
                  /\ dispatch'[h].tx.status = "confirmed" /\ Sender[h[1]] \in Members
                  /\ Backed(dispatch[h].user, Sender[h[1]])'
  <2>1. CASE dispatch'[h] = dispatch[h]
    <3>1. ASSUME NEW m, Backed(dispatch[h].user, m)
          PROVE  Backed(dispatch[h].user, m)'
      BY <1>0, <1>1, <2>1, <3>1 DEF Backed
    <3> QED
      BY <2>1, <3>1 DEF BackedInv, TaskBacked
  <2>2. CASE GoesOn(h)
    <3>1. ASSUME NEW m \in Members, dispatch'[h].user = wallet[m]
          PROVE  Backed(dispatch[h].user, m)'
      <4>1. wallet[m] \in WalletRow /\ Backed(wallet[m], m)
        BY <1>0 DEF BackedInv, WalletBacked
      <4> QED
        BY <1>1, <3>1, <4>1 DEF Backed
    <3>2. ASSUME NEW m, dispatch'[h].user = dispatch[h].user, Backed(dispatch[h].user, m)
          PROVE  Backed(dispatch[h].user, m)'
      BY <1>0, <1>1, <3>2 DEF Backed
    <3> QED
      BY <2>2, <3>1, <3>2 DEF GoesOn, BackedInv, TaskBacked
  <2>3. CASE dispatch'[h].pc \in {"idle", "route"}
    BY <2>3
  <2> QED
    BY <1>0, <2>1, <2>2, <2>3, TaskCases
<1>3. ASSUME NEW m \in Members PROVE Backed(wallet[m], m)'
  <2>1. CASE wallet'[m] = wallet[m]
    BY <1>0, <1>1, <2>1 DEF Backed, BackedInv, WalletBacked
  <2>2. CASE wallet'[m] # wallet[m]
    <3>1. PICK h \in Handlers :
            LET user == dispatch[h].user
                tokens == dispatch[h].tx.tokenAmount
            IN
            /\ \A g \in Handlers : g # h => dispatch'[g] = dispatch[g]
            /\ dispatch'[h].pc \notin Writes
            /\ \/ /\ dispatch[h].pc \in {"both", "wallet"} /\ m = Receiver[h[1]]
                  /\ wallet'[m].charge_amount = Stored(parsePlus(user.charge_amount, tokens))
                  /\ wallet'[m].amount = Stored(parsePlus(user.amount, tokens))
                  /\ wallet'[m].draw_amount = user.draw_amount
               \/ /\ dispatch[h].pc = "draw" /\ m = Sender[h[1]]
                  /\ wallet'[m].charge_amount = user.charge_amount
                  /\ wallet'[m].amount = user.amount
                  /\ wallet'[m].draw_amount = Stored(parsePlus(user.draw_amount, tokens))
      BY <1>0, <2>2, WalletSteps
    <3> DEFINE k == Key(h[1])
               user == dispatch[h].user
               tokens == dispatch[h].tx.tokenAmount
    <3>2. /\ user \in WalletRow /\ Backed(user, m) /\ dispatch[h].pc \in Writes
          /\ dispatch[h].tx.status = "confirmed"
      BY <1>0, <3>1 DEF BackedInv, TaskBacked, Writes
    <3>3. k \in Keys /\ k[2] = Sender[h[1]] /\ k[3] = Receiver[h[1]]
      BY LogKeys DEF Key
    <3>4. ASSUME NEW K \in SUBSET Keys, k \in K, NEW c \in Column, c <= Total(Credit, K)
          PROVE  Stored(parsePlus(c, tokens)) <= Total(Credit', K)
      <4>1. tokens \in Nat /\ Total(Credit, K) + tokens + 5 <= Total(Credit', K)
        BY <1>0, <3>1, <3>2, <3>4, WrittenIsCredited
      <4>2. Total(Credit, K) \in Nat /\ Total(Credit', K) \in Nat
        BY <1>0, TotalsGrow
      <4>3. c \in Int
        BY ColumnAssumption DEF Column, NULL
      <4>4. Stored(parsePlus(c, tokens)) = 0 \/ Stored(parsePlus(c, tokens)) <= c + tokens + 5
        BY <4>1, StoredBound
      <4>5. Stored(parsePlus(c, tokens)) \in Int
        <5>1. Stored(parsePlus(c, tokens)) \in Column
          BY <4>1, StoredType
        <5> QED
          BY <5>1, ColumnAssumption DEF Column, NULL
      <4> QED
        BY <3>4, <4>1, <4>2, <4>3, <4>4, <4>5
    <3>5. user.charge_amount <= Charged(m)' /\ user.draw_amount <= Drawn(m)'
      BY <1>1, <3>2
    <3>6. user.charge_amount \in Column /\ user.draw_amount \in Column
      BY <3>2 DEF WalletRow
    <3>7. CASE /\ dispatch[h].pc \in {"both", "wallet"} /\ m = Receiver[h[1]]
               /\ wallet'[m].charge_amount = Stored(parsePlus(user.charge_amount, tokens))
               /\ wallet'[m].draw_amount = user.draw_amount
      <4>1. k \in DepositKeys(m) /\ DepositKeys(m) \in SUBSET Keys
        BY <3>3, <3>7 DEF BackedInv, TaskBacked, DepositKeys
      <4>2. Stored(parsePlus(user.charge_amount, tokens)) <= Total(Credit', DepositKeys(m))
        BY <3>2, <3>4, <3>6, <4>1 DEF Backed, Charged
      <4> QED
        BY <3>5, <3>7, <4>2 DEF Backed, Charged
    <3>8. CASE /\ dispatch[h].pc = "draw" /\ m = Sender[h[1]]
               /\ wallet'[m].charge_amount = user.charge_amount
               /\ wallet'[m].draw_amount = Stored(parsePlus(user.draw_amount, tokens))
      <4>1. k \in DrawKeys(m) /\ DrawKeys(m) \in SUBSET Keys
        BY <3>3, <3>8 DEF BackedInv, TaskBacked, DrawKeys
      <4>2. Stored(parsePlus(user.draw_amount, tokens)) <= Total(Credit', DrawKeys(m))
        BY <3>2, <3>4, <3>6, <4>1 DEF Backed, Drawn
      <4> QED
        BY <3>5, <3>8, <4>2 DEF Backed, Drawn
    <3> QED
      BY <3>1, <3>7, <3>8
  <2> QED
    BY <2>1, <2>2
<1> QED
  BY <1>0, <1>2, <1>3 DEF BackedInv, TaskBacked, WalletBacked

LEMMA BackedInvariant ==
  RpcType = "http" /\ IsFiniteSet(Logs) /\ Spec => []BackedInv
BY BackedInit, BackedNext, PTL DEF Spec

\* What the rows of a key add up to: its one row, if that is confirmed.
LEMMA RowTotals ==
  ASSUME HttpInv, NEW k \in Keys
  PROVE  /\ RowTotal(k) \in Nat
         /\ IsConfirmed(k) <=> ConfirmedRows(k) # {}
         /\ RowTotal(k) = IF IsConfirmed(k) THEN rows[k][1].tokenAmount ELSE 0
<1> DEFINE F == [i \in DOMAIN rows[k] |-> rows[k][i].tokenAmount]
           C == ConfirmedRows(k)
<1>1. RowTotal(k) = Total(F, C)
  BY Zenon DEF RowTotal, ConfirmedRows, Total, MapThenSumSet, MapThenFoldSet
<1>2. CASE rows[k] = <<>>
  <2>1. C = {} /\ ~IsConfirmed(k)
    BY <1>2 DEF ConfirmedRows, IsConfirmed
  <2> HIDE DEF F
  <2> QED
    BY <1>1, <2>1, TotalEmpty
<1>3. CASE rows[k] # <<>>
  <2>1. DOMAIN rows[k] = {1} /\ rows[k][1] \in Row
    BY <1>3, OneRowOf
  <2>2. CASE IsConfirmed(k)
    <3>1. C = {1} /\ F[1] = rows[k][1].tokenAmount /\ F[1] \in Nat
      BY <2>1, <2>2 DEF IsConfirmed, ConfirmedRows, Row
    <3>2. IsFiniteSet({1})
      BY FS_Singleton
    <3> HIDE DEF F
    <3>3. Total(F, {1}) = F[1]
      BY <3>1, <3>2, TotalOnly
    <3> QED
      BY <1>1, <2>2, <3>1, <3>3
  <2>3. CASE ~IsConfirmed(k)
    <3>1. C = {}
      BY <1>3, <2>1, <2>3 DEF IsConfirmed, ConfirmedRows
    <3> HIDE DEF F
    <3> QED
      BY <1>1, <2>3, <3>1, TotalEmpty
  <2> QED
    BY <2>2, <2>3
<1> QED
  BY <1>2, <1>3

\* The sum of the row totals of some keys, as a sum over them.
Totals == [k \in Keys |-> RowTotal(k)]

LEMMA TotalsOf ==
  ASSUME NEW K \in SUBSET Keys
  PROVE  MapThenSumSet(RowTotal, K) = Total(Totals, K)
BY Zenon DEF Total, MapThenSumSet, MapThenFoldSet, Totals

\* What the confirmed transfers amount to at most, rounded.
Due == [k \in Keys |-> IF IsConfirmed(k) THEN rows[k][1].tokenAmount + 5 ELSE 0]

LEMMA DueTotal ==
  ASSUME TaskInv, NEW K \in SUBSET Keys
  PROVE  /\ \A k \in K : Due[k] \in Nat
         /\ Total(Due, K) = MapThenSumSet(RowTotal, K) + HalfCents(K)
<1>1. MapThenSumSet(RowTotal, K) = Total(Totals, K)
  BY TotalsOf
<1>2. IsFiniteSet(K)
  BY KeysFinite DEF TaskInv
<1>3. \A k \in K : /\ Totals[k] \in Nat /\ Due[k] \in Nat
                   /\ Due[k] = Totals[k] + (IF ConfirmedRows(k) # {} THEN 5 ELSE 0)
  <2> SUFFICES ASSUME NEW k \in K
               PROVE  /\ Totals[k] \in Nat /\ Due[k] \in Nat
                      /\ Due[k] = Totals[k] + (IF ConfirmedRows(k) # {} THEN 5 ELSE 0)
    OBVIOUS
  <2>1. /\ RowTotal(k) \in Nat /\ (IsConfirmed(k) <=> ConfirmedRows(k) # {})
        /\ RowTotal(k) = IF IsConfirmed(k) THEN rows[k][1].tokenAmount ELSE 0
    BY RowTotals DEF TaskInv
  <2> QED
    BY <2>1 DEF Due, Totals
<1>4. Total(Due, K) = Total(Totals, K) + 5 * Cardinality({k \in K : ConfirmedRows(k) # {}})
  <2> DEFINE Some == {k \in K : ConfirmedRows(k) # {}}
  <2>1. \A k \in K : Totals[k] \in Int /\ Due[k] \in {Totals[k], Totals[k] + 5}
    BY <1>3
  <2>2. Some = {k \in K : Due[k] # Totals[k]}
    <3>1. \A k \in K : ConfirmedRows(k) # {} <=> Due[k] # Totals[k]
      BY <1>3
    <3> QED
      BY <3>1
  <2> HIDE DEF Some
  <2> QED
    BY <1>2, <2>1, <2>2, TotalCount DEF Some
<1> QED
  BY <1>1, <1>3, <1>4 DEF HalfCents

LEMMA CreditBound ==
  ASSUME TaskInv, NEW K \in SUBSET Keys, NEW c \in Int, c <= Total(Credit, K)
  PROVE  c <= MapThenSumSet(RowTotal, K) + HalfCents(K)
<1>1. IsFiniteSet(K) /\ \A k \in K : Due[k] \in Nat
  BY KeysFinite, DueTotal DEF TaskInv
<1>2. \A k \in K : Credit[k] \in Int /\ Due[k] \in Int /\ Credit[k] <= Due[k]
  BY <1>1 DEF Credit, Due
<1>3. /\ Total(Credit, K) <= Total(Due, K)
      /\ Total(Credit, K) \in Int /\ Total(Due, K) \in Int
  BY <1>1, <1>2, TotalLess, TotalInt
<1>4. c <= Total(Due, K)
  BY <1>3
<1> QED
  BY <1>4, DueTotal

LEMMA BackedByRows == BackedInv => WalletBackedByRows
<1> SUFFICES ASSUME BackedInv, NEW m \in Members
             PROVE  /\ wallet[m].charge_amount <= DepositTotal(m) + HalfCents(DepositKeys(m))
                    /\ wallet[m].draw_amount <= DrawTotal(m) + HalfCents(DrawKeys(m))
  BY DEF WalletBackedByRows
<1>1. Backed(wallet[m], m)
  BY DEF BackedInv, WalletBacked
<1>2. wallet[m].charge_amount \in Int /\ wallet[m].draw_amount \in Int
  <2>1. wallet[m] \in WalletRow
    BY DEF BackedInv, TaskInv, HttpInv, TypeInv, TypeOK
  <2> QED
    BY <2>1, ColumnAssumption DEF WalletRow, Column, NULL
<1>3. DepositKeys(m) \in SUBSET Keys /\ DrawKeys(m) \in SUBSET Keys
  BY DEF DepositKeys, DrawKeys
<1> QED
  BY <1>1, <1>2, <1>3, CreditBound DEF BackedInv, Backed, Charged, Drawn,
     DepositTotal, DrawTotal

\* Over http no wallet is charged more than the confirmed deposits of its
\* member add up to, but for rounding, and none is drawn on for more than the
\* confirmed payments, however the accounting of any number of transfers
\* overlaps, and whatever crashes, rejections, NULLs and out-of-range columns
\* it meets.  The transfers are finitely many, for the sums to mean anything.
THEOREM HttpWalletBacked ==
  RpcType = "http" /\ IsFiniteSet(Logs) /\ Spec => []WalletBackedByRows
BY BackedByRows, BackedInvariant, PTL

-----------------------------------------------------------------------------
(* Wallets that only one accounting holds at a time.                       *)

\* The accounting of h has read the wallet of m and not yet written it.
Holds(h, m) ==
  \/ dispatch[h].pc \in {"both", "wallet"} /\ m = Receiver[h[1]]
  \/ dispatch[h].pc = "draw" /\ m = Sender[h[1]]

\* No two accountings hold the same wallet at once.
NoOverlap ==
  \A m \in Members : \A g, h \in Handlers : Holds(g, m) /\ Holds(h, m) => g = h

\* What is held is the current row, and the columns are rounded.
Tens(c) == c = NULL \/ c % 10 = 0
FreshUser ==
  /\ \A m \in Members : \A h \in Handlers :
       Holds(h, m) => dispatch[h].user = wallet[m]
  /\ \A m \in Members : /\ Tens(wallet[m].charge_amount) /\ Tens(wallet[m].draw_amount)
                        /\ wallet[m].amount = wallet[m].charge_amount

\* Storing a sum rounds it, and never below a rounded summand.
LEMMA StoredGrows ==
  ASSUME NEW c \in Column, NEW a \in Nat, Tens(c)
  PROVE  Stored(parsePlus(c, a)) >= c /\ Tens(Stored(parsePlus(c, a)))
<1>1. MaxColumn \in Nat /\ MaxColumn % 10 = 0
  BY ColumnAssumption
<1>2. CASE c = NULL
  BY <1>2 DEF Stored, parsePlus, Tens, NULL
<1>3. CASE c # NULL
  <2>1. c \in Nat /\ c <= MaxColumn /\ c % 10 = 0
    BY <1>1, <1>3 DEF Column, NULL, Tens
  <2>2. Rounded(c + a) \in Nat /\ Rounded(c + a) >= c /\ Rounded(c + a) % 10 = 0
    BY <2>1 DEF Rounded
  <2>3. Stored(parsePlus(c, a)) =
          IF Rounded(c + a) > MaxColumn THEN MaxColumn ELSE Rounded(c + a)
    BY <1>3, <2>1 DEF Stored, parsePlus, NULL
  <2> QED
    BY <1>1, <2>1, <2>2, <2>3 DEF Tens
<1> QED
  BY <1>2, <1>3

\* The step that writes a wallet is taken by the one accounting that holds it.
LEMMA HeldIsWritten ==
  ASSUME TypeInv, NoOverlap, FreshUser, [Next]_vars,
         NEW m \in Members, wallet'[m] # wallet[m]
  PROVE  \E h \in Handlers :
           /\ Holds(h, m) /\ dispatch'[h].pc \notin Writes
           /\ \A g \in Handlers : Holds(g, m) => g = h
           /\ \E tokens \in Nat :
                \/ /\ wallet'[m].charge_amount =
                        Stored(parsePlus(wallet[m].charge_amount, tokens))
                   /\ wallet'[m].amount = Stored(parsePlus(wallet[m].amount, tokens))
                   /\ wallet'[m].draw_amount = wallet[m].draw_amount
                \/ /\ wallet'[m].charge_amount = wallet[m].charge_amount
                   /\ wallet'[m].amount = wallet[m].amount
                   /\ wallet'[m].draw_amount =
                        Stored(parsePlus(wallet[m].draw_amount, tokens))
<1>1. PICK h \in Handlers :
        LET user == dispatch[h].user
            tokens == dispatch[h].tx.tokenAmount
        IN
        /\ \A g \in Handlers : g # h => dispatch'[g] = dispatch[g]
        /\ dispatch'[h].pc \notin Writes
        /\ \/ /\ dispatch[h].pc \in {"both", "wallet"} /\ m = Receiver[h[1]]
              /\ wallet'[m].charge_amount = Stored(parsePlus(user.charge_amount, tokens))
              /\ wallet'[m].amount = Stored(parsePlus(user.amount, tokens))
              /\ wallet'[m].draw_amount = user.draw_amount
           \/ /\ dispatch[h].pc = "draw" /\ m = Sender[h[1]]
              /\ wallet'[m].charge_amount = user.charge_amount
              /\ wallet'[m].amount = user.amount
              /\ wallet'[m].draw_amount = Stored(parsePlus(user.draw_amount, tokens))
  BY WalletSteps
<1>2. Holds(h, m)
  BY <1>1 DEF Holds
<1>3. dispatch[h].user = wallet[m]
  BY <1>2 DEF FreshUser
<1>4. dispatch[h].tx.tokenAmount \in Nat
  BY DEF TypeInv, TypeOK, DispatchState, Row, NoTx
<1>5. \A g \in Handlers : Holds(g, m) => g = h
  BY <1>2 DEF NoOverlap
<1> QED
  BY <1>1, <1>2, <1>3, <1>4, <1>5

LEMMA FreshInit == Init => FreshUser
<1> SUFFICES ASSUME Init PROVE FreshUser
  OBVIOUS
<1>1. \A h \in Handlers : dispatch[h].pc = "idle"
  BY DEF Init, NoDispatch
<1>2. \A m \in Members : wallet[m] \in {NoUser, NullUser}
  BY DEF Init
<1> QED
  BY <1>1, <1>2 DEF FreshUser, Holds, Tens, NoUser, NullUser

LEMMA FreshNext == TypeInv /\ NoOverlap /\ FreshUser /\ [Next]_vars => FreshUser'
<1> SUFFICES ASSUME TypeInv, NoOverlap, FreshUser, [Next]_vars PROVE FreshUser'
  OBVIOUS
<1>1. ASSUME NEW m \in Members, NEW h \in Handlers, Holds(h, m)'
      PROVE  dispatch'[h].user = wallet'[m]
  <2>0. dispatch'[h].pc \in Writes /\ dispatch'[h].pc \notin {"idle", "route"}
    BY <1>1 DEF Holds, Writes
  <2>1. CASE UNCHANGED wallet /\ dispatch'[h].user = wallet[m]
    BY <2>1
  <2>2. CASE Holds(h, m) /\ dispatch'[h].user = dispatch[h].user
    <3>1. wallet'[m] = wallet[m]
      BY <2>0, <2>2, HeldIsWritten
    <3> QED
      BY <2>2, <3>1 DEF FreshUser
  <2>3. dispatch'[h] = dispatch[h] \/ GoesOn(h)
    BY <2>0, TaskSteps
  <2> QED
    BY <1>1, <2>1, <2>2, <2>3 DEF GoesOn, Holds
<1>2. ASSUME NEW m \in Members
      PROVE  /\ Tens(wallet[m].charge_amount)' /\ Tens(wallet[m].draw_amount)'
             /\ wallet'[m].amount = wallet'[m].charge_amount
  <2>1. /\ Tens(wallet[m].charge_amount) /\ Tens(wallet[m].draw_amount)
        /\ wallet[m].amount = wallet[m].charge_amount
        /\ wallet[m].charge_amount \in Column /\ wallet[m].draw_amount \in Column
    BY DEF FreshUser, TypeInv, TypeOK, WalletRow
  <2>2. CASE wallet'[m] = wallet[m]
    BY <2>1, <2>2
  <2>3. CASE wallet'[m] # wallet[m]
    <3>1. PICK tokens \in Nat :
            \/ /\ wallet'[m].charge_amount =
                    Stored(parsePlus(wallet[m].charge_amount, tokens))
               /\ wallet'[m].amount = Stored(parsePlus(wallet[m].amount, tokens))
               /\ wallet'[m].draw_amount = wallet[m].draw_amount
            \/ /\ wallet'[m].charge_amount = wallet[m].charge_amount
               /\ wallet'[m].amount = wallet[m].amount
               /\ wallet'[m].draw_amount =
                    Stored(parsePlus(wallet[m].draw_amount, tokens))
      BY <2>3, HeldIsWritten
    <3> QED
      BY <2>1, <3>1, StoredGrows
  <2> QED
    BY <2>2, <2>3
<1> QED
  BY <1>1, <1>2 DEF FreshUser

LEMMA WalletGrows ==
  ASSUME TypeInv, NoOverlap, FreshUser, [Next]_vars, NEW m \in Members
  PROVE  /\ wallet'[m].charge_amount >= wallet[m].charge_amount
         /\ wallet'[m].draw_amount >= wallet[m].draw_amount
<1>1. /\ Tens(wallet[m].charge_amount) /\ Tens(wallet[m].draw_amount)
      /\ wallet[m].charge_amount \in Column /\ wallet[m].draw_amount \in Column
  BY DEF FreshUser, TypeInv, TypeOK, WalletRow
<1>2. \A c \in Column : c \in Int
  BY ColumnAssumption DEF Column, NULL
<1>3. CASE wallet'[m] = wallet[m]
  BY <1>1, <1>2, <1>3
<1>4. CASE wallet'[m] # wallet[m]
  <2>1. PICK tokens \in Nat :
          \/ /\ wallet'[m].charge_amount =
                  Stored(parsePlus(wallet[m].charge_amount, tokens))
             /\ wallet'[m].amount = Stored(parsePlus(wallet[m].amount, tokens))
             /\ wallet'[m].draw_amount = wallet[m].draw_amount
          \/ /\ wallet'[m].charge_amount = wallet[m].charge_amount
             /\ wallet'[m].amount = wallet[m].amount
             /\ wallet'[m].draw_amount =
                  Stored(parsePlus(wallet[m].draw_amount, tokens))
    BY <1>4, HeldIsWritten
  <2> QED
    BY <1>1, <1>2, <2>1, StoredGrows
<1> QED
  BY <1>3, <1>4

\* As long as no two accountings hold the same wallet at once, no write lowers
\* an amount: over http or a web socket, an overlap is the only way in which
\* addUserCoin and addUserDrawCoin lose what another one added.
THEOREM OnlyOverlapsShrink == Spec /\ []NoOverlap => WalletNeverShrinks
<1>1. TypeInv /\ NoOverlap /\ FreshUser /\ [Next]_vars =>
        [\A m \in Members : /\ wallet'[m].charge_amount >= wallet[m].charge_amount
                            /\ wallet'[m].draw_amount >= wallet[m].draw_amount]_vars
  BY WalletGrows
<1> QED
  BY <1>1, FreshInit, FreshNext, TypeInit, TypeNext, PTL DEF Spec, WalletNeverShrinks

\* The accounting of a transfer can change the wallet of m.
Touches(l, m) ==
  IF Sender[l] # Manager THEN Receiver[l] = m
  ELSE Receiver[l] = Manager /\ m = Manager

\* Each member has at most one deposit, and the manager one payment.
OneTransfer ==
  \A m \in Members : \A k, l \in Logs :
    Touches(k, m) /\ Touches(l, m) => Key(k) = Key(l)

LEMMA OneTransferIsSerial == BackedInv /\ OneTransfer => NoOverlap
<1> SUFFICES ASSUME BackedInv, OneTransfer, NEW m \in Members,
                    NEW g \in Handlers, NEW h \in Handlers, Holds(g, m), Holds(h, m)
             PROVE  g = h
  BY DEF NoOverlap
<1>1. ASSUME NEW x \in Handlers, Holds(x, m)
      PROVE  Touches(x[1], m) /\ x[1] \in Logs /\ dispatch[x].pc # "idle"
  BY <1>1, LogKeys DEF Holds, Touches, BackedInv, TaskBacked
<1>2. Key(g[1]) = Key(h[1])
  BY <1>1 DEF OneTransfer
<1> QED
  BY <1>1, <1>2 DEF BackedInv, TaskInv, DispatchedRow

LEMMA SerialInvariant ==
  RpcType = "http" /\ IsFiniteSet(Logs) /\ OneTransfer /\ Spec => []NoOverlap
<1>1. OneTransfer /\ [Next]_vars => OneTransfer'
  BY DEF OneTransfer, Touches
<1> QED
  BY <1>1, BackedInvariant, OneTransferIsSerial, PTL DEF Spec

\* Over http and with one transfer for each wallet nothing overlaps.
THEOREM HttpWalletNeverShrinks ==
  RpcType = "http" /\ IsFiniteSet(Logs) /\ OneTransfer /\ Spec => WalletNeverShrinks
BY OnlyOverlapsShrink, SerialInvariant, PTL

-----------------------------------------------------------------------------
(* Every confirmed deposit is credited, if nothing is lost or overlaps.    *)

\* No task ends in a crash and no query of one is rejected.
NoLoss == Faults \cap {"crash", "reject"} = {}

\* The least that a transfer must have added, once its accounting has written.
Paid ==
  [k \in Keys |->
     IF IsConfirmed(k) /\ ~Awaited(k) THEN rows[k][1].tokenAmount - 5 ELSE 0]

CreditedInv ==
  /\ BackedInv /\ FreshUser
  /\ \A m \in Members \ NullMembers :
       /\ wallet[m].charge_amount # NULL
       /\ Total(Due, DepositKeys(m)) <= MaxColumn =>
            wallet[m].charge_amount >= Total(Paid, DepositKeys(m))

\* A task that is not lost goes on and ends by steps of its own.
LEMMA TaskEnds ==
  ASSUME TypeInv, NoLoss, [Next]_vars, NEW h \in Handlers,
         dispatch'[h].pc \notin {dispatch[h].pc, "route"}
  PROVE  DispatchStep(h)
<1> USE DEF chainVars, linkVars, moneyVars
<1>0. dispatch \in [Handlers -> DispatchState] /\ dispatch'[h] # dispatch[h]
  BY DEF TypeInv, TypeOK
<1>1. \A kind \in {"crash", "reject"} : ~Fault(kind)
  BY DEF NoLoss, Fault
<1>2. ~UNCHANGED vars /\ ~Environment /\ ~JobStep
  BY <1>0, <1>1 DEF vars, Environment, RejectJob, Restoring, NewBlock, Reorg,
     LinkWithdrawal, Deliver, WsClose,
     Reconnect, Crash, Restart, CreateConnection, JobStep, JobStart, JobFetch,
     JobNext, JobDone, Restoring
<1>3. ASSUME NEW g \in Handlers, HandlerStep(g) \/ RejectHandler(g)
      PROVE  FALSE
  <2>1. dispatch' = dispatch \/ \E row : StartDispatch(g, row)
    BY <1>3, Zenon DEF HandlerStep, FindTx, GetReceipt, SaveTx, RejectHandler
  <2> QED
    BY <1>0, <2>1 DEF StartDispatch, Writes
<1>4. ASSUME NEW g \in Handlers, DispatchStep(g) \/ RejectDispatch(g)
      PROVE  DispatchStep(h)
  <2>1. DispatchStep(g)
    BY <1>1, <1>4 DEF RejectDispatch
  <2>2. \E d : dispatch' = [dispatch EXCEPT ![g] = d]
    BY <2>1 DEF DispatchStep, Route, Charge, addUserCoin, InsertMyzr, Transfer,
       addUserDrawCoin, Withdraw, Settle, DispatchTo, EndDispatch, FinishWrite
  <2>3. g = h
    BY <1>0, <2>2
  <2> QED
    BY <2>1, <2>3
<1> QED
  BY <1>2, <1>3, <1>4, NextParts

\* A row that a save changes is one whose accounting it starts.
LEMMA ChangeStarts ==
  ASSUME HttpInv, [Next]_vars, NEW k \in Keys, rows'[k] # rows[k]
  PROVE  \E h \in Handlers : SaveTx(h) /\ Key(h[1]) = k /\ dispatch'[h].pc = "route"
<1>1. PICK h \in Handlers : SaveTx(h)
  BY RowsChange
<1>2. /\ Key(h[1]) \in Keys /\ rows \in [Keys -> Seq(Row)]
      /\ dispatch \in [Handlers -> DispatchState]
  BY LogKeys DEF HttpInv, TypeInv, TypeOK
<1>3. /\ \E row : rows' = [rows EXCEPT ![Key(h[1])] = row]
      /\ \E row : StartDispatch(h, row)
  <2>1. rows' # rows
    OBVIOUS
  <2> QED
    BY <1>1, <2>1, Zenon DEF SaveTx
<1> QED
  BY <1>1, <1>2, <1>3 DEF StartDispatch

\* The accounting of a deposit that is confirmed ends with its write.
LEMMA DepositIsWritten ==
  ASSUME BackedInv, NoLoss, [Next]_vars, NEW m \in Members, NEW k \in DepositKeys(m),
         IsConfirmed(k)', ~Awaited(k)', ~(IsConfirmed(k) /\ ~Awaited(k))
  PROVE  \E h \in Handlers :
           /\ Key(h[1]) = k /\ addUserCoin(h)
           /\ dispatch[h].pc \in Writes /\ dispatch'[h].pc \notin Writes
<1>0. TaskInv /\ HttpInv /\ TypeInv /\ k \in Keys /\ k[3] = m /\ k[2] # Manager
  BY DEF BackedInv, TaskInv, HttpInv, DepositKeys
<1>1. rows'[k] = rows[k]
  <2> SUFFICES ASSUME rows'[k] # rows[k] PROVE FALSE
    OBVIOUS
  <2>1. PICK h \in Handlers : Key(h[1]) = k /\ dispatch'[h].pc = "route"
    BY <1>0, ChangeStarts
  <2> QED
    BY <2>1 DEF Awaited, Writes
<1>2. IsConfirmed(k) /\ Awaited(k)
  BY <1>1 DEF IsConfirmed
<1>3. PICK h \in Handlers : Key(h[1]) = k /\ dispatch[h].pc \in Writes
  BY <1>2 DEF Awaited
<1>4. dispatch'[h].pc \notin Writes
  BY <1>3 DEF Awaited
<1>5. DispatchStep(h)
  BY <1>0, <1>3, <1>4, TaskEnds DEF Writes
<1>6. Sender[h[1]] # Manager /\ Receiver[h[1]] \in Members
  BY <1>0, <1>3 DEF Key
<1>7. dispatch[h].tx.status = "confirmed"
  <2>1. dispatch[h].pc # "idle"
    BY <1>3 DEF Writes
  <2> QED
    BY <1>2, <1>3, <2>1 DEF TaskInv, BackedInv, DispatchedRow, IsConfirmed
<1>8. dispatch \in [Handlers -> DispatchState]
  BY <1>0 DEF TypeInv, TypeOK
<1>9. ~Route(h) /\ ~Charge(h) /\ ~InsertMyzr(h)
  <2>1. ASSUME NEW pc \in Writes PROVE ~DispatchTo(h, pc)
    BY <1>4, <1>8, <2>1 DEF DispatchTo, DispatchState
  <2>2. ~Route(h)
    BY <1>6, <2>1 DEF Route, Writes
  <2>3. ~Charge(h)
    <3> SUFFICES ASSUME Charge(h) PROVE FALSE
      OBVIOUS
    <3>1. dispatch' = [dispatch EXCEPT ![h] =
            [@ EXCEPT !.pc = "both", !.user = wallet[Receiver[h[1]]]]]
      BY <1>6, <1>7 DEF Charge
    <3>2. dispatch'[h].pc = "both"
      BY <1>8, <3>1 DEF DispatchState
    <3> QED
      BY <1>4, <3>2 DEF Writes
  <2>4. ~InsertMyzr(h)
    BY <1>3, <2>1 DEF InsertMyzr, Dispatching, FinishWrite, Writes
  <2> QED
    BY <2>2, <2>3, <2>4
<1>10. ~Transfer(h) /\ ~addUserDrawCoin(h) /\ ~Withdraw(h) /\ ~Settle(h)
  BY <1>3, <1>6 DEF Transfer, addUserDrawCoin, Withdraw, Settle, Dispatching, Writes,
     BackedInv, TaskBacked
<1> QED
  BY <1>3, <1>4, <1>5, <1>9, <1>10 DEF DispatchStep

\* A sum that fits its column is stored, and rounding takes off little.
LEMMA StoredFits ==
  ASSUME NEW c \in Nat, NEW a \in Nat, c + a + 5 <= MaxColumn
  PROVE  ~Refused(parsePlus(c, a)) /\ Stored(parsePlus(c, a)) >= c + a - 5
<1>1. MaxColumn \in Nat
  BY ColumnAssumption
<1>2. parsePlus(c, a) = c + a /\ c + a # NULL
  BY DEF parsePlus, NULL
<1>3. Rounded(c + a) \in Nat /\ Rounded(c + a) <= c + a + 5 /\ Rounded(c + a) >= c + a - 5
  BY DEF Rounded
<1>4. ~(Rounded(c + a) > MaxColumn)
  BY <1>1, <1>3
<1> QED
  BY <1>2, <1>3, <1>4 DEF Refused, Stored

\* The confirmed transfers of K amount to more and more, and to no less than
\* those that are written.
LEMMA DueGrows ==
  ASSUME TaskInv, [Next]_vars, NEW K \in SUBSET Keys
  PROVE  /\ Total(Due, K) \in Int /\ Total(Due', K) \in Int
         /\ Total(Due, K) <= Total(Due', K) /\ Total(Credit', K) <= Total(Due', K)
<1>1. ASSUME NEW k \in Keys
      PROVE  /\ Due[k] \in Int /\ Due'[k] \in Int /\ Credit'[k] \in Int
             /\ Due[k] <= Due'[k] /\ Credit'[k] <= Due'[k]
  <2>1. Due[k] = IF IsConfirmed(k) THEN rows[k][1].tokenAmount + 5 ELSE 0
    BY DEF Due
  <2>2. Due'[k] = IF IsConfirmed(k)' THEN rows'[k][1].tokenAmount + 5 ELSE 0
    BY DEF Due
  <2>3. Credit'[k] =
          IF IsConfirmed(k)' /\ ~Awaited(k)' THEN rows'[k][1].tokenAmount + 5 ELSE 0
    BY DEF Credit
  <2>4. (IsConfirmed(k) => rows[k][1] \in Row) /\ (IsConfirmed(k)' => rows'[k][1] \in Row)
    <3>1. rows[k] \in Seq(Row) /\ rows'[k] \in Seq(Row)
      BY TypeNext DEF TaskInv, HttpInv, TypeInv, TypeOK
    <3> QED
      BY <3>1, FirstRow DEF IsConfirmed
  <2>5. IsConfirmed(k) => IsConfirmed(k)' /\ rows'[k][1] = rows[k][1]
    BY RowStays DEF IsConfirmed, TaskInv, Outcomes
  <2>6. \A r \in Row : r.tokenAmount \in Nat
    BY DEF Row
  <2> QED
    BY <2>1, <2>2, <2>3, <2>4, <2>5, <2>6
<1>2. ASSUME NEW F, NEW G, \A k \in K : F[k] \in Int /\ G[k] \in Int /\ F[k] <= G[k]
      PROVE  Total(F, K) \in Int /\ Total(G, K) \in Int /\ Total(F, K) <= Total(G, K)
  <2>1. IsFiniteSet(K)
    BY KeysFinite DEF TaskInv
  <2> QED
    BY <1>2, <2>1, TotalLess, TotalInt
<1> QED
  BY <1>1, <1>2

\* A step writes the tokens of at most one deposit of a member.
LEMMA PaidSteps ==
  ASSUME BackedInv, NoLoss, [Next]_vars, NEW m \in Members
  PROVE  /\ \A k \in DepositKeys(m) : Paid[k] \in Int /\ Paid'[k] \in Int
         /\ \/ \A k \in DepositKeys(m) : Paid'[k] = Paid[k]
            \/ \E h \in Handlers :
                 /\ Key(h[1]) \in DepositKeys(m) /\ addUserCoin(h)
                 /\ dispatch[h].pc \in Writes /\ dispatch'[h].pc \notin Writes
                 /\ Paid[Key(h[1])] = 0
                 /\ Paid'[Key(h[1])] = dispatch[h].tx.tokenAmount - 5
                 /\ \A k \in DepositKeys(m) \ {Key(h[1])} : Paid'[k] = Paid[k]
<1> DEFINE K == DepositKeys(m)
           Done(k) == IsConfirmed(k) /\ ~Awaited(k)
<1>0. TaskInv /\ HttpInv /\ TypeInv /\ K \in SUBSET Keys
  BY DEF BackedInv, TaskInv, HttpInv, DepositKeys
<1>1. ASSUME NEW k \in K
      PROVE  /\ Paid[k] = IF Done(k) THEN rows[k][1].tokenAmount - 5 ELSE 0
             /\ Paid'[k] = IF Done(k)' THEN rows'[k][1].tokenAmount - 5 ELSE 0
             /\ Done(k) => Done(k)' /\ rows'[k][1] = rows[k][1]
             /\ Paid[k] \in Int /\ Paid'[k] \in Int
  <2>1. Paid[k] = IF Done(k) THEN rows[k][1].tokenAmount - 5 ELSE 0
    BY <1>0 DEF Paid
  <2>2. Paid'[k] = IF Done(k)' THEN rows'[k][1].tokenAmount - 5 ELSE 0
    BY <1>0 DEF Paid
  <2>3. Done(k) => Done(k)' /\ rows'[k][1] = rows[k][1]
    <3>1. IsConfirmed(k) => rows'[k] # <<>> /\ rows'[k][1] = rows[k][1]
      BY <1>0, RowStays DEF IsConfirmed, Outcomes
    <3> QED
      BY <1>0, <3>1, AwaitedIsOver DEF IsConfirmed
  <2>4. (IsConfirmed(k) => rows[k][1] \in Row) /\ (IsConfirmed(k)' => rows'[k][1] \in Row)
    <3>1. rows[k] \in Seq(Row) /\ rows'[k] \in Seq(Row)
      BY <1>0, TypeNext DEF TypeInv, TypeOK
    <3> QED
      BY <3>1, FirstRow DEF IsConfirmed
  <2>5. \A r \in Row : r.tokenAmount \in Nat
    BY DEF Row
  <2> QED
    BY <2>1, <2>2, <2>3, <2>4, <2>5
<1>2. ASSUME NEW k \in K, Paid'[k] # Paid[k]
      PROVE  \E h \in Handlers :
               /\ Key(h[1]) = k /\ addUserCoin(h)
               /\ dispatch[h].pc \in Writes /\ dispatch'[h].pc \notin Writes
  <2>1. Done(k)' /\ ~Done(k)
    BY <1>1, <1>2
  <2> QED
    BY <2>1, DepositIsWritten
<1> SUFFICES ASSUME NEW k \in K, Paid'[k] # Paid[k]
             PROVE  \E h \in Handlers :
                      /\ Key(h[1]) = k /\ addUserCoin(h)
                      /\ dispatch[h].pc \in Writes /\ dispatch'[h].pc \notin Writes
                      /\ Paid[k] = 0 /\ Paid'[k] = dispatch[h].tx.tokenAmount - 5
                      /\ \A j \in K \ {k} : Paid'[j] = Paid[j]
  BY <1>1
<1>3. PICK h \in Handlers :
        /\ Key(h[1]) = k /\ addUserCoin(h)
        /\ dispatch[h].pc \in Writes /\ dispatch'[h].pc \notin Writes
  BY <1>2
<1>4. Done(k)' /\ Paid[k] = 0 /\ Paid'[k] = rows'[k][1].tokenAmount - 5
  BY <1>1
<1>5. rows'[k][1] = dispatch[h].tx
  <2>1. dispatch[h].pc # "idle"
    BY <1>3 DEF Writes
  <2>2. rows[k] # <<>> /\ dispatch[h].tx = rows[k][1] /\ rows[k][1].status \in Outcomes
    BY <1>0, <1>3, <2>1 DEF TaskInv, DispatchedRow
  <2> QED
    BY <1>0, <2>2, RowStays
<1>6. ASSUME NEW j \in K \ {k} PROVE Paid'[j] = Paid[j]
  <2> SUFFICES ASSUME Paid'[j] # Paid[j] PROVE FALSE
    OBVIOUS
  <2>1. PICK g \in Handlers :
          Key(g[1]) = j /\ dispatch[g].pc \in Writes /\ dispatch'[g].pc \notin Writes
    BY <1>2
  <2>2. dispatch \in [Handlers -> DispatchState] /\ g # h
    BY <1>0, <1>3, <2>1 DEF TypeInv, TypeOK
  <2>3. dispatch'[g] = dispatch[g]
    BY <1>3, <2>2 DEF addUserCoin, FinishWrite, DispatchTo, EndDispatch
  <2> QED
    BY <2>1, <2>3
<1> QED
  BY <1>3, <1>4, <1>5, <1>6

\* What a deposit adds is stored, if the column holds all that is due.
LEMMA DepositIsAdded ==
  ASSUME BackedInv, FreshUser, [Next]_vars, NEW m \in Members,
         wallet[m].charge_amount # NULL, Total(Due', DepositKeys(m)) <= MaxColumn,
         NEW h \in Handlers, Key(h[1]) \in DepositKeys(m), addUserCoin(h),
         dispatch[h].pc \in Writes, dispatch'[h].pc \notin Writes
  PROVE  /\ dispatch[h].tx.tokenAmount \in Nat
         /\ wallet'[m].charge_amount >=
              wallet[m].charge_amount + dispatch[h].tx.tokenAmount - 5
<1> DEFINE K == DepositKeys(m)
           c == wallet[m].charge_amount
           tokens == dispatch[h].tx.tokenAmount
<1>0. /\ TaskInv /\ TypeInv /\ K \in SUBSET Keys
      /\ wallet \in [Members -> WalletRow] /\ dispatch \in [Handlers -> DispatchState]
  BY DEF BackedInv, TaskInv, HttpInv, TypeInv, TypeOK, DepositKeys
<1>1. Receiver[h[1]] = m /\ Holds(h, m)
  BY DEF DepositKeys, Key, Holds, addUserCoin, Dispatching
<1>2. dispatch[h].user = wallet[m] /\ wallet[m].amount = c /\ c \in Nat
  BY <1>0, <1>1, ColumnAssumption DEF FreshUser, WalletRow, Column, NULL
<1>3. dispatch[h].tx.status = "confirmed"
  BY DEF BackedInv, TaskBacked, addUserCoin, Dispatching
<1>4. \A g \in Handlers : g # h => dispatch'[g] = dispatch[g]
  BY <1>0 DEF addUserCoin, FinishWrite, DispatchTo, EndDispatch
<1>5. tokens \in Nat /\ Total(Credit, K) + tokens + 5 <= Total(Credit', K)
  BY <1>0, <1>3, <1>4, WrittenIsCredited
<1>6. c + tokens + 5 <= MaxColumn
  <2>1. c <= Total(Credit, K)
    BY DEF BackedInv, WalletBacked, Backed, Charged
  <2>2. Total(Credit', K) <= Total(Due', K) /\ Total(Due', K) \in Int
    BY <1>0, DueGrows
  <2>3. Total(Credit, K) \in Nat /\ Total(Credit', K) \in Nat
    BY <1>0, TotalsGrow
  <2> QED
    BY <1>2, <1>5, <2>1, <2>2, <2>3, ColumnAssumption
<1>7. ~Refused(parsePlus(c, tokens)) /\ Stored(parsePlus(c, tokens)) >= c + tokens - 5
  BY <1>2, <1>5, <1>6, StoredFits
<1> DEFINE sum == parsePlus(c, tokens)
<1>8. wallet' = [wallet EXCEPT ![m] =
        [wallet[m] EXCEPT !.charge_amount = Stored(sum), !.amount = Stored(sum)]]
  BY <1>1, <1>2, <1>7 DEF addUserCoin
<1> HIDE DEF sum
<1>9. wallet'[m].charge_amount = Stored(sum)
  BY <1>0, <1>8 DEF WalletRow
<1> QED
  BY <1>5, <1>7, <1>9 DEF sum

LEMMA CreditedInit == RpcType = "http" /\ IsFiniteSet(Logs) /\ Init => CreditedInv
<1> SUFFICES ASSUME RpcType = "http", IsFiniteSet(Logs), Init,
                    NEW m \in Members \ NullMembers
             PROVE  /\ wallet[m].charge_amount # NULL
                    /\ wallet[m].charge_amount >= Total(Paid, DepositKeys(m))
  BY BackedInit, FreshInit DEF CreditedInv
<1>1. wallet[m].charge_amount = 0
  BY DEF Init, NoUser
<1>2. ASSUME NEW k \in DepositKeys(m) PROVE Paid[k] = 0
  <2>1. k \in Keys /\ (rows[k] = <<>> \/ \E l \in PendingLogs : rows[k] = <<PendingRow(l)>>)
    BY DEF Init, DepositKeys
  <2>2. ASSUME NEW l \in PendingLogs, rows[k] = <<PendingRow(l)>>
        PROVE  rows[k][1].status = "pending"
    BY <2>2 DEF PendingRow
  <2> QED
    BY <2>1, <2>2 DEF Paid, IsConfirmed
<1>3. Total(Paid, DepositKeys(m)) = 0
  <2>1. IsFiniteSet(DepositKeys(m))
    BY KeysFinite DEF DepositKeys
  <2> QED
    BY <1>2, <2>1, TotalZero
<1> QED
  BY <1>1, <1>3 DEF NULL

LEMMA CreditedNext ==
  CreditedInv /\ NoLoss /\ NoOverlap /\ [Next]_vars => CreditedInv'
<1> SUFFICES ASSUME CreditedInv, NoLoss, NoOverlap, [Next]_vars PROVE CreditedInv'
  OBVIOUS
<1>0. /\ BackedInv /\ FreshUser /\ TypeInv /\ TaskInv
      /\ wallet \in [Members -> WalletRow] /\ wallet' \in [Members -> WalletRow]
  BY TypeNext DEF CreditedInv, BackedInv, TaskInv, HttpInv, TypeInv, TypeOK
<1>1. ASSUME NEW m \in Members \ NullMembers
      PROVE  /\ wallet'[m].charge_amount # NULL
             /\ Total(Due', DepositKeys(m)) <= MaxColumn =>
                  wallet'[m].charge_amount >= Total(Paid', DepositKeys(m))
  <2> DEFINE K == DepositKeys(m)
             c == wallet[m].charge_amount
             d == wallet'[m].charge_amount
  <2>1. c # NULL /\ (Total(Due, K) <= MaxColumn => c >= Total(Paid, K))
    BY DEF CreditedInv
  <2>2. c \in Nat /\ d \in Int /\ d >= c
    <3>1. c \in Column /\ d \in Column
      BY <1>0 DEF WalletRow
    <3> QED
      BY <1>0, <2>1, <3>1, WalletGrows, ColumnAssumption DEF Column, NULL
  <2>3. IsFiniteSet(K) /\ K \in SUBSET Keys
    BY <1>0, KeysFinite DEF TaskInv, DepositKeys
  <2>4. /\ \A k \in K : Paid[k] \in Int /\ Paid'[k] \in Int
        /\ \/ \A k \in K : Paid'[k] = Paid[k]
           \/ \E h \in Handlers :
                /\ Key(h[1]) \in K /\ addUserCoin(h)
                /\ dispatch[h].pc \in Writes /\ dispatch'[h].pc \notin Writes
                /\ Paid[Key(h[1])] = 0
                /\ Paid'[Key(h[1])] = dispatch[h].tx.tokenAmount - 5
                /\ \A k \in K \ {Key(h[1])} : Paid'[k] = Paid[k]
    BY <1>0, PaidSteps
  <2>5. ASSUME Total(Due', K) <= MaxColumn PROVE d >= Total(Paid', K)
    <3>1. c >= Total(Paid, K) /\ Total(Paid, K) \in Int
      <4>1. Total(Due, K) <= MaxColumn
        BY <1>0, <2>3, <2>5, DueGrows, ColumnAssumption
      <4> QED
        BY <2>1, <2>3, <2>4, <4>1, TotalInt
    <3>2. CASE \A k \in K : Paid'[k] = Paid[k]
      <4>1. ASSUME NEW F, NEW G, \A k \in K : F[k] \in Int /\ G[k] = F[k]
            PROVE  Total(G, K) = Total(F, K)
        BY <2>3, <4>1, TotalSame
      <4>2. Total(Paid', K) = Total(Paid, K)
        BY <2>4, <3>2, <4>1
      <4> QED
        BY <2>2, <3>1, <4>2
    <3>3. ASSUME NEW h \in Handlers, Key(h[1]) \in K, addUserCoin(h),
                 dispatch[h].pc \in Writes, dispatch'[h].pc \notin Writes,
                 Paid[Key(h[1])] = 0, Paid'[Key(h[1])] = dispatch[h].tx.tokenAmount - 5,
                 \A k \in K \ {Key(h[1])} : Paid'[k] = Paid[k]
          PROVE  d >= Total(Paid', K)
      <4>1. /\ dispatch[h].tx.tokenAmount \in Nat
            /\ d >= c + dispatch[h].tx.tokenAmount - 5
        BY <1>0, <2>1, <2>5, <3>3, DepositIsAdded
      <4>2. ASSUME NEW F, NEW G, \A k \in K : F[k] \in Int /\ G[k] \in Int,
                   NEW j \in K, \A k \in K \ {j} : G[k] = F[k]
            PROVE  Total(G, K) = Total(F, K) + (G[j] - F[j])
        BY <2>3, <4>2, TotalChange
      <4>3. Total(Paid', K) = Total(Paid, K) + (Paid'[Key(h[1])] - Paid[Key(h[1])])
        BY <2>4, <3>3, <4>2
      <4> QED
        BY <2>2, <3>1, <3>3, <4>1, <4>3
    <3> QED
      BY <2>4, <3>2, <3>3
  <2>6. d # NULL
    BY <2>2 DEF NULL
  <2> QED
    BY <2>5, <2>6
<1> QED
  BY <1>0, <1>1, BackedNext, FreshNext DEF CreditedInv

LEMMA CreditedInvariant ==
  RpcType = "http" /\ IsFiniteSet(Logs) /\ NoLoss /\ Spec /\ []NoOverlap => []CreditedInv
<1>1. NoLoss /\ [Next]_vars => NoLoss'
  BY DEF NoLoss
<1> QED
  BY <1>1, CreditedInit, CreditedNext, PTL DEF Spec

\* Without crashes and rejections every confirmed deposit ends in its wallet,
\* but for rounding, unless the accountings of two transfers hold that wallet
\* at once or the sum is out of the range of its column.
THEOREM SerialDepositsCredited ==
  RpcType = "http" /\ IsFiniteSet(Logs) /\ NoLoss /\ Spec /\ []NoOverlap
    => []DepositsCredited
<1>1. CreditedInv => DepositsCredited
  <2> SUFFICES ASSUME CreditedInv, Quiet, NEW m \in Members \ NullMembers,
                      DepositTotal(m) + HalfCents(DepositKeys(m)) <= MaxColumn
               PROVE  wallet[m].charge_amount >=
                        DepositTotal(m) - HalfCents(DepositKeys(m))
    BY DEF DepositsCredited
  <2> DEFINE K == DepositKeys(m)
  <2>1. TaskInv /\ HttpInv /\ K \in SUBSET Keys /\ IsFiniteSet(K)
    BY KeysFinite DEF CreditedInv, BackedInv, TaskInv, DepositKeys
  <2>2. wallet[m].charge_amount >= Total(Paid, K)
    BY <2>1, DueTotal DEF CreditedInv, DepositTotal
  <2>3. DepositTotal(m) = Total(Totals, K)
    BY <2>1, TotalsOf DEF DepositTotal
  <2>4. ASSUME NEW k \in K
        PROVE  /\ Totals[k] \in Int /\ Paid[k] \in Int
               /\ Totals[k] = Paid[k] + (IF ConfirmedRows(k) # {} THEN 5 ELSE 0)
    <3>1. ~Awaited(k)
      BY DEF Quiet, Awaited, Writes
    <3>2. /\ RowTotal(k) \in Nat /\ (IsConfirmed(k) <=> ConfirmedRows(k) # {})
          /\ RowTotal(k) = IF IsConfirmed(k) THEN rows[k][1].tokenAmount ELSE 0
      BY <2>1, RowTotals
    <3> QED
      BY <2>1, <3>1, <3>2 DEF Paid, Totals
  <2> DEFINE Some == {k \in K : ConfirmedRows(k) # {}}
  <2>5. Total(Totals, K) = Total(Paid, K) + 5 * Cardinality(Some)
    <3>1. \A k \in K : Paid[k] \in Int /\ Totals[k] \in {Paid[k], Paid[k] + 5}
      BY <2>4
    <3>2. Some = {k \in K : Totals[k] # Paid[k]}
      <4>1. \A k \in K : ConfirmedRows(k) # {} <=> Totals[k] # Paid[k]
        BY <2>4
      <4> QED
        BY <4>1
    <3> HIDE DEF Some
    <3> QED
      BY <2>1, <3>1, <3>2, TotalCount
  <2>6. Cardinality(Some) \in Nat /\ HalfCents(K) = 5 * Cardinality(Some)
    <3>1. IsFiniteSet(Some)
      BY <2>1, FS_Subset
    <3> QED
      BY <3>1, FS_CardinalityType DEF HalfCents
  <2>7. Total(Paid, K) \in Int
    BY <2>1, <2>4, TotalInt
  <2> HIDE DEF Some, K
  <2>8. Total(Paid, K) = DepositTotal(m) - HalfCents(K)
    BY <2>3, <2>5, <2>6, <2>7
  <2> QED
    BY <2>2, <2>8 DEF K
<1> QED
  BY <1>1, CreditedInvariant, PTL

\* With one deposit for each member nothing overlaps.
THEOREM HttpDepositsCredited ==
  RpcType = "http" /\ IsFiniteSet(Logs) /\ OneTransfer /\ NoLoss /\ Spec
    => []DepositsCredited
BY SerialDepositsCredited, SerialInvariant, PTL

-----------------------------------------------------------------------------
(* Every confirmed deposit has a record of its own, if nothing is lost.    *)

\* A transfer saved before it is mined is saved with the tokens it moves.
PendingMatches ==
  \A l \in Logs, p \in PendingLogs :
    Key(l) = SavedKey(p) => PendingRow(p).tokenAmount = Value[l]

\* A pending row is one that was saved before its transfer was mined.
PendingIsSaved ==
  \A k \in Keys : rows[k] # <<>> /\ rows[k][1].status = "pending" =>
    \E p \in PendingLogs : SavedKey(p) = k /\ rows[k][1] = PendingRow(p)

\* The accounting of h has not yet inserted the deposit record.
Records(h) == dispatch[h].pc \in {"route", "charge", "both", "record"}

\* A deposit of k is recorded, or will be.
Recorded(k) ==
  \E l \in Logs :
    /\ Key(l) = k /\ Value[l] = rows[k][1].tokenAmount
    /\ myzr[l] >= 1 \/ \E h \in Handlers : h[1] = l /\ Records(h)

RecordedInv ==
  /\ BackedInv /\ PendingIsSaved
  /\ \A m \in Members : \A k \in DepositKeys(m) : IsConfirmed(k) => Recorded(k)

\* The row a save stores has the tokens of the transfer.
LEMMA SavedValue ==
  ASSUME PendingMatches, TaskInv, PendingIsSaved, NEW h \in Handlers, SaveTx(h),
         rows' # rows
  PROVE  /\ rows'[Key(h[1])][1].tokenAmount = Value[h[1]]
         /\ rows'[Key(h[1])][1].status \in Outcomes
         /\ \A k \in Keys : k # Key(h[1]) => rows'[k] = rows[k]
<1> DEFINE k == Key(h[1])
           tx == handler[h].tx
           inserted == [status |-> handler[h].status, tokenAmount |-> Value[h[1]]]
           updated == [tx EXCEPT !.status = handler[h].status]
<1>0. /\ k \in Keys /\ h[1] \in Logs /\ rows \in [Keys -> Seq(Row)] /\ tx = FoundTx(k)
      /\ handler[h].status \in Outcomes /\ HttpInv
  BY LogKeys DEF SaveTx, HttpInv, FreshLookup, TypeInv, TypeOK, HandlerState, Outcomes, TaskInv
<1>1. CASE tx = NoTx /\ rows' = [rows EXCEPT ![k] = Append(@, inserted)]
  <2>1. rows[k] = <<>>
    BY <1>0, <1>1, FoundTxType
  <2>2. inserted.tokenAmount = Value[h[1]] /\ inserted.status \in Outcomes
    BY <1>0
  <2> HIDE DEF inserted, k
  <2>3. rows'[k] = <<inserted>>
    BY <1>0, <1>1, <2>1
  <2>4. rows'[k][1] = inserted
    BY <2>3
  <2> QED
    BY <1>0, <1>1, <2>2, <2>4 DEF k
<1>2. CASE IsPending(tx) /\ rows' = [rows EXCEPT ![k][1] = updated]
  <2>1. tx # NoTx
    BY <1>2 DEF IsPending, NoTx
  <2>2. rows[k] # <<>>
    BY <1>0, <2>1, FoundTxType
  <2>3. tx = rows[k][1] /\ tx \in Row
    BY <1>0, <2>2, OneRowOf
  <2>4. tx.tokenAmount = Value[h[1]]
    BY <1>0, <1>2, <2>2, <2>3 DEF PendingIsSaved, PendingMatches, IsPending
  <2>5. updated.tokenAmount = Value[h[1]] /\ updated.status \in Outcomes
    BY <1>0, <2>3, <2>4 DEF Row
  <2> HIDE DEF updated, k
  <2>6. rows'[k][1] = updated
    BY <1>0, <1>2, <2>2
  <2> QED
    BY <1>0, <1>2, <2>5, <2>6 DEF k
<1> QED
  BY <1>1, <1>2 DEF SaveTx

\* Deposit records are only added.
LEMMA MyzrGrows ==
  ASSUME TypeInv, [Next]_vars, NEW l \in Logs, myzr[l] >= 1
  PROVE  myzr'[l] >= 1
<1> USE DEF chainVars, linkVars, moneyVars
<1>0. myzr \in [Logs -> Nat]
  BY DEF TypeInv, TypeOK
<1> SUFFICES ASSUME myzr' # myzr PROVE myzr'[l] >= 1
  OBVIOUS
<1>1. ~UNCHANGED vars /\ ~Environment /\ ~JobStep
  BY DEF vars, Environment, RejectJob, Restoring, NewBlock, Reorg, LinkWithdrawal,
     Deliver, WsClose,
     Reconnect, Crash, Restart, CreateConnection, JobStep, JobStart, JobFetch,
     JobNext, JobDone, Restoring
<1>2. PICK h \in Handlers : InsertMyzr(h)
  <2>1. ASSUME NEW h \in Handlers, HandlerStep(h) \/ RejectHandler(h)
        PROVE  FALSE
    BY <2>1 DEF HandlerStep, FindTx, GetReceipt, SaveTx, RejectHandler
  <2>2. ASSUME NEW h \in Handlers, DispatchStep(h) \/ RejectDispatch(h)
        PROVE  InsertMyzr(h)
    BY <2>2 DEF DispatchStep, Route, Charge, addUserCoin, addUserDrawCoin, Transfer,
       Withdraw, Settle, RejectDispatch
  <2> QED
    BY <1>1, <2>1, <2>2, NextParts
<1>3. myzr' = [myzr EXCEPT ![h[1]] = @ + 1]
  BY <1>2 DEF InsertMyzr
<1> QED
  BY <1>0, <1>3

\* The accounting of a confirmed deposit does not end without its record.
LEMMA RecordIsInserted ==
  ASSUME NoLoss, ~StrictSql, BackedInv, [Next]_vars, NEW h \in Handlers,
         Records(h), ~Records(h)', dispatch[h].tx.status = "confirmed",
         Sender[h[1]] # Manager, Receiver[h[1]] \in Members
  PROVE  myzr'[h[1]] >= 1
<1>0. /\ TypeInv /\ dispatch \in [Handlers -> DispatchState] /\ h[1] \in Logs
      /\ myzr \in [Logs -> Nat]
  BY LogKeys DEF BackedInv, TaskInv, HttpInv, TypeInv, TypeOK
<1>1. DispatchStep(h)
  BY <1>0, TaskEnds DEF Records
<1>2. ASSUME NEW pc \in {"route", "charge", "both", "record"} PROVE ~DispatchTo(h, pc)
  BY <1>0, <1>2 DEF DispatchTo, DispatchState, Records
<1>3. ~Route(h)
  BY <1>2 DEF Route
<1>4. ~Charge(h)
  <2> SUFFICES ASSUME Charge(h) PROVE FALSE
    OBVIOUS
  <2>1. dispatch' = [dispatch EXCEPT ![h] =
          [@ EXCEPT !.pc = "both", !.user = wallet[Receiver[h[1]]]]]
    BY DEF Charge
  <2>2. dispatch'[h].pc = "both"
    BY <1>0, <2>1 DEF DispatchState
  <2> QED
    BY <2>2 DEF Records
<1>5. ~addUserCoin(h)
  BY <1>2 DEF addUserCoin, Dispatching, FinishWrite, Records
<1>6. ~Transfer(h) /\ ~addUserDrawCoin(h) /\ ~Withdraw(h) /\ ~Settle(h)
  BY DEF Transfer, addUserDrawCoin, Withdraw, Settle, Dispatching, Records
<1>7. InsertMyzr(h)
  BY <1>1, <1>3, <1>4, <1>5, <1>6 DEF DispatchStep
<1>8. myzr' = [myzr EXCEPT ![h[1]] = @ + 1]
  BY <1>7 DEF InsertMyzr, InsertFails
<1> QED
  BY <1>0, <1>8

LEMMA RecordedInit == RpcType = "http" /\ IsFiniteSet(Logs) /\ Init => RecordedInv
<1> SUFFICES ASSUME RpcType = "http", IsFiniteSet(Logs), Init PROVE RecordedInv
  OBVIOUS
<1>1. ASSUME NEW k \in Keys, rows[k] # <<>>
      PROVE  /\ rows[k][1].status = "pending"
             /\ \E p \in PendingLogs : SavedKey(p) = k /\ rows[k][1] = PendingRow(p)
  <2>1. \E p \in PendingLogs : SavedKey(p) = k /\ rows[k] = <<PendingRow(p)>>
    BY <1>1, Zenon DEF Init
  <2> QED
    BY <2>1 DEF PendingRow
<1>2. \A m : \A k \in DepositKeys(m) : ~IsConfirmed(k)
  BY <1>1 DEF IsConfirmed, DepositKeys
<1> QED
  BY <1>1, <1>2, BackedInit DEF RecordedInv, PendingIsSaved

LEMMA RecordedNext ==
  RecordedInv /\ NoLoss /\ ~StrictSql /\ PendingMatches /\ [Next]_vars => RecordedInv'
<1> SUFFICES ASSUME RecordedInv, NoLoss, ~StrictSql, PendingMatches, [Next]_vars
             PROVE  RecordedInv'
  OBVIOUS
<1>0. BackedInv /\ TaskInv /\ HttpInv /\ TypeInv /\ PendingIsSaved
  BY DEF RecordedInv, BackedInv, TaskInv, HttpInv
<1>1. ASSUME NEW k \in Keys, rows'[k] # rows[k]
      PROVE  \E h \in Handlers :
               /\ Key(h[1]) = k /\ rows'[k][1].tokenAmount = Value[h[1]]
               /\ rows'[k][1].status \in Outcomes /\ dispatch'[h].pc = "route"
  <2>1. PICK h \in Handlers : SaveTx(h) /\ Key(h[1]) = k /\ dispatch'[h].pc = "route"
    BY <1>0, <1>1, ChangeStarts
  <2> QED
    BY <1>0, <1>1, <2>1, SavedValue
<1>2. PendingIsSaved'
  <2> SUFFICES ASSUME NEW k \in Keys, rows'[k] # <<>>, rows'[k][1].status = "pending"
               PROVE  \E p \in PendingLogs : SavedKey(p) = k /\ rows'[k][1] = PendingRow(p)
    BY DEF PendingIsSaved
  <2>1. rows'[k] = rows[k]
    BY <1>1 DEF Outcomes
  <2> QED
    BY <1>0, <2>1 DEF PendingIsSaved
<1>3. ASSUME NEW m \in Members, NEW k \in DepositKeys(m), IsConfirmed(k)'
      PROVE  Recorded(k)'
  <2>0. k \in Keys /\ k[3] = m /\ k[2] # Manager
    BY DEF DepositKeys
  <2>1. CASE rows'[k] # rows[k]
    <3>1. PICK h \in Handlers :
            Key(h[1]) = k /\ rows'[k][1].tokenAmount = Value[h[1]] /\ dispatch'[h].pc = "route"
      BY <1>1, <2>0, <2>1
    <3> QED
      BY <3>1, LogKeys DEF Recorded, Records
  <2>2. CASE rows'[k] = rows[k]
    <3>1. IsConfirmed(k)
      BY <1>3, <2>2 DEF IsConfirmed
    <3>2. PICK l \in Logs :
            /\ Key(l) = k /\ Value[l] = rows[k][1].tokenAmount
            /\ myzr[l] >= 1 \/ \E h \in Handlers : h[1] = l /\ Records(h)
      BY <3>1 DEF RecordedInv, Recorded
    <3>3. CASE myzr[l] >= 1
      BY <1>0, <2>2, <3>2, <3>3, MyzrGrows DEF Recorded
    <3>4. ASSUME NEW h \in Handlers, h[1] = l, Records(h), ~Records(h)'
          PROVE  myzr'[l] >= 1
      <4>1. dispatch[h].tx.status = "confirmed"
        <5>1. dispatch[h].pc # "idle"
          BY <3>4 DEF Records
        <5> QED
          BY <1>0, <3>1, <3>2, <3>4, <5>1 DEF TaskInv, DispatchedRow, IsConfirmed
      <4>2. Sender[h[1]] # Manager /\ Receiver[h[1]] \in Members
        BY <2>0, <3>2, <3>4 DEF Key
      <4> QED
        BY <1>0, <3>4, <4>1, <4>2, RecordIsInserted
    <3> QED
      BY <2>2, <3>2, <3>3, <3>4 DEF Recorded
  <2> QED
    BY <2>1, <2>2
<1>4. BackedInv'
  BY <1>0, BackedNext
<1>5. (\A m \in Members : \A k \in DepositKeys(m) : IsConfirmed(k) => Recorded(k))'
  BY <1>3 DEF DepositKeys
<1> QED
  BY <1>2, <1>4, <1>5 DEF RecordedInv

\* Over http and outside strict mode, without crashes and rejections, the
\* deposit records account for all that is charged to a member, but for
\* rounding and however many accountings overlap, if the transfers saved before
\* they are mined were saved with their tokens.
THEOREM HttpDepositsRecorded ==
  /\ RpcType = "http" /\ IsFiniteSet(Logs) /\ NoLoss /\ ~StrictSql /\ PendingMatches
  /\ Spec
  => []DepositsRecorded
<1>1. RecordedInv => DepositsRecorded
  <2> SUFFICES ASSUME RecordedInv, Quiet, NEW m \in Members
               PROVE  wallet[m].charge_amount <= MyzrTotal(m) + HalfCents(DepositKeys(m))
    BY DEF DepositsRecorded
  <2> DEFINE K == DepositKeys(m)
             L == {l \in Logs : Receiver[l] = m}
             G == [l \in Logs |-> myzr[l] * Value[l]]
             w == [k \in K |-> CHOOSE l \in Logs :
                     Key(l) = k /\ Value[l] = rows[k][1].tokenAmount /\ myzr[l] >= 1]
  <2>1. /\ BackedInv /\ TaskInv /\ HttpInv /\ K \in SUBSET Keys
        /\ IsFiniteSet(K) /\ IsFiniteSet(L) /\ myzr \in [Logs -> Nat]
    <3>1. BackedInv /\ TaskInv /\ HttpInv /\ K \in SUBSET Keys /\ IsFiniteSet(Logs)
      BY DEF RecordedInv, BackedInv, TaskInv, DepositKeys
    <3>2. IsFiniteSet(K) /\ IsFiniteSet(L)
      BY <3>1, KeysFinite, FS_Subset
    <3> QED
      BY <3>1, <3>2 DEF HttpInv, TypeInv, TypeOK
  <2>2. wallet[m].charge_amount <= DepositTotal(m) + HalfCents(K)
    BY <2>1, BackedByRows DEF WalletBackedByRows
  <2>3. DepositTotal(m) = Total(Totals, K)
    BY <2>1, TotalsOf DEF DepositTotal
  <2>4. MyzrTotal(m) = Total(G, L)
    BY Zenon DEF MyzrTotal, Total, MapThenSumSet, MapThenFoldSet
  <2>5. ASSUME NEW l \in Logs
        PROVE  G[l] \in Nat /\ (myzr[l] >= 1 => Value[l] <= G[l])
    <3>1. \A a, b \in Nat : a * b \in Nat /\ (a >= 1 => b <= a * b)
      OBVIOUS
    <3> QED
      BY <2>1, <3>1, LogsAssumption
  <2>6. ASSUME NEW k \in K, Totals[k] # 0
        PROVE  w[k] \in L /\ Totals[k] <= G[w[k]] /\ Key(w[k]) = k
    <3>1. IsConfirmed(k) /\ Totals[k] = rows[k][1].tokenAmount
      BY <2>1, <2>6, RowTotals DEF Totals
    <3>2. \E l \in Logs : Key(l) = k /\ Value[l] = rows[k][1].tokenAmount /\ myzr[l] >= 1
      BY <3>1 DEF RecordedInv, Recorded, Records, Quiet
    <3>3. w[k] \in Logs /\ Key(w[k]) = k /\ Value[w[k]] = Totals[k] /\ myzr[w[k]] >= 1
      BY <3>1, <3>2
    <3>4. Receiver[w[k]] = m
      BY <3>3 DEF DepositKeys, Key
    <3> HIDE DEF w, G
    <3> QED
      BY <2>5, <3>3, <3>4
  <2>7. \A k \in K : Totals[k] \in Nat
    BY <2>1, RowTotals DEF Totals
  <2>8. Total(Totals, K) <= Total(G, L)
    <3>1. \A l \in L : G[l] \in Nat
      BY <2>5
    <3>2. /\ \A k \in K : Totals[k] # 0 => w[k] \in L /\ Totals[k] <= G[w[k]]
          /\ \A j, k \in K : Totals[j] # 0 /\ Totals[k] # 0 /\ w[j] = w[k] => j = k
      BY <2>6
    <3> HIDE DEF w, G, K, L
    <3> QED
      BY <2>1, <2>7, <3>1, <3>2, TotalInjection
  <2>9. wallet[m].charge_amount \in Int /\ Total(Totals, K) \in Int /\ Total(G, L) \in Int
    <3>1. wallet[m] \in WalletRow
      BY <2>1 DEF HttpInv, TypeInv, TypeOK
    <3>2. Total(Totals, K) \in Nat /\ Total(G, L) \in Nat
      BY <2>1, <2>5, <2>7, TotalNat
    <3> QED
      BY <3>1, <3>2, ColumnAssumption DEF WalletRow, Column, NULL
  <2>10. HalfCents(K) \in Int
    <3>1. IsFiniteSet({k \in K : ConfirmedRows(k) # {}})
      BY <2>1, FS_Subset
    <3> QED
      BY <3>1, FS_CardinalityType DEF HalfCents
  <2> HIDE DEF K, L, G, w
  <2> QED
    BY <2>2, <2>3, <2>4, <2>8, <2>9, <2>10 DEF K
<1>2. NoLoss /\ ~StrictSql /\ PendingMatches /\ [Next]_vars =>
        (NoLoss /\ ~StrictSql /\ PendingMatches)'
  BY DEF NoLoss, PendingMatches
<1> QED
  BY <1>1, <1>2, RecordedInit, RecordedNext, PTL DEF Spec
=============================================================================
