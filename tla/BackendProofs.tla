--------------------------- MODULE BackendProofs ---------------------------
(***************************************************************************)
(* Theorems about Backend, for any requests of any methods, any members,   *)
(* any fees and any faults: each part does in the whole what it does alone,*)
(* and what the withdrawal records say agrees with the chain.              *)
(***************************************************************************)
EXTENDS Backend, TokenSendProofs, Sums

\* The constants of Backend are ones that Web3Handler allows.
LEMMA IntakeIsAllowed ==
  /\ Handler!LogsAssumption /\ Handler!ColumnAssumption
  /\ Handler!DataAssumption /\ Handler!ConfigAssumption
<1>1. \A r \in Requests : 10 * Amount[r] \in Nat
  BY SignerFacts
<1>2. 10 * MaxUint \in Nat
  BY ContractAssumption
<1>3. Handler!LogsAssumption
  BY <1>1, SendAssumption DEF Handler!LogsAssumption, Handler!Methods
<1>4. Handler!ColumnAssumption
  <2>1. (10 * MaxUint) % 10 = 0
    BY ContractAssumption
  <2>2. FALSE \in BOOLEAN
    OBVIOUS
  <2> QED
    BY <1>2, <2>1, <2>2 DEF Handler!ColumnAssumption
<1>5. Handler!DataAssumption
  BY DEF Handler!DataAssumption
<1>6. Handler!ConfigAssumption
  BY BackendAssumption DEF Handler!ConfigAssumption
<1> QED
  BY <1>3, <1>4, <1>5, <1>6

\* What the server does next is a step of the routes with the node and the
\* contract, or leaves them alone.
LEMMA RoutesStep ==
  ASSUME BackendNext \/ UNCHANGED backendVars
  PROVE  Next \/ UNCHANGED vars
<1>1. CASE UNCHANGED backendVars
  BY <1>1 DEF backendVars
<1>2. ASSUME NEW r \in Requests, Request(r) \/ MineTransfer(r) \/ LinkWithdrawal(r)
      PROVE  Next \/ UNCHANGED vars
  BY <1>2 DEF Request, MineTransfer, LinkWithdrawal, Next
<1>3. CASE CrashProcess
  BY <1>3 DEF CrashProcess, Next
<1>4. CASE Intake
  BY <1>4 DEF Intake
<1> QED
  BY <1>1, <1>2, <1>3, <1>4 DEF BackendNext

\* So is it one of the intake with the chain, the node and the site.
LEMMA IntakeStep ==
  ASSUME BackendNext \/ UNCHANGED backendVars
  PROVE  Handler!Next \/ UNCHANGED Handler!vars
<1>1. CASE UNCHANGED handlerVars
  BY <1>1 DEF handlerVars, Handler!vars, Handler!chainVars, Handler!linkVars, Handler!moneyVars
<1>2. ASSUME NEW r \in Requests, MineTransfer(r)
      PROVE  Handler!Next
  <2>1. \E S \in SUBSET Requests : Handler!NewBlock(S)
    BY <1>2 DEF MineTransfer
  <2> QED
    BY ONLY <2>1 DEF Handler!Next
<1>3. ASSUME NEW r \in Requests, LinkWithdrawal(r)
      PROVE  Handler!Next
  <2>1. r \in Handler!Hashes /\ Handler!LinkWithdrawal(r)
    BY <1>3 DEF LinkWithdrawal, Handler!Hashes
  <2> QED
    BY ONLY <2>1 DEF Handler!Next
<1>4. CASE CrashProcess
  <2>1. Handler!Crash
    BY <1>4 DEF CrashProcess
  <2> QED
    BY <2>1 DEF Handler!Next
<1>5. CASE Intake
  BY <1>5 DEF Intake, Handler!Next
<1>6. CASE UNCHANGED backendVars \/ \E r \in Requests : Request(r)
  BY <1>1, <1>6 DEF backendVars, Request
<1> QED
  BY <1>2, <1>3, <1>4, <1>5, <1>6 DEF BackendNext

\* In the whole, the routes, the node and the contract do what TokenSend lets
\* them do, so that every theorem about TokenSend holds of the server.
THEOREM RoutesImplemented == BackendSpec => Spec
BY RoutesStep, PTL DEF BackendSpec, BackendInit, Spec

\* In the whole, the intake, the chain and the site do what Web3Handler lets
\* them do: a mined transfer is a new block, and the events of reverted ones
\* are missing.
THEOREM IntakeImplemented == BackendSpec => Handler!Spec
BY IntakeStep, PTL DEF BackendSpec, BackendInit, Handler!Spec

-----------------------------------------------------------------------------
\* What the proofs below need of the intake's types. No transfer fails after it
\* was mined here, so every row is confirmed.
StoredTx == [status : {"confirmed"}, tokenAmount : Nat]
IsDispatch(d) == d = [pc |-> d.pc, tx |-> d.tx, user |-> d.user]
IntakeType ==
  /\ height \in Nat /\ block \in [Requests -> Nat] /\ reverted = {}
  /\ handler \in [Handler!Handlers ->
       [pc : {"idle", "find", "receipt", "save"},
        tx : StoredTx \cup {Handler!NoTx}, status : {"none", "confirmed"}]]
  /\ dispatch = [h \in Handler!Handlers |-> dispatch[h]]
  /\ \A h \in Handler!Handlers : IsDispatch(dispatch[h])
  /\ job \in [pc : {"idle", "fetch", "loop"}, currentBlock : Nat,
              events : SUBSET (Requests \X Nat)]
  /\ rows \in [Handler!Keys -> Seq(StoredTx)]
  /\ myzc \in [Requests -> {"none", "sent", "success", "failed"}]

\* Who changes what the proofs below are about.
LEMMA IntakeKinds ==
  ASSUME BackendNext \/ UNCHANGED backendVars
  PROVE  \/ UNCHANGED <<height, block, reverted, handler, dispatch, job, rows, myzc>>
         \/ \E r \in Requests : MineTransfer(r) \/ LinkWithdrawal(r)
         \/ CrashProcess
         \/ \E h \in Handler!Handlers : Handler!HandlerStep(h) \/ Handler!RejectHandler(h)
         \/ \E h \in Handler!Handlers : Handler!DispatchStep(h) \/ Handler!RejectDispatch(h)
         \/ Handler!JobStep \/ Handler!RejectJob
<1>1. CASE Handler!Restart \/ Handler!CreateConnection
  BY <1>1 DEF Handler!Restart, Handler!CreateConnection, Handler!chainVars, Handler!moneyVars
<1>2. CASE UNCHANGED backendVars
  BY <1>2 DEF backendVars, handlerVars
<1>3. ASSUME NEW r \in Requests, Request(r)
      PROVE  UNCHANGED <<height, block, reverted, handler, dispatch, job, rows, myzc>>
  BY <1>3 DEF Request, handlerVars
<1> QED
  BY <1>1, <1>2, <1>3 DEF BackendNext, Intake

LEMMA DispatchFields ==
  ASSUME NEW d, IsDispatch(d), NEW next
  PROVE  /\ [d EXCEPT !.pc = next] = [pc |-> next, tx |-> d.tx, user |-> d.user]
         /\ d \in [pc : {d.pc}, tx : {d.tx}, user : {d.user}]
<1>1. PICK p, t, u : d = [pc |-> p, tx |-> t, user |-> u]
  BY Zenon DEF IsDispatch
<1>2. /\ d.pc = p /\ d.tx = t /\ d.user = u
      /\ [[pc |-> p, tx |-> t, user |-> u] EXCEPT !.pc = next] = [pc |-> next, tx |-> t, user |-> u]
  BY <1>1
<1>3. [pc |-> p, tx |-> t, user |-> u] \in [pc : {p}, tx : {t}, user : {u}]
  OBVIOUS
<1> QED
  BY <1>1, <1>2, <1>3

LEMMA DispatchValues ==
  ASSUME NEW p, NEW t, NEW u, NEW d \in [pc : {p}, tx : {t}, user : {u}]
  PROVE  d = [pc |-> p, tx |-> t, user |-> u]
OBVIOUS

\* A step of an accounting changes its own task, which keeps its row, and a
\* withdrawal only as its last step; it gets there only for one that is linked.
LEMMA DispatchEffect ==
  ASSUME IntakeType, NEW h \in Handler!Handlers,
         Handler!DispatchStep(h) \/ Handler!RejectDispatch(h)
  PROVE  /\ UNCHANGED <<height, block, reverted, handler, job, rows>>
         /\ dispatch[h].pc # "idle"
         /\ \E d : /\ dispatch' = [dispatch EXCEPT ![h] = d]
                   /\ IsDispatch(d)
                   /\ d.pc # "idle" => d.tx = dispatch[h].tx
                   /\ d.pc = "settle" => dispatch[h].pc = "withdraw" /\ myzc[h[1]] # "none"
         /\ \/ UNCHANGED myzc
            \/ /\ dispatch[h].pc = "settle"
               /\ myzc' = [myzc EXCEPT ![h[1]] =
                    IF dispatch[h].tx.status = "confirmed" THEN "success" ELSE "failed"]
<1> DEFINE At(next) == [pc |-> next, tx |-> dispatch[h].tx, user |-> dispatch[h].user]
           Effect(d) == /\ dispatch' = [dispatch EXCEPT ![h] = d]
                        /\ IsDispatch(d)
                        /\ d.pc # "idle" => d.tx = dispatch[h].tx
                        /\ d.pc = "settle" => dispatch[h].pc = "withdraw" /\ myzc[h[1]] # "none"
<1>1. h[1] \in Requests
  BY DEF Handler!Handlers
<1>2. ASSUME NEW next, Handler!DispatchTo(h, next), next # "idle",
             next = "settle" => dispatch[h].pc = "withdraw" /\ myzc[h[1]] # "none"
      PROVE  \E d : Effect(d)
  <2>1. [dispatch[h] EXCEPT !.pc = next] = At(next)
    BY DispatchFields DEF IntakeType
  <2>2. dispatch' = [dispatch EXCEPT ![h] = At(next)]
    BY <1>2, <2>1 DEF Handler!DispatchTo
  <2>3. Effect(At(next))
    BY <1>2, <2>2 DEF IsDispatch
  <2> QED
    BY <2>3
<1>3. ASSUME Handler!EndDispatch(h)
      PROVE  \E d : Effect(d)
  <2>1. Effect(Handler!NoDispatch)
    BY <1>3 DEF Handler!EndDispatch, Handler!NoDispatch, IsDispatch
  <2> QED
    BY <2>1
<1>4. ASSUME NEW next \in {"both", "draw"}, NEW member,
             dispatch' = [dispatch EXCEPT ![h] = [@ EXCEPT !.pc = next, !.user = member]]
      PROVE  \E d : Effect(d)
  <2>1. dispatch[h] \in [pc : {dispatch[h].pc}, tx : {dispatch[h].tx}, user : {dispatch[h].user}]
    BY DispatchFields DEF IntakeType
  <2>2. PICK d : d = [dispatch[h] EXCEPT !.pc = next, !.user = member]
    OBVIOUS
  <2>3. d \in [pc : {next}, tx : {dispatch[h].tx}, user : {member}]
    BY <2>1, <2>2
  <2>4. d.pc = next /\ d.tx = dispatch[h].tx /\ IsDispatch(d)
    BY <2>3, DispatchValues DEF IsDispatch
  <2>5. dispatch' = [dispatch EXCEPT ![h] = d]
    BY <1>4, <2>2
  <2> QED
    BY <2>4, <2>5
<1>5. ASSUME NEW next \in {"wallet", "record"}, Handler!FinishWrite(h, next)
      PROVE  \E d : Effect(d)
  BY <1>2, <1>3, <1>5 DEF Handler!FinishWrite
<1> HIDE DEF Effect
<1>6. UNCHANGED <<height, block, reverted, handler, job, rows>> /\ dispatch[h].pc # "idle"
  BY DEF Handler!DispatchStep, Handler!RejectDispatch, Handler!Route, Handler!Charge,
     Handler!addUserCoin, Handler!InsertMyzr, Handler!Transfer, Handler!addUserDrawCoin,
     Handler!Withdraw, Handler!Settle, Handler!Dispatching, Handler!chainVars
<1>8. Handler!FoundWithdrawals(h) = IF myzc[h[1]] = "none" THEN {} ELSE {h[1]}
  BY <1>1 DEF Handler!FoundWithdrawals, Handler!Hashes, Handler!Handlers
<1>7. /\ \E d : Effect(d)
      /\ \/ UNCHANGED myzc
         \/ /\ dispatch[h].pc = "settle"
            /\ myzc' = [myzc EXCEPT ![h[1]] =
                 IF dispatch[h].tx.status = "confirmed" THEN "success" ELSE "failed"]
  <2>1. CASE Handler!Route(h)
    BY <1>2, <2>1 DEF Handler!Route, Handler!moneyVars
  <2>2. CASE Handler!Charge(h)
    <3>1. UNCHANGED myzc
      BY <2>2 DEF Handler!Charge, Handler!moneyVars
    <3>2. \/ Handler!EndDispatch(h)
          \/ dispatch' = [dispatch EXCEPT ![h] =
               [@ EXCEPT !.pc = "both", !.user = wallet[To[h[1]]]]]
      BY <2>2 DEF Handler!Charge
    <3> QED
      BY <1>3, <1>4, <3>1, <3>2
  <2>3. CASE Handler!addUserCoin(h) \/ Handler!InsertMyzr(h)
    BY <1>5, <2>3 DEF Handler!addUserCoin, Handler!InsertMyzr
  <2>4. CASE Handler!Transfer(h)
    <3>1. UNCHANGED myzc
      BY <2>4 DEF Handler!Transfer, Handler!moneyVars
    <3>2. \/ Handler!EndDispatch(h)
          \/ dispatch' = [dispatch EXCEPT ![h] =
               [@ EXCEPT !.pc = "draw", !.user = wallet[From[h[1]]]]]
      BY <2>4 DEF Handler!Transfer
    <3> QED
      BY <1>3, <1>4, <3>1, <3>2
  <2>5. CASE Handler!addUserDrawCoin(h)
    BY <1>3, <2>5 DEF Handler!addUserDrawCoin
  <2>6. CASE Handler!Withdraw(h)
    <3>1. UNCHANGED myzc /\ dispatch[h].pc = "withdraw"
      BY <2>6 DEF Handler!Withdraw, Handler!moneyVars, Handler!Dispatching
    <3>2. Handler!EndDispatch(h) \/ (Handler!DispatchTo(h, "settle") /\ myzc[h[1]] # "none")
      BY <1>8, <2>6 DEF Handler!Withdraw
    <3> QED
      BY <1>2, <1>3, <3>1, <3>2
  <2>7. CASE Handler!Settle(h)
    <3> DEFINE outcome ==
          IF dispatch[h].tx.status = "confirmed" THEN "success" ELSE "failed"
    <3>1. /\ dispatch[h].pc = "settle" /\ Handler!EndDispatch(h)
          /\ myzc' = [x \in Handler!Hashes |->
               IF x \in Handler!FoundWithdrawals(h) THEN outcome ELSE myzc[x]]
      BY <2>7 DEF Handler!Settle, Handler!Dispatching
    <3>2. myzc = [x \in Requests |-> myzc[x]] /\ Handler!Hashes = Requests
      BY DEF IntakeType, Handler!Hashes
    <3> HIDE DEF outcome
    <3>3. UNCHANGED myzc \/ myzc' = [myzc EXCEPT ![h[1]] = outcome]
      BY <1>8, <3>1, <3>2
    <3> QED
      BY <1>3, <3>1, <3>3 DEF outcome
  <2>8. CASE Handler!RejectDispatch(h)
    <3>1. UNCHANGED myzc
      BY <2>8 DEF Handler!RejectDispatch, Handler!moneyVars
    <3>2. Handler!EndDispatch(h) \/ \E next \in {"wallet", "record"} : Handler!DispatchTo(h, next)
      BY <2>8 DEF Handler!RejectDispatch
    <3> QED
      BY <1>2, <1>3, <3>1, <3>2
  <2> QED
    BY <2>1, <2>2, <2>3, <2>4, <2>5, <2>6, <2>7, <2>8 DEF Handler!DispatchStep
<1> QED
  BY <1>6, <1>7 DEF Effect

-----------------------------------------------------------------------------
\* Only what moved has a block, hence an event, a row and an accounting.
PaidInv ==
  /\ SendInv /\ IntakeType
  /\ \A r \in Requests :
       /\ block[r] # 0 => Moved(r)
       /\ myzc[r] \notin {"none", "sent"} => myzc[r] = "success" /\ Moved(r)
  /\ \A e \in job.events : Moved(e[1])
  /\ \A h \in Handler!Handlers :
       /\ handler[h].pc # "idle" => Moved(h[1])
       /\ handler[h].pc = "save" => handler[h].status = "confirmed"
       /\ dispatch[h].pc # "idle" => Moved(h[1]) /\ dispatch[h].tx \in StoredTx

LEMMA PaidInvInit == BackendInit => PaidInv
<1> SUFFICES ASSUME BackendInit
             PROVE  PaidInv
  OBVIOUS
<1>1. SendInv
  BY SendInvInit DEF BackendInit
<1>2. Handler!startBlock \in Nat
  BY BackendAssumption DEF Handler!startBlock
<1>3. \A k \in Handler!Keys : rows[k] = <<>>
  BY DEF BackendInit, Handler!Init
<1>4. rows \in [Handler!Keys -> Seq(StoredTx)]
  BY <1>3 DEF BackendInit, Handler!Init
<1>5. /\ dispatch = [h \in Handler!Handlers |-> Handler!NoDispatch]
      /\ IsDispatch(Handler!NoDispatch) /\ Handler!NoDispatch.pc = "idle"
  BY DEF BackendInit, Handler!Init, Handler!NoDispatch, IsDispatch
<1>6. /\ dispatch = [h \in Handler!Handlers |-> dispatch[h]]
      /\ \A h \in Handler!Handlers : IsDispatch(dispatch[h]) /\ dispatch[h].pc = "idle"
  BY <1>5
<1>7. handler = [h \in Handler!Handlers |-> Handler!Idle] /\ job = Handler!NoJob
  BY DEF BackendInit, Handler!Init
<1>8. IntakeType
  BY <1>2, <1>4, <1>6, <1>7
     DEF BackendInit, Handler!Init, IntakeType, Handler!Idle, Handler!NoJob, Handler!Hashes
<1>9. /\ \A r \in Requests : block[r] = 0 /\ myzc[r] = "none"
      /\ job.events = {} /\ \A h \in Handler!Handlers : handler[h].pc = "idle"
  BY <1>7 DEF BackendInit, Handler!Init, Handler!Idle, Handler!NoJob, Handler!Hashes
<1> QED
  BY <1>1, <1>6, <1>8, <1>9 DEF PaidInv

\* A transfer that moved has moved for good.
LEMMA MovedStays ==
  ASSUME SendInv, BackendNext \/ UNCHANGED backendVars, NEW r \in Requests, Moved(r)
  PROVE  Moved(r)'
<1>1. RequestStep(r)
  BY RoutesStep, RequestSteps
<1> QED
  BY <1>1, TxStays DEF Moved

\* A step of an invocation: it ends, or goes on for the same transfer; only the
\* last one stores a row and starts an accounting.
LEMMA HandlerEffect ==
  ASSUME PaidInv, NEW h \in Handler!Handlers,
         Handler!HandlerStep(h) \/ Handler!RejectHandler(h)
  PROVE  /\ UNCHANGED <<height, block, reverted, myzc>> /\ handler[h].pc # "idle"
         /\ job' \in {job, Handler!NoJob}
         /\ \E s : /\ handler' = [handler EXCEPT ![h] = s]
                   /\ s \in [pc : {"idle", "find", "receipt", "save"},
                             tx : StoredTx \cup {Handler!NoTx}, status : {"none", "confirmed"}]
                   /\ s.pc = "save" => s.status = "confirmed"
         /\ \/ UNCHANGED <<rows, dispatch>>
            \/ \E row \in StoredTx :
                 /\ dispatch' = [dispatch EXCEPT ![h] =
                      [pc |-> "route", tx |-> row, user |-> Handler!NoUser]]
                 /\ rows' \in [Handler!Keys -> Seq(StoredTx)]
<1> DEFINE States == [pc : {"idle", "find", "receipt", "save"},
                      tx : StoredTx \cup {Handler!NoTx}, status : {"none", "confirmed"}]
           Next1(s) == /\ handler' = [handler EXCEPT ![h] = s]
                       /\ s \in States
                       /\ s.pc = "save" => s.status = "confirmed"
<1>1. h[1] \in Requests /\ Handler!Key(h[1]) \in Handler!Keys /\ handler[h] \in States
  BY DEF Handler!Handlers, Handler!Keys, PaidInv, IntakeType
<1>2. Handler!Idle \in States /\ Handler!Idle.pc = "idle"
  BY DEF Handler!Idle
<1>3. ASSUME Handler!Reject(h)
      PROVE  (\E s : Next1(s)) /\ job' \in {job, Handler!NoJob}
  <2>1. Next1(Handler!Idle)
    BY <1>2, <1>3 DEF Handler!Reject
  <2> QED
    BY <1>3, <2>1 DEF Handler!Reject
<1>4. ASSUME handler' = [handler EXCEPT ![h] = Handler!Idle]
      PROVE  \E s : Next1(s)
  BY <1>2, <1>4
<1>5. CASE Handler!FindTx(h)
  <2>1. /\ UNCHANGED <<height, block, reverted, myzc, rows, dispatch>>
        /\ handler[h].pc # "idle"
    BY <1>5 DEF Handler!FindTx, Handler!chainVars, Handler!moneyVars
  <2>2. CASE /\ UNCHANGED job
             /\ handler' = [handler EXCEPT
                  ![h] = [@ EXCEPT !.pc = "receipt", !.tx = Handler!FoundTx(Handler!Key(h[1]))]]
    <3>1. Handler!FoundTx(Handler!Key(h[1])) \in StoredTx \cup {Handler!NoTx}
      BY <1>1 DEF Handler!FoundTx, PaidInv, IntakeType
    <3>2. PICK s : s = [handler[h] EXCEPT !.pc = "receipt",
                                          !.tx = Handler!FoundTx(Handler!Key(h[1]))]
      OBVIOUS
    <3>3. s \in States /\ s.pc = "receipt"
      BY <1>1, <3>1, <3>2
    <3>4. Next1(s)
      BY <2>2, <3>2, <3>3
    <3> HIDE DEF Next1
    <3> QED
      BY <2>1, <2>2, <3>4 DEF Next1
  <2>3. CASE Handler!Reject(h)
    BY <1>3, <2>1, <2>3
  <2> QED
    BY <1>5, <2>2, <2>3 DEF Handler!FindTx
<1>6. CASE Handler!GetReceipt(h)
  <2>1. /\ UNCHANGED <<height, block, reverted, myzc, rows, dispatch>>
        /\ handler[h].pc # "idle"
    BY <1>6 DEF Handler!GetReceipt, Handler!chainVars, Handler!moneyVars
  <2>2. CASE /\ UNCHANGED job /\ Handler!Receipt(h[1]) # "null"
             /\ handler' = [handler EXCEPT
                  ![h] = [@ EXCEPT !.pc = "save", !.status = Handler!Receipt(h[1])]]
    <3>1. Handler!Receipt(h[1]) = "confirmed"
      BY <1>1, <2>2 DEF Handler!Receipt, PaidInv, IntakeType
    <3>2. PICK s : s = [handler[h] EXCEPT !.pc = "save", !.status = Handler!Receipt(h[1])]
      OBVIOUS
    <3>3. s \in States /\ s.status = "confirmed"
      BY <1>1, <3>1, <3>2
    <3>4. Next1(s)
      BY <2>2, <3>2, <3>3
    <3> HIDE DEF Next1
    <3> QED
      BY <2>1, <2>2, <3>4 DEF Next1
  <2>3. CASE UNCHANGED job /\ handler' = [handler EXCEPT ![h] = Handler!Idle]
    BY <1>4, <2>1, <2>3
  <2>4. CASE Handler!Reject(h)
    BY <1>3, <2>1, <2>4
  <2> QED
    BY <1>6, <2>2, <2>3, <2>4 DEF Handler!GetReceipt
<1>7. CASE Handler!SaveTx(h)
  <2>1. /\ UNCHANGED <<height, block, reverted, myzc, job>>
        /\ handler[h].pc = "save" /\ handler' = [handler EXCEPT ![h] = Handler!Idle]
    BY <1>7 DEF Handler!SaveTx, Handler!chainVars, Handler!moneyVars
  <2>2. handler[h].tx \in StoredTx \cup {Handler!NoTx} /\ handler[h].status = "confirmed"
    BY <1>1, <2>1 DEF PaidInv
  <2>3. handler[h].tx.status # "pending"
    BY <2>2 DEF StoredTx, Handler!NoTx
  <2> DEFINE inserted == [status |-> handler[h].status, tokenAmount |-> 10 * Amount[h[1]]]
  <2>4. inserted \in StoredTx
    BY <1>1, <2>2, SignerFacts DEF StoredTx
  <2>5. \/ UNCHANGED <<rows, dispatch>>
        \/ /\ rows' = [rows EXCEPT ![Handler!Key(h[1])] = Append(@, inserted)]
           /\ dispatch' = [dispatch EXCEPT ![h] =
                [pc |-> "route", tx |-> inserted, user |-> Handler!NoUser]]
    BY <1>1, <1>7, <2>3 DEF Handler!SaveTx, Handler!IsPending, Handler!StartDispatch
  <2>6. rows' = [rows EXCEPT ![Handler!Key(h[1])] = Append(@, inserted)]
          => rows' \in [Handler!Keys -> Seq(StoredTx)]
    BY <1>1, <2>4 DEF PaidInv, IntakeType
  <2> HIDE DEF inserted, Next1
  <2> QED
    BY <1>4, <2>1, <2>4, <2>5, <2>6 DEF Next1
<1>8. CASE Handler!RejectHandler(h)
  <2>1. /\ UNCHANGED <<height, block, reverted, myzc, rows, dispatch>>
        /\ handler[h].pc # "idle" /\ Handler!Reject(h)
    BY <1>8 DEF Handler!RejectHandler, Handler!chainVars, Handler!moneyVars
  <2> QED
    BY <1>3, <2>1
<1> QED
  BY <1>5, <1>6, <1>7, <1>8 DEF Handler!HandlerStep

LEMMA PaidInvNext ==
  ASSUME PaidInv, BackendNext \/ UNCHANGED backendVars
  PROVE  PaidInv'
<1> USE DEF PaidInv
<1>1. SendInv'
  BY RoutesStep, SendInvNext
<1>2. \A r \in Requests : Moved(r) => Moved(r)'
  BY MovedStays
<1>3. CASE UNCHANGED <<height, block, reverted, handler, dispatch, job, rows, myzc>>
  BY <1>1, <1>2, <1>3 DEF IntakeType, Handler!Handlers
<1>4. ASSUME NEW r \in Requests, MineTransfer(r)
      PROVE  PaidInv'
  <2>1. PICK S \in SUBSET {q \in Requests : Moved(q)'} : Handler!NewBlock(S)
    BY <1>4 DEF MineTransfer
  <2>2. /\ height' = height + 1
        /\ block' = [q \in Requests |-> IF q \in S THEN height + 1 ELSE block[q]]
        /\ UNCHANGED <<reverted, handler, dispatch, job, rows, myzc>>
    BY <2>1 DEF Handler!NewBlock, Handler!moneyVars
  <2>3. IntakeType'
    BY <2>2 DEF IntakeType
  <2>4. \A q \in Requests : block'[q] # 0 => Moved(q)'
    BY <1>2, <2>2
  <2> QED
    BY <1>1, <1>2, <2>2, <2>3, <2>4 DEF Handler!Handlers, IntakeType
<1>5. ASSUME NEW r \in Requests, LinkWithdrawal(r)
      PROVE  PaidInv'
  <2>1. /\ UNCHANGED <<height, block, reverted, handler, dispatch, job, rows>>
        /\ myzc[r] = "none" /\ myzc' = [myzc EXCEPT ![r] = "sent"]
    BY <1>5 DEF LinkWithdrawal, Handler!LinkWithdrawal, Handler!chainVars
  <2>2. IntakeType'
    BY <2>1 DEF IntakeType
  <2> QED
    BY <1>1, <1>2, <2>1, <2>2 DEF Handler!Handlers, IntakeType
<1>6. CASE CrashProcess
  <2>1. /\ UNCHANGED <<height, block, reverted, rows, myzc>>
        /\ handler' = [h \in Handler!Handlers |-> Handler!Idle]
        /\ dispatch' = [h \in Handler!Handlers |-> Handler!NoDispatch]
        /\ job' = Handler!NoJob
    BY <1>6 DEF CrashProcess, Handler!Crash, Handler!chainVars, Handler!moneyVars
  <2>2. \A h \in Handler!Handlers :
          /\ IsDispatch(dispatch'[h])
          /\ handler'[h].pc = "idle" /\ dispatch'[h].pc = "idle"
    BY <2>1 DEF Handler!Idle, Handler!NoDispatch, IsDispatch
  <2>3. IntakeType'
    BY <2>1, <2>2 DEF IntakeType, IsDispatch, Handler!Idle, Handler!NoJob
  <2>4. job'.events = {}
    BY <2>1 DEF Handler!NoJob
  <2> QED
    BY <1>1, <1>2, <2>1, <2>2, <2>3, <2>4
<1>7. ASSUME NEW h \in Handler!Handlers,
             Handler!HandlerStep(h) \/ Handler!RejectHandler(h)
      PROVE  PaidInv'
  <2>1. h[1] \in Requests /\ Moved(h[1])
    BY <1>7, HandlerEffect DEF Handler!Handlers
  <2>2. PICK s : /\ handler' = [handler EXCEPT ![h] = s]
                 /\ s \in [pc : {"idle", "find", "receipt", "save"},
                           tx : StoredTx \cup {Handler!NoTx}, status : {"none", "confirmed"}]
                 /\ s.pc = "save" => s.status = "confirmed"
    BY <1>7, HandlerEffect
  <2>3. /\ handler' \in [Handler!Handlers ->
             [pc : {"idle", "find", "receipt", "save"},
              tx : StoredTx \cup {Handler!NoTx}, status : {"none", "confirmed"}]]
        /\ \A g \in Handler!Handlers :
             /\ handler'[g].pc # "idle" => Moved(g[1])'
             /\ handler'[g].pc = "save" => handler'[g].status = "confirmed"
    BY <1>2, <2>1, <2>2 DEF IntakeType, Handler!Handlers
  <2>4. /\ job' \in [pc : {"idle", "fetch", "loop"}, currentBlock : Nat,
                     events : SUBSET (Requests \X Nat)]
        /\ \A e \in job'.events : Moved(e[1])'
    <3>1. job' = job \/ job' = Handler!NoJob
      BY <1>7, HandlerEffect
    <3>2. CASE job' = job
      BY <1>2, <3>2 DEF IntakeType
    <3>3. CASE job' = Handler!NoJob
      BY <3>3 DEF Handler!NoJob
    <3> QED
      BY <3>1, <3>2, <3>3
  <2>5. /\ rows' \in [Handler!Keys -> Seq(StoredTx)]
        /\ dispatch' = [g \in Handler!Handlers |-> dispatch'[g]]
        /\ \A g \in Handler!Handlers :
             /\ IsDispatch(dispatch'[g])
             /\ dispatch'[g].pc # "idle" => Moved(g[1])' /\ dispatch'[g].tx \in StoredTx
    <3>1. CASE UNCHANGED <<rows, dispatch>>
      BY <1>2, <3>1 DEF IntakeType, Handler!Handlers
    <3>2. ASSUME NEW row \in StoredTx,
                 dispatch' = [dispatch EXCEPT ![h] =
                   [pc |-> "route", tx |-> row, user |-> Handler!NoUser]],
                 rows' \in [Handler!Keys -> Seq(StoredTx)]
          PROVE  <2>5!2 /\ <2>5!3
      <4>1. IsDispatch([pc |-> "route", tx |-> row, user |-> Handler!NoUser])
        BY DEF IsDispatch
      <4> QED
        BY <1>2, <2>1, <3>2, <4>1 DEF IntakeType, Handler!Handlers
    <3> QED
      BY <1>7, <3>1, <3>2, HandlerEffect
  <2>6. UNCHANGED <<height, block, reverted, myzc>>
    BY <1>7, HandlerEffect
  <2>7. IntakeType'
    BY <2>3, <2>4, <2>5, <2>6 DEF IntakeType, IsDispatch
  <2> QED
    BY <1>1, <1>2, <2>3, <2>4, <2>5, <2>6, <2>7
<1>8. ASSUME NEW h \in Handler!Handlers,
             Handler!DispatchStep(h) \/ Handler!RejectDispatch(h)
      PROVE  PaidInv'
  <2>1. /\ UNCHANGED <<height, block, reverted, handler, job, rows>>
        /\ dispatch[h].pc # "idle"
        /\ \E d : /\ dispatch' = [dispatch EXCEPT ![h] = d]
                  /\ IsDispatch(d)
                  /\ d.pc # "idle" => d.tx = dispatch[h].tx
        /\ \/ UNCHANGED myzc
           \/ myzc' = [myzc EXCEPT ![h[1]] =
                IF dispatch[h].tx.status = "confirmed" THEN "success" ELSE "failed"]
    BY <1>8, DispatchEffect
  <2>2. h[1] \in Requests /\ Moved(h[1]) /\ dispatch[h].tx \in StoredTx
    BY <2>1 DEF Handler!Handlers
  <2>3. PICK d : /\ dispatch' = [dispatch EXCEPT ![h] = d]
                 /\ IsDispatch(d)
                 /\ d.pc # "idle" => d.tx = dispatch[h].tx
    BY <2>1
  <2>4. /\ dispatch' = [g \in Handler!Handlers |-> dispatch'[g]]
        /\ \A g \in Handler!Handlers :
             /\ IsDispatch(dispatch'[g])
             /\ dispatch'[g].pc # "idle" => Moved(g[1])' /\ dispatch'[g].tx \in StoredTx
    BY <1>2, <2>2, <2>3 DEF IntakeType, Handler!Handlers
  <2>5. UNCHANGED myzc \/ myzc' = [myzc EXCEPT ![h[1]] = "success"]
    BY <2>1, <2>2 DEF StoredTx
  <2>6. /\ myzc' \in [Requests -> {"none", "sent", "success", "failed"}]
        /\ \A r \in Requests :
             myzc'[r] \notin {"none", "sent"} => myzc'[r] = "success" /\ Moved(r)'
    BY <1>2, <2>2, <2>5 DEF IntakeType
  <2>7. IntakeType'
    BY <2>1, <2>4, <2>6 DEF IntakeType, IsDispatch
  <2> QED
    BY <1>1, <1>2, <2>1, <2>4, <2>6, <2>7 DEF Handler!Handlers, IntakeType
<1>9. CASE Handler!JobStep \/ Handler!RejectJob
  <2>1. /\ UNCHANGED <<height, block, reverted, dispatch, rows, myzc>>
        /\ handler' = handler \/ \E e \in job.events :
             handler' = [handler EXCEPT ![<<e[1], "restore">>].pc = "find"]
    BY <1>9 DEF Handler!JobStep, Handler!RejectJob, Handler!JobStart, Handler!JobFetch, Handler!JobDone,
       Handler!JobNext, Handler!Restoring, Handler!chainVars, Handler!moneyVars
  <2>2. \A upTo : \A e \in Handler!Scan(upTo) :
          e \in Requests \X Nat /\ Moved(e[1])
    BY DEF Handler!Scan, IntakeType
  <2>3. /\ job' \in [pc : {"idle", "fetch", "loop"}, currentBlock : Nat,
                     events : SUBSET (Requests \X Nat)]
        /\ \A e \in job'.events : Moved(e[1])
    <3>1. CASE Handler!JobStart
      BY <3>1 DEF Handler!JobStart, IntakeType
    <3>2. CASE Handler!JobFetch
      <4>1. \/ \E upTo : job' = [job EXCEPT !.pc = "loop", !.events = Handler!Scan(upTo)]
            \/ job' = Handler!NoJob
        BY <3>2, Zenon DEF Handler!JobFetch
      <4>2. CASE job' = Handler!NoJob
        BY <4>2 DEF Handler!NoJob
      <4>3. ASSUME NEW upTo, job' = [job EXCEPT !.pc = "loop", !.events = Handler!Scan(upTo)]
            PROVE  <2>3
        <5>1. Handler!Scan(upTo) \in SUBSET (Requests \X Nat)
          BY <2>2
        <5> QED
          BY <2>2, <4>3, <5>1 DEF IntakeType
      <4> QED
        BY <4>1, <4>2, <4>3
    <3>3. CASE Handler!JobDone
      BY <3>3 DEF Handler!JobDone, Handler!NoJob
    <3>4. ASSUME NEW e \in job.events, Handler!JobNext(e)
          PROVE  <2>3
      BY <3>4 DEF Handler!JobNext, IntakeType
    <3>5. CASE Handler!RejectJob
      BY <3>5 DEF Handler!RejectJob, Handler!NoJob
    <3> QED
      BY <1>9, <3>1, <3>2, <3>3, <3>4, <3>5 DEF Handler!JobStep
  <2>4. /\ handler' \in [Handler!Handlers ->
             [pc : {"idle", "find", "receipt", "save"},
              tx : StoredTx \cup {Handler!NoTx}, status : {"none", "confirmed"}]]
        /\ \A g \in Handler!Handlers :
             /\ handler'[g].pc # "idle" => Moved(g[1])
             /\ handler'[g].pc = "save" => handler'[g].status = "confirmed"
    <3>1. CASE handler' = handler
      BY <3>1 DEF IntakeType
    <3>2. ASSUME NEW e \in job.events,
                 handler' = [handler EXCEPT ![<<e[1], "restore">>].pc = "find"]
          PROVE  <2>4
      <4>1. e[1] \in Requests /\ Moved(e[1])
        BY DEF IntakeType
      <4>2. <<e[1], "restore">> \in Handler!Handlers
        BY <4>1 DEF Handler!Handlers, Handler!Origins
      <4>3. PICK g \in Handler!Handlers : g = <<e[1], "restore">>
        BY <4>2
      <4>4. handler' = [handler EXCEPT ![g] = [handler[g] EXCEPT !.pc = "find"]]
        BY <3>2, <4>3
      <4>5. /\ [handler[g] EXCEPT !.pc = "find"] \in
                  [pc : {"idle", "find", "receipt", "save"},
                   tx : StoredTx \cup {Handler!NoTx}, status : {"none", "confirmed"}]
            /\ [handler[g] EXCEPT !.pc = "find"].pc = "find"
        <5>1. handler[g] \in [pc : {"idle", "find", "receipt", "save"},
                tx : StoredTx \cup {Handler!NoTx}, status : {"none", "confirmed"}]
          BY DEF IntakeType
        <5> QED
          BY ONLY <5>1
      <4>6. Moved(g[1])
        BY <4>1, <4>3
      <4> QED
        BY <4>4, <4>5, <4>6 DEF IntakeType
    <3> QED
      BY <2>1, <3>1, <3>2
  <2>5. IntakeType'
    BY <2>1, <2>3, <2>4 DEF IntakeType
  <2>6. \A g \in Handler!Handlers : g[1] \in Requests
    BY DEF Handler!Handlers
  <2>7. \A e \in job'.events : e[1] \in Requests
    BY <2>3
  <2> QED
    BY <1>1, <1>2, <2>1, <2>3, <2>4, <2>5, <2>6, <2>7
<1> HIDE DEF PaidInv
<1> QED
  BY <1>3, <1>4, <1>5, <1>6, <1>7, <1>8, <1>9, IntakeKinds

\* On a chain that is not reorganised, the site's record of a withdrawal is
\* settled only as success, and only when its transfer moved the tokens in the
\* contract: a reverted transfer emits no event, so nothing the intake stores,
\* or dispatches, stands for one.
THEOREM WithdrawalsArePaid == BackendSpec => []SettledIsPaid
<1>1. PaidInv => SettledIsPaid
  BY DEF PaidInv, SettledIsPaid
<1> QED
  BY <1>1, PaidInvInit, PaidInvNext, PTL DEF BackendSpec

-----------------------------------------------------------------------------
\* The site stores hashes that were answered, and an accounting settles only a
\* withdrawal it found.
LinkInv ==
  /\ PaidInv
  /\ \A r \in Requests : myzc[r] # "none" => answer[r] = "hash"
  /\ \A h \in Handler!Handlers : dispatch[h].pc = "settle" => myzc[h[1]] # "none"

LEMMA LinkInvNext ==
  ASSUME LinkInv, BackendNext \/ UNCHANGED backendVars
  PROVE  LinkInv'
<1> USE DEF LinkInv
<1>1. PaidInv' /\ IntakeType
  BY PaidInvNext DEF PaidInv
<1>2. \A r \in Requests : answer[r] = "hash" => answer'[r] = "hash"
  BY RoutesStep, RequestSteps, AnswerStays DEF PaidInv
<1>3. ASSUME UNCHANGED <<dispatch, myzc>>
      PROVE  LinkInv'
  BY <1>1, <1>2, <1>3
<1>4. ASSUME NEW r \in Requests, LinkWithdrawal(r)
      PROVE  LinkInv'
  <2>1. UNCHANGED dispatch /\ answer[r] = "hash" /\ myzc' = [myzc EXCEPT ![r] = "sent"]
    BY <1>4 DEF LinkWithdrawal, Handler!LinkWithdrawal
  <2>2. \A h \in Handler!Handlers : h[1] \in Requests
    BY DEF Handler!Handlers
  <2> QED
    BY <1>1, <1>2, <2>1, <2>2 DEF IntakeType
<1>5. ASSUME NEW r \in Requests, MineTransfer(r)
      PROVE  UNCHANGED <<dispatch, myzc>>
  BY <1>5 DEF MineTransfer, Handler!NewBlock, Handler!moneyVars
<1>6. CASE CrashProcess
  <2>1. UNCHANGED myzc /\ dispatch' = [h \in Handler!Handlers |-> Handler!NoDispatch]
    BY <1>6 DEF CrashProcess, Handler!Crash, Handler!moneyVars
  <2> QED
    BY <1>1, <1>2, <2>1 DEF Handler!NoDispatch
<1>7. ASSUME NEW h \in Handler!Handlers,
             Handler!HandlerStep(h) \/ Handler!RejectHandler(h)
      PROVE  LinkInv'
  <2>1. UNCHANGED myzc
    BY <1>7, HandlerEffect
  <2>2. \A g \in Handler!Handlers : dispatch'[g].pc = "settle" => dispatch[g].pc = "settle"
    <3>1. UNCHANGED dispatch \/ \E row \in StoredTx :
            dispatch' = [dispatch EXCEPT ![h] =
              [pc |-> "route", tx |-> row, user |-> Handler!NoUser]]
      BY <1>7, HandlerEffect
    <3>2. ASSUME NEW row,
                 dispatch' = [dispatch EXCEPT ![h] =
                   [pc |-> "route", tx |-> row, user |-> Handler!NoUser]],
                 NEW g \in Handler!Handlers, dispatch'[g].pc = "settle"
          PROVE  dispatch[g].pc = "settle"
      <4>1. g # h
        BY <1>1, <3>2 DEF IntakeType
      <4> QED
        BY <1>1, <3>2, <4>1 DEF IntakeType
    <3> QED
      BY <3>1, <3>2
  <2> QED
    BY <1>1, <1>2, <2>1, <2>2
<1>8. ASSUME NEW h \in Handler!Handlers,
             Handler!DispatchStep(h) \/ Handler!RejectDispatch(h)
      PROVE  LinkInv'
  <2>1. /\ \E d : /\ dispatch' = [dispatch EXCEPT ![h] = d]
                  /\ d.pc = "settle" => myzc[h[1]] # "none"
        /\ \/ UNCHANGED myzc
           \/ /\ dispatch[h].pc = "settle"
              /\ myzc' = [myzc EXCEPT ![h[1]] =
                   IF dispatch[h].tx.status = "confirmed" THEN "success" ELSE "failed"]
    BY <1>1, <1>8, DispatchEffect
  <2>2. \A g \in Handler!Handlers : dispatch'[g].pc = "settle" => myzc[g[1]] # "none"
    BY <1>1, <2>1 DEF IntakeType
  <2>3. \A r \in Requests : myzc'[r] # "none" <=> myzc[r] # "none"
    <3>1. h[1] \in Requests
      BY DEF Handler!Handlers
    <3> QED
      BY <1>1, <2>1, <3>1 DEF IntakeType
  <2>4. \A g \in Handler!Handlers : g[1] \in Requests
    BY DEF Handler!Handlers
  <2> QED
    BY <1>1, <1>2, <2>2, <2>3, <2>4
<1>9. CASE Handler!JobStep \/ Handler!RejectJob
  <2>1. UNCHANGED <<dispatch, myzc>>
    BY <1>9 DEF Handler!JobStep, Handler!RejectJob, Handler!JobStart, Handler!JobFetch, Handler!JobDone,
       Handler!JobNext, Handler!Restoring, Handler!moneyVars
  <2> QED
    BY <1>3, <2>1
<1> HIDE DEF LinkInv
<1> QED
  BY <1>3, <1>4, <1>5, <1>6, <1>7, <1>8, <1>9, IntakeKinds

\* A hash in the site's record of a withdrawal names a transaction in the pool
\* or in the chain, whatever crashes, when the signer's requests wait for one
\* another and none before was refused.
THEOREM LinksAreSent == BackendSpec => []LinkedIsSent
<1>1. BackendInit => LinkInv
  <2> SUFFICES ASSUME BackendInit
               PROVE  LinkInv
    OBVIOUS
  <2>1. \A r \in Requests : myzc[r] = "none"
    BY DEF BackendInit, Handler!Init, Handler!Hashes
  <2>2. \A h \in Handler!Handlers : dispatch[h].pc = "idle"
    BY DEF BackendInit, Handler!Init, Handler!NoDispatch
  <2> QED
    BY <2>1, <2>2, PaidInvInit DEF LinkInv
<1>2. BackendSpec => []LinkInv
  BY <1>1, LinkInvNext, PTL DEF BackendSpec
<1>3. LinkInv /\ PendingIsKept => LinkedIsSent
  BY DEF LinkInv, PendingIsKept, IsPending, LinkedIsSent
<1> QED
  BY <1>2, <1>3, RoutesImplemented, HashesAreKept, PTL
-----------------------------------------------------------------------------
\* A request's tokens count from the moment its row is stored and its accounting
\* has written to the wallet, or ended.
Writes == {"route", "charge", "both", "wallet", "transfer", "draw"}
HasRow(r) == rows[Handler!Key(r)] # <<>>
Written(r) ==
  HasRow(r) /\ \A h \in Handler!Handlers : h[1] = r => dispatch[h].pc \notin Writes
Credit == [r \in Requests |-> IF Written(r) THEN 10 * Amount[r] ELSE 0]
Deposits(m) == {r \in Requests : From[r] # 1 /\ To[r] = m}
Draws(m) == {r \in Requests : From[r] = m /\ To[r] = 1}
Charged(m) == Total(Credit, Deposits(m))
Drawn(m) == Total(Credit, Draws(m))

\* Amounts of a wallet are whole cents, which rounding to cents leaves alone.
Cents == {n \in Nat : n % 10 = 0}
Users == [amount : Cents, charge_amount : Cents, draw_amount : Cents]
Backed(user, m) ==
  /\ user \in Users
  /\ user.charge_amount <= Charged(m)
  /\ user.draw_amount <= Drawn(m)

\* What an accounting of r that holds d may still write.
Accounts(d, r) ==
  /\ HasRow(r) /\ d.tx.tokenAmount = 10 * Amount[r]
  /\ d.pc \in {"charge", "both", "wallet"} => From[r] # Manager
  /\ d.pc \in {"both", "wallet"} => To[r] \in Members /\ Backed(d.user, To[r])
  /\ d.pc \in {"transfer", "draw"} => From[r] = Manager /\ To[r] = Manager
  /\ d.pc = "draw" => From[r] \in Members /\ Backed(d.user, From[r])

\* No live event arrives over http, and the lookup of an invocation is current.
TaskCredited(h) ==
  /\ h[2] = "live" => handler[h].pc = "idle" /\ dispatch[h].pc = "idle"
  /\ handler[h].pc \in {"receipt", "save"} /\ handler[h].tx = Handler!NoTx => ~HasRow(h[1])
  /\ dispatch[h].pc # "idle" => Accounts(dispatch[h], h[1])

CreditInv ==
  /\ IsFiniteSet(Requests) /\ PaidInv
  /\ \A r \in Requests : HasRow(r) => Moved(r)
  /\ \A h \in Handler!Handlers : TaskCredited(h)
  /\ wallet \in [Members -> Users] /\ \A m \in Members : Backed(wallet[m], m)

LEMMA CreditType ==
  ASSUME IsFiniteSet(Requests)
  PROVE  /\ \A r \in Requests : 10 * Amount[r] \in Cents /\ Credit[r] \in {0, 10 * Amount[r]}
         /\ \A r \in Requests : Credit[r] \in Nat
         /\ \A S \in SUBSET Requests : IsFiniteSet(S) /\ Total(Credit, S) \in Nat
         /\ \A m : Deposits(m) \in SUBSET Requests /\ Draws(m) \in SUBSET Requests
         /\ \A m : Charged(m) \in Nat /\ Drawn(m) \in Nat
<1>1. \A n \in Nat : 10 * n \in Nat /\ (10 * n) % 10 = 0
  OBVIOUS
<1>2. \A r \in Requests : 10 * Amount[r] \in Cents /\ Credit[r] \in {0, 10 * Amount[r]}
  BY <1>1, SignerFacts DEF Credit, Cents
<1>3. \A r \in Requests : Credit[r] \in Nat
  BY <1>2 DEF Cents
<1>4. \A S \in SUBSET Requests : IsFiniteSet(S) /\ Total(Credit, S) \in Nat
  BY <1>3, FS_Subset, TotalNat
<1>5. \A m : Deposits(m) \in SUBSET Requests /\ Draws(m) \in SUBSET Requests
  BY DEF Deposits, Draws
<1>6. \A m : Charged(m) \in Nat /\ Drawn(m) \in Nat
  BY <1>4, <1>5 DEF Charged, Drawn
<1> QED
  BY <1>2, <1>3, <1>4, <1>5, <1>6

\* What is written stays written, so that no bound falls; a write raises the
\* bound of its wallet by its tokens.
LEMMA CreditRises ==
  ASSUME IsFiniteSet(Requests), \A r \in Requests : Written(r) => Written(r)',
         NEW S \in SUBSET Requests
  PROVE  /\ Total(Credit, S) \in Nat /\ Total(Credit, S)' \in Nat
         /\ Total(Credit, S) <= Total(Credit, S)'
         /\ \A r \in S : ~Written(r) /\ Written(r)' =>
              Total(Credit, S) + 10 * Amount[r] <= Total(Credit, S)'
<1> DEFINE G == Credit'
<1>1. Total(Credit, S)' = Total(G, S)
  OBVIOUS
<1>2. G = [r \in Requests |-> IF Written(r)' THEN 10 * Amount[r] ELSE 0]
  BY DEF Credit
<1>3. \A r \in Requests : 10 * Amount[r] \in Nat
  BY CreditType DEF Cents
<1>4. \A r \in S : Credit[r] \in Nat /\ G[r] \in Nat /\ Credit[r] <= G[r]
  BY <1>2, <1>3 DEF Credit
<1>5. \A r \in S : ~Written(r) /\ Written(r)' => G[r] - Credit[r] = 10 * Amount[r]
  BY <1>2, <1>3 DEF Credit
<1>6. IsFiniteSet(S)
  BY FS_Subset
<1> HIDE DEF G
<1>7. \A r \in S : Credit[r] \in Int /\ G[r] \in Int /\ Credit[r] <= G[r]
  BY <1>4
<1>8. /\ Total(Credit, S) \in Nat /\ Total(G, S) \in Nat
      /\ Total(Credit, S) <= Total(G, S)
  BY <1>4, <1>6, <1>7, TotalNat, TotalLess
<1>9. ASSUME NEW r \in S, ~Written(r), Written(r)'
      PROVE  Total(Credit, S) + 10 * Amount[r] <= Total(G, S)
  <2>1. Total(Credit, S) + (G[r] - Credit[r]) <= Total(G, S)
    BY <1>6, <1>7, TotalGrows
  <2> QED
    BY <1>5, <1>9, <2>1
<1> QED
  BY <1>1, <1>8, <1>9

LEMMA BackedRemains ==
  ASSUME IsFiniteSet(Requests), \A r \in Requests : Written(r) => Written(r)',
         NEW user, NEW m, Backed(user, m)
  PROVE  Backed(user, m)'
<1>1. user.charge_amount \in Nat /\ user.draw_amount \in Nat
  BY DEF Backed, Users, Cents
<1>2. Deposits(m) \in SUBSET Requests /\ Draws(m) \in SUBSET Requests
  BY CreditType
<1>3. /\ Charged(m) <= Charged(m)'
      /\ Charged(m) \in Nat /\ Charged(m)' \in Nat
      /\ Drawn(m) <= Drawn(m)'
      /\ Drawn(m) \in Nat /\ Drawn(m)' \in Nat
  BY <1>2, CreditRises DEF Charged, Drawn
<1> QED
  BY <1>1, <1>3 DEF Backed

\* A column of whole cents is stored as it is, or as the largest value.
LEMMA StoredCents ==
  ASSUME NEW c \in Cents, NEW a \in Cents
  PROVE  /\ Handler!Stored(Handler!parsePlus(c, a)) \in Cents
         /\ Handler!Stored(Handler!parsePlus(c, a)) <= c + a
<1>1. PICK n \in Nat : n = c + a
  BY DEF Cents
<1>2. n % 10 = 0 /\ ((n + 5) \div 10) * 10 = n
  BY <1>1 DEF Cents
<1>3. 10 * MaxUint \in Nat /\ (10 * MaxUint) % 10 = 0
  BY ContractAssumption
<1>4. Handler!parsePlus(c, a) = n
  BY <1>1 DEF Handler!parsePlus, Handler!NULL, Cents
<1>5. Handler!Rounded(n) = n
  BY <1>2 DEF Handler!Rounded
<1>6. Handler!Stored(n) = IF n > 10 * MaxUint THEN 10 * MaxUint ELSE n
  BY <1>5 DEF Handler!Stored, Handler!NULL
<1> QED
  BY <1>1, <1>2, <1>3, <1>4, <1>6 DEF Cents

\* A write adds the tokens of r to a row its accounting held.
Adds(user, m, r) ==
  /\ user \in Users
  /\ \/ /\ r \in Deposits(m)
        /\ user.charge_amount <= Charged(m) + 10 * Amount[r]
        /\ user.draw_amount <= Drawn(m)
     \/ /\ r \in Draws(m)
        /\ user.charge_amount <= Charged(m)
        /\ user.draw_amount <= Drawn(m) + 10 * Amount[r]

\* A step of an accounting writes a wallet only as the last of its writes.
LEMMA CreditDispatch ==
  ASSUME CreditInv, NEW h \in Handler!Handlers,
         Handler!DispatchStep(h) \/ Handler!RejectDispatch(h)
  PROVE  /\ UNCHANGED <<handler, rows>> /\ dispatch[h].pc # "idle"
         /\ \E d : /\ dispatch' = [dispatch EXCEPT ![h] = d]
                   /\ d.pc \in Writes => dispatch[h].pc \in Writes
                   /\ d.pc # "idle" => Accounts(d, h[1])
                   /\ \/ UNCHANGED wallet
                      \/ /\ dispatch[h].pc \in Writes /\ d.pc \notin Writes
                         /\ \E m \in Members : \E user :
                              wallet' = [wallet EXCEPT ![m] = user] /\ Adds(user, m, h[1])
<1> DEFINE r == h[1]
           old == dispatch[h]
           At(next) == [pc |-> next, tx |-> old.tx, user |-> old.user]
           Wrote(d) == \/ UNCHANGED wallet
                       \/ /\ old.pc \in Writes /\ d.pc \notin Writes
                          /\ \E m \in Members : \E user :
                               wallet' = [wallet EXCEPT ![m] = user] /\ Adds(user, m, r)
           Effect(d) == /\ dispatch' = [dispatch EXCEPT ![h] = d]
                        /\ d.pc \in Writes => old.pc \in Writes
                        /\ d.pc # "idle" => Accounts(d, r)
                        /\ Wrote(d)
<1>1. /\ r \in Requests /\ IsDispatch(old)
      /\ old.pc # "idle" => Accounts(old, r)
      /\ \A m \in Members : wallet[m] \in Users /\ Backed(wallet[m], m)
  BY DEF CreditInv, PaidInv, IntakeType, TaskCredited, Handler!Handlers
<1>2. UNCHANGED <<handler, rows>> /\ old.pc # "idle"
  BY DispatchEffect DEF CreditInv, PaidInv
<1> HIDE DEF r, old
<1>3. Accounts(old, r)
  BY <1>1, <1>2
<1>4. ASSUME NEW next, Handler!DispatchTo(h, next), next \in Writes => old.pc \in Writes,
             Accounts(At(next), r), Wrote(At(next))
      PROVE  \E d : Effect(d)
  <2>1. [old EXCEPT !.pc = next] = At(next)
    BY <1>1, DispatchFields
  <2>2. dispatch' = [dispatch EXCEPT ![h] = At(next)]
    BY <1>4, <2>1 DEF Handler!DispatchTo, old
  <2>3. Effect(At(next))
    BY <1>4, <2>2
  <2> QED
    BY <2>3
<1>5. ASSUME Handler!EndDispatch(h), Wrote(Handler!NoDispatch)
      PROVE  \E d : Effect(d)
  <2>1. Handler!NoDispatch.pc = "idle" /\ "idle" \notin Writes
    BY DEF Handler!NoDispatch, Writes
  <2>2. Effect(Handler!NoDispatch)
    BY <1>5, <2>1 DEF Handler!EndDispatch
  <2> QED
    BY <2>2
<1>6. ASSUME NEW next \in {"both", "draw"}, NEW member,
             dispatch' = [dispatch EXCEPT ![h] = [@ EXCEPT !.pc = next, !.user = member]],
             old.pc \in Writes, UNCHANGED wallet,
             Accounts([pc |-> next, tx |-> old.tx, user |-> member], r)
      PROVE  \E d : Effect(d)
  <2>1. old \in [pc : {old.pc}, tx : {old.tx}, user : {old.user}]
    BY <1>1, DispatchFields
  <2>2. [old EXCEPT !.pc = next, !.user = member] = [pc |-> next, tx |-> old.tx, user |-> member]
    <3>1. PICK d : d = [old EXCEPT !.pc = next, !.user = member]
      OBVIOUS
    <3>2. d \in [pc : {next}, tx : {old.tx}, user : {member}]
      BY <2>1, <3>1
    <3> QED
      BY <3>1, <3>2, DispatchValues
  <2>3. Effect([pc |-> next, tx |-> old.tx, user |-> member])
    BY <1>6, <2>2 DEF old
  <2> QED
    BY <2>3
<1>7. \A next : At(next).pc = next /\ At(next).tx = old.tx /\ At(next).user = old.user
  OBVIOUS
<1>8. \A next : next \notin Writes => Accounts(At(next), r)
  BY <1>3, <1>7 DEF Accounts, Writes
<1> HIDE DEF At, Effect
<1>9. ASSUME Handler!Route(h)
      PROVE  \E d : Effect(d)
  <2>1. old.pc = "route" /\ UNCHANGED wallet
    BY <1>9 DEF Handler!Route, Handler!Dispatching, Handler!moneyVars, old
  <2>2. \/ From[r] # Manager /\ Handler!DispatchTo(h, "charge")
        \/ From[r] = Manager /\ To[r] = Manager /\ Handler!DispatchTo(h, "transfer")
        \/ Handler!DispatchTo(h, "withdraw")
    BY <1>9 DEF Handler!Route, r
  <2>3. /\ From[r] # Manager => Accounts(At("charge"), r)
        /\ From[r] = Manager /\ To[r] = Manager => Accounts(At("transfer"), r)
        /\ Accounts(At("withdraw"), r)
    BY <1>3, <1>7 DEF Accounts
  <2>4. old.pc \in Writes
    BY <2>1 DEF Writes
  <2> QED
    BY <1>4, <2>1, <2>2, <2>3, <2>4
<1>10. ASSUME Handler!Charge(h)
      PROVE  \E d : Effect(d)
  <2>1. old.pc = "charge" /\ UNCHANGED wallet /\ old.pc \in Writes
    BY <1>10 DEF Handler!Charge, Handler!Dispatching, Handler!moneyVars, old, Writes
  <2>2. \/ Handler!EndDispatch(h)
        \/ /\ To[r] \in Members
           /\ dispatch' = [dispatch EXCEPT ![h] =
                [@ EXCEPT !.pc = "both", !.user = wallet[To[r]]]]
    BY <1>10 DEF Handler!Charge, r
  <2>3. To[r] \in Members =>
          Accounts([pc |-> "both", tx |-> old.tx, user |-> wallet[To[r]]], r)
    BY <1>1, <1>3, <2>1 DEF Accounts
  <2> QED
    BY <1>5, <1>6, <2>1, <2>2, <2>3
<1>11. ASSUME Handler!addUserCoin(h)
      PROVE  \E d : Effect(d)
  <2> DEFINE m == To[r]
             u == old.user
             charge_amount == Handler!parsePlus(u.charge_amount, old.tx.tokenAmount)
             token_amount == Handler!parsePlus(u.amount, old.tx.tokenAmount)
             user == [u EXCEPT !.charge_amount = Handler!Stored(charge_amount),
                               !.amount = Handler!Stored(token_amount)]
  <2>1. old.pc \in {"both", "wallet"} /\ old.pc \in Writes
    BY <1>11 DEF Handler!addUserCoin, Handler!Dispatching, old, Writes
  <2>2. /\ From[r] # Manager /\ m \in Members /\ Backed(u, m)
        /\ old.tx.tokenAmount = 10 * Amount[r]
    BY <1>3, <2>1 DEF Accounts
  <2>3. wallet' = [wallet EXCEPT ![m] = user]
    BY <1>11 DEF Handler!addUserCoin, Handler!Refused, old, r
  <2>4. 10 * Amount[r] \in Cents /\ r \in Deposits(m)
    BY <1>1, <2>2, CreditType DEF CreditInv, Deposits, Manager
  <2>5. /\ Handler!Stored(charge_amount) \in Cents /\ Handler!Stored(token_amount) \in Cents
        /\ Handler!Stored(charge_amount) <= u.charge_amount + 10 * Amount[r]
    BY <2>2, <2>4, StoredCents DEF Backed, Users
  <2> HIDE DEF charge_amount, token_amount
  <2>6. /\ user \in Users /\ user.charge_amount = Handler!Stored(charge_amount)
        /\ user.draw_amount = u.draw_amount
    BY <2>2, <2>5 DEF Backed, Users
  <2>7. user.charge_amount <= Charged(m) + 10 * Amount[r]
    <3>1. Charged(m) \in Nat
      BY CreditType DEF CreditInv
    <3> QED
      BY <2>2, <2>4, <2>5, <2>6, <3>1 DEF Backed, Users, Cents
  <2>8. Adds(user, m, r)
    BY <2>2, <2>4, <2>6, <2>7 DEF Adds, Backed
  <2>9. \E n \in Members : \E v : wallet' = [wallet EXCEPT ![n] = v] /\ Adds(v, n, r)
    BY <2>2, <2>3, <2>8
  <2>10. Handler!DispatchTo(h, "record") \/ Handler!EndDispatch(h)
    BY <1>11 DEF Handler!addUserCoin, Handler!FinishWrite
  <2>11. /\ "record" \notin Writes /\ Handler!NoDispatch.pc \notin Writes
         /\ At("record").pc = "record"
    BY <1>7 DEF Writes, Handler!NoDispatch
  <2> QED
    BY <1>4, <1>5, <1>8, <2>1, <2>9, <2>10, <2>11
<1>12. ASSUME Handler!InsertMyzr(h)
      PROVE  \E d : Effect(d)
  <2>1. old.pc \in {"both", "record"} /\ UNCHANGED wallet
    BY <1>12 DEF Handler!InsertMyzr, Handler!Dispatching, old
  <2>2. (old.pc = "both" /\ Handler!DispatchTo(h, "wallet")) \/ Handler!EndDispatch(h)
    BY <1>12 DEF Handler!InsertMyzr, Handler!FinishWrite, old
  <2>3. old.pc = "both" => Accounts(At("wallet"), r) /\ old.pc \in Writes
    BY <1>3, <1>7 DEF Accounts, Writes
  <2> QED
    BY <1>4, <1>5, <2>1, <2>2, <2>3
<1>13. ASSUME Handler!Transfer(h)
      PROVE  \E d : Effect(d)
  <2>1. old.pc = "transfer" /\ UNCHANGED wallet /\ old.pc \in Writes
    BY <1>13 DEF Handler!Transfer, Handler!Dispatching, Handler!moneyVars, old, Writes
  <2>2. \/ Handler!EndDispatch(h)
        \/ /\ From[r] \in Members
           /\ dispatch' = [dispatch EXCEPT ![h] =
                [@ EXCEPT !.pc = "draw", !.user = wallet[From[r]]]]
    BY <1>13 DEF Handler!Transfer, r
  <2>3. From[r] \in Members =>
          Accounts([pc |-> "draw", tx |-> old.tx, user |-> wallet[From[r]]], r)
    BY <1>1, <1>3, <2>1 DEF Accounts
  <2> QED
    BY <1>5, <1>6, <2>1, <2>2, <2>3
<1>14. ASSUME Handler!addUserDrawCoin(h)
      PROVE  \E d : Effect(d)
  <2> DEFINE m == From[r]
             u == old.user
             draw_amount == Handler!parsePlus(u.draw_amount, old.tx.tokenAmount)
             user == [u EXCEPT !.draw_amount = Handler!Stored(draw_amount)]
  <2>1. old.pc = "draw" /\ old.pc \in Writes
    BY <1>14 DEF Handler!addUserDrawCoin, Handler!Dispatching, old, Writes
  <2>2. /\ m = Manager /\ To[r] = Manager /\ m \in Members /\ Backed(u, m)
        /\ old.tx.tokenAmount = 10 * Amount[r]
    BY <1>3, <2>1 DEF Accounts
  <2>3. wallet' = [wallet EXCEPT ![m] = user] /\ Handler!EndDispatch(h)
    BY <1>14 DEF Handler!addUserDrawCoin, Handler!Refused, old, r
  <2>4. 10 * Amount[r] \in Cents /\ r \in Draws(m)
    BY <1>1, <2>2, CreditType DEF CreditInv, Draws, Manager
  <2>5. /\ Handler!Stored(draw_amount) \in Cents
        /\ Handler!Stored(draw_amount) <= u.draw_amount + 10 * Amount[r]
    BY <2>2, <2>4, StoredCents DEF Backed, Users
  <2> HIDE DEF draw_amount
  <2>6. /\ user \in Users /\ user.draw_amount = Handler!Stored(draw_amount)
        /\ user.charge_amount = u.charge_amount
    BY <2>2, <2>5 DEF Backed, Users
  <2>7. user.draw_amount <= Drawn(m) + 10 * Amount[r]
    <3>1. Drawn(m) \in Nat
      BY CreditType DEF CreditInv
    <3> QED
      BY <2>2, <2>4, <2>5, <2>6, <3>1 DEF Backed, Users, Cents
  <2>8. Adds(user, m, r)
    BY <2>2, <2>4, <2>6, <2>7 DEF Adds, Backed
  <2>9. \E n \in Members : \E v : wallet' = [wallet EXCEPT ![n] = v] /\ Adds(v, n, r)
    BY <2>2, <2>3, <2>8
  <2>10. Handler!NoDispatch.pc \notin Writes
    BY DEF Writes, Handler!NoDispatch
  <2> QED
    BY <1>5, <2>1, <2>3, <2>9, <2>10
<1>15. ASSUME Handler!Withdraw(h) \/ Handler!Settle(h)
      PROVE  \E d : Effect(d)
  <2>1. /\ UNCHANGED wallet /\ "settle" \notin Writes
        /\ Handler!EndDispatch(h) \/ Handler!DispatchTo(h, "settle")
    BY <1>15 DEF Handler!Withdraw, Handler!Settle, Handler!moneyVars, Writes
  <2> QED
    BY <1>4, <1>5, <1>8, <2>1
<1>16. ASSUME Handler!RejectDispatch(h)
      PROVE  \E d : Effect(d)
  <2>1. UNCHANGED wallet
    BY <1>16 DEF Handler!RejectDispatch, Handler!moneyVars
  <2>2. \/ Handler!EndDispatch(h)
        \/ /\ old.pc = "both"
           /\ Handler!DispatchTo(h, "wallet") \/ Handler!DispatchTo(h, "record")
    BY <1>16 DEF Handler!RejectDispatch, old
  <2>3. old.pc = "both" => /\ Accounts(At("wallet"), r) /\ Accounts(At("record"), r)
                           /\ old.pc \in Writes
    BY <1>3, <1>7 DEF Accounts, Writes
  <2> QED
    BY <1>4, <1>5, <2>1, <2>2, <2>3
<1>17. \E d : Effect(d)
  BY <1>9, <1>10, <1>11, <1>12, <1>13, <1>14, <1>15, <1>16 DEF Handler!DispatchStep
<1> QED
  BY <1>2, <1>17 DEF Effect, old, r

\* What an invocation found stays true until it saves; it starts the accounting
\* of a request only with the row it inserts for it.
LEMMA CreditHandler ==
  ASSUME CreditInv, NEW h \in Handler!Handlers,
         Handler!HandlerStep(h) \/ Handler!RejectHandler(h)
  PROVE  /\ UNCHANGED wallet /\ Moved(h[1]) /\ h[2] # "live"
         /\ \E s : /\ handler' = [handler EXCEPT ![h] = s]
                   /\ s.pc \in {"receipt", "save"} /\ s.tx = Handler!NoTx => ~HasRow(h[1])
                   /\ \/ UNCHANGED <<rows, dispatch>>
                      \/ /\ ~HasRow(h[1]) /\ s.pc = "idle"
                         /\ \E row : /\ row.tokenAmount = 10 * Amount[h[1]]
                                     /\ rows' = [rows EXCEPT ![Handler!Key(h[1])] = Append(@, row)]
                                     /\ dispatch' = [dispatch EXCEPT ![h] =
                                          [pc |-> "route", tx |-> row, user |-> Handler!NoUser]]
<1> DEFINE r == h[1]
           Effect(s) ==
             /\ handler' = [handler EXCEPT ![h] = s]
             /\ s.pc \in {"receipt", "save"} /\ s.tx = Handler!NoTx => ~HasRow(r)
             /\ \/ UNCHANGED <<rows, dispatch>>
                \/ /\ ~HasRow(r) /\ s.pc = "idle"
                   /\ \E row : /\ row.tokenAmount = 10 * Amount[r]
                               /\ rows' = [rows EXCEPT ![Handler!Key(r)] = Append(@, row)]
                               /\ dispatch' = [dispatch EXCEPT ![h] =
                                    [pc |-> "route", tx |-> row, user |-> Handler!NoUser]]
           States == [pc : {"idle", "find", "receipt", "save"},
                      tx : StoredTx \cup {Handler!NoTx}, status : {"none", "confirmed"}]
<1>1. handler[h].pc # "idle" /\ Moved(r) /\ h[2] # "live"
  BY HandlerEffect DEF CreditInv, PaidInv, TaskCredited
<1>2. UNCHANGED wallet
  BY DEF Handler!HandlerStep, Handler!RejectHandler, Handler!FindTx, Handler!GetReceipt,
     Handler!SaveTx, Handler!moneyVars
<1>3. /\ r \in Requests /\ Handler!Key(r) \in Handler!Keys /\ handler[h] \in States
      /\ rows \in [Handler!Keys -> Seq(StoredTx)]
      /\ handler[h].pc \in {"receipt", "save"} /\ handler[h].tx = Handler!NoTx => ~HasRow(r)
  BY DEF CreditInv, PaidInv, IntakeType, TaskCredited, Handler!Handlers, Handler!Keys
<1>4. Handler!Idle.pc = "idle"
  BY DEF Handler!Idle
<1>5. ASSUME handler' = [handler EXCEPT ![h] = Handler!Idle], UNCHANGED <<rows, dispatch>>
      PROVE  \E s : Effect(s)
  <2>1. Effect(Handler!Idle)
    BY <1>4, <1>5
  <2> QED
    BY <2>1
<1> HIDE DEF r
<1>6. ASSUME Handler!FindTx(h)
      PROVE  \E s : Effect(s)
  <2>1. UNCHANGED <<rows, dispatch>>
    BY <1>6 DEF Handler!FindTx
  <2>2. CASE Handler!Reject(h)
    BY <1>5, <2>1, <2>2 DEF Handler!Reject
  <2>3. CASE handler' = [handler EXCEPT ![h] =
               [@ EXCEPT !.pc = "receipt", !.tx = Handler!FoundTx(Handler!Key(r))]]
    <3>1. Handler!FoundTx(Handler!Key(r)) = Handler!NoTx => ~HasRow(r)
      <4>1. Handler!NoTx \notin StoredTx
        BY DEF Handler!NoTx, StoredTx
      <4>2. HasRow(r) => Head(rows[Handler!Key(r)]) \in StoredTx
        BY <1>3 DEF HasRow
      <4> QED
        BY <4>1, <4>2 DEF Handler!FoundTx, HasRow
    <3>2. PICK s : s = [handler[h] EXCEPT !.pc = "receipt",
                                          !.tx = Handler!FoundTx(Handler!Key(r))]
      OBVIOUS
    <3>3. s.tx = Handler!FoundTx(Handler!Key(r))
      BY <1>3, <3>2
    <3>4. Effect(s)
      BY <2>1, <2>3, <3>1, <3>2, <3>3
    <3> HIDE DEF Effect
    <3> QED
      BY <3>4
  <2> QED
    BY <1>6, <2>2, <2>3 DEF Handler!FindTx, r
<1>7. ASSUME Handler!GetReceipt(h)
      PROVE  \E s : Effect(s)
  <2>1. UNCHANGED <<rows, dispatch>> /\ handler[h].pc = "receipt"
    BY <1>7 DEF Handler!GetReceipt
  <2>2. CASE Handler!Reject(h) \/ handler' = [handler EXCEPT ![h] = Handler!Idle]
    BY <1>5, <2>1, <2>2 DEF Handler!Reject
  <2>3. CASE handler' = [handler EXCEPT ![h] =
               [@ EXCEPT !.pc = "save", !.status = Handler!Receipt(r)]]
    <3>1. PICK s : s = [handler[h] EXCEPT !.pc = "save", !.status = Handler!Receipt(r)]
      OBVIOUS
    <3>2. s.tx = handler[h].tx
      BY <1>3, <3>1
    <3>3. Effect(s)
      BY <1>3, <2>1, <2>3, <3>1, <3>2
    <3> HIDE DEF Effect
    <3> QED
      BY <3>3
  <2> QED
    BY <1>7, <2>2, <2>3 DEF Handler!GetReceipt, r
<1>8. ASSUME Handler!SaveTx(h)
      PROVE  \E s : Effect(s)
  <2>1. handler[h].pc = "save" /\ handler' = [handler EXCEPT ![h] = Handler!Idle]
    BY <1>8 DEF Handler!SaveTx
  <2>2. handler[h].tx.status # "pending"
    <3>1. handler[h].tx \in StoredTx \cup {Handler!NoTx}
      BY <1>3
    <3> QED
      BY <3>1 DEF StoredTx, Handler!NoTx
  <2> DEFINE inserted == [status |-> handler[h].status, tokenAmount |-> 10 * Amount[r]]
  <2>3. \/ UNCHANGED <<rows, dispatch>>
        \/ /\ handler[h].tx = Handler!NoTx
           /\ rows' = [rows EXCEPT ![Handler!Key(r)] = Append(@, inserted)]
           /\ dispatch' = [dispatch EXCEPT ![h] =
                [pc |-> "route", tx |-> inserted, user |-> Handler!NoUser]]
    BY <1>3, <1>8, <2>2 DEF Handler!SaveTx, Handler!IsPending, Handler!StartDispatch, r
  <2>4. inserted.tokenAmount = 10 * Amount[r]
    OBVIOUS
  <2> HIDE DEF inserted
  <2>5. ASSUME ~UNCHANGED <<rows, dispatch>>
        PROVE  Effect(Handler!Idle)
    BY <1>3, <1>4, <2>1, <2>3, <2>4, <2>5
  <2> HIDE DEF Effect
  <2> QED
    BY <1>5, <2>1, <2>5
<1>9. ASSUME Handler!RejectHandler(h)
      PROVE  \E s : Effect(s)
  BY <1>5, <1>9 DEF Handler!RejectHandler, Handler!Reject
<1>10. \E s : Effect(s)
  <2> HIDE DEF Effect
  <2> QED
    BY <1>6, <1>7, <1>8, <1>9 DEF Handler!HandlerStep
<1> QED
  BY <1>1, <1>2, <1>10 DEF r

LEMMA KeysDiffer ==
  ASSUME NEW q \in Requests, NEW r \in Requests
  PROVE  Handler!Key(q) = Handler!Key(r) => q = r
BY DEF Handler!Key

\* No accounting of a stored request begins again.
LEMMA WrittenStays ==
  ASSUME \A r \in Requests : HasRow(r) => HasRow(r)',
         \A h \in Handler!Handlers :
           dispatch'[h].pc \in Writes => dispatch[h].pc \in Writes \/ ~HasRow(h[1])
  PROVE  \A r \in Requests : Written(r) => Written(r)'
<1> TAKE r \in Requests
<1>1. ASSUME Written(r), NEW h \in Handler!Handlers, h[1] = r
      PROVE  dispatch'[h].pc \notin Writes
  BY <1>1 DEF Written
<1>2. Written(r) => HasRow(r)'
  BY DEF Written
<1>3. Written(r)' = (HasRow(r)' /\ \A h \in Handler!Handlers :
                                     h[1] = r => dispatch'[h].pc \notin Writes)
  BY DEF Written, Handler!Handlers
<1> QED
  BY <1>1, <1>2, <1>3

\* An accounting, or a wallet, stays backed in any step that leaves what was
\* written.
LEMMA AccountsRemain ==
  ASSUME IsFiniteSet(Requests), \A r \in Requests : Written(r) => Written(r)',
         NEW d, NEW r, Accounts(d, r), HasRow(r)'
  PROVE  Accounts(d, r)'
<1>1. \A user, m : Backed(user, m) => Backed(user, m)'
  BY BackedRemains
<1> QED
  BY <1>1 DEF Accounts

LEMMA TaskRemains ==
  ASSUME CreditInv, \A r \in Requests : Written(r) => Written(r)',
         NEW h \in Handler!Handlers, HasRow(h[1]) => HasRow(h[1])',
         dispatch'[h] = dispatch[h] \/ dispatch'[h].pc = "idle"
  PROVE  dispatch'[h].pc # "idle" => Accounts(dispatch[h], h[1])'
<1> SUFFICES ASSUME dispatch'[h].pc # "idle"
             PROVE  Accounts(dispatch[h], h[1])'
  OBVIOUS
<1>1. PICK d : d = dispatch[h]
  OBVIOUS
<1>2. Accounts(d, h[1])
  BY <1>1 DEF CreditInv, TaskCredited
<1>3. IsFiniteSet(Requests) /\ HasRow(h[1])'
  BY <1>2 DEF CreditInv, Accounts
<1>4. Accounts(d, h[1])'
  BY <1>2, <1>3, AccountsRemain
<1>5. dispatch'[h] = d
  BY <1>1
<1> QED
  BY <1>4, <1>5 DEF Accounts, Backed

\* Steps that neither store a row nor write a wallet: what they do to tasks is to
\* end them, or to begin a restore invocation.
LEMMA CreditQuiet ==
  ASSUME CreditInv, BackendNext \/ UNCHANGED backendVars, UNCHANGED <<rows, wallet>>,
         \A h \in Handler!Handlers :
           /\ \/ handler'[h] = handler[h]
              \/ handler'[h].pc = "idle"
              \/ handler'[h].pc = "find" /\ h[2] = "restore"
           /\ dispatch'[h] = dispatch[h] \/ dispatch'[h].pc = "idle"
  PROVE  CreditInv'
<1>1. IsFiniteSet(Requests) /\ PaidInv'
  BY PaidInvNext DEF CreditInv
<1>2. \A r : HasRow(r)' <=> HasRow(r)
  BY DEF HasRow, Handler!Key
<1>3. \A r \in Requests : Written(r) => Written(r)'
  <2>1. "idle" \notin Writes
    BY DEF Writes
  <2> QED
    BY <1>2, <2>1, WrittenStays
<1>4. \A r \in Requests : HasRow(r)' => Moved(r)'
  BY <1>2, MovedStays DEF CreditInv, PaidInv
<1>5. ASSUME NEW h \in Handler!Handlers
      PROVE  TaskCredited(h)'
  <2>1. dispatch'[h].pc # "idle" => Accounts(dispatch[h], h[1])'
    BY <1>2, <1>3, TaskRemains
  <2>2. TaskCredited(h)
    BY DEF CreditInv
  <2> QED
    BY <1>2, <2>1, <2>2 DEF TaskCredited
<1>6. \A m \in Members : Backed(wallet[m], m)'
  <2> TAKE m \in Members
  <2>1. PICK user : user = wallet[m]
    OBVIOUS
  <2>2. Backed(user, m)'
    BY <1>1, <1>3, <2>1, BackedRemains DEF CreditInv
  <2> QED
    BY <2>1, <2>2 DEF Backed
<1>7. wallet' \in [Members -> Users]
  BY DEF CreditInv
<1>8. Handler!Handlers' = Handler!Handlers
  BY DEF Handler!Handlers
<1> QED
  BY <1>1, <1>4, <1>5, <1>6, <1>7, <1>8 DEF CreditInv

LEMMA CreditInvInit == IsFiniteSet(Requests) /\ BackendInit => CreditInv
<1> SUFFICES ASSUME IsFiniteSet(Requests), BackendInit
             PROVE  CreditInv
  OBVIOUS
<1>1. \A r \in Requests : ~HasRow(r)
  <2>1. \A k \in Handler!Keys : rows[k] = <<>>
    BY DEF BackendInit, Handler!Init
  <2> QED
    BY <2>1 DEF HasRow, Handler!Keys
<1>2. \A h \in Handler!Handlers : TaskCredited(h)
  BY DEF BackendInit, Handler!Init, Handler!Idle, Handler!NoDispatch, TaskCredited
<1>3. wallet = [m \in Members |-> Handler!NoUser]
  BY DEF BackendInit, Handler!Init
<1>4. Handler!NoUser \in Users /\ Handler!NoUser.charge_amount = 0
      /\ Handler!NoUser.draw_amount = 0
  BY DEF Handler!NoUser, Users, Cents
<1>5. \A m : Backed(Handler!NoUser, m)
  BY <1>4, CreditType DEF Backed
<1> QED
  BY <1>1, <1>2, <1>3, <1>4, <1>5, PaidInvInit DEF CreditInv

\* The write of an accounting is where the tokens of its request begin to count.
LEMMA CreditAccounting ==
  ASSUME CreditInv, BackendNext, NEW h \in Handler!Handlers,
         Handler!DispatchStep(h) \/ Handler!RejectDispatch(h)
  PROVE  CreditInv'
<1>1. /\ IsFiniteSet(Requests) /\ PaidInv' /\ h[1] \in Requests
      /\ dispatch = [g \in Handler!Handlers |-> dispatch[g]]
      /\ wallet \in [Members -> Users]
  BY PaidInvNext DEF CreditInv, PaidInv, IntakeType, Handler!Handlers
<1>2. /\ UNCHANGED <<handler, rows>> /\ dispatch[h].pc # "idle"
      /\ \E d : /\ dispatch' = [dispatch EXCEPT ![h] = d]
                /\ d.pc \in Writes => dispatch[h].pc \in Writes
                /\ d.pc # "idle" => Accounts(d, h[1])
                /\ \/ UNCHANGED wallet
                   \/ /\ dispatch[h].pc \in Writes /\ d.pc \notin Writes
                      /\ \E m \in Members : \E user :
                           wallet' = [wallet EXCEPT ![m] = user] /\ Adds(user, m, h[1])
  BY CreditDispatch
<1>3. PICK d : /\ dispatch' = [dispatch EXCEPT ![h] = d]
               /\ d.pc \in Writes => dispatch[h].pc \in Writes
               /\ d.pc # "idle" => Accounts(d, h[1])
               /\ \/ UNCHANGED wallet
                  \/ /\ dispatch[h].pc \in Writes /\ d.pc \notin Writes
                     /\ \E m \in Members : \E user :
                          wallet' = [wallet EXCEPT ![m] = user] /\ Adds(user, m, h[1])
  BY <1>2
<1>4. \A r : HasRow(r)' <=> HasRow(r)
  BY <1>2 DEF HasRow, Handler!Key
<1>5. \A g \in Handler!Handlers : dispatch'[g] = IF g = h THEN d ELSE dispatch[g]
  BY <1>1, <1>3
<1>6. \A r \in Requests : Written(r) => Written(r)'
  BY <1>3, <1>4, <1>5, WrittenStays
<1>7. \A r \in Requests : HasRow(r)' => Moved(r)'
  BY <1>4, MovedStays DEF CreditInv, PaidInv
<1>8. ASSUME NEW g \in Handler!Handlers
      PROVE  TaskCredited(g)'
  <2>1. TaskCredited(g) /\ handler'[g] = handler[g]
    BY <1>2 DEF CreditInv
  <2>2. CASE g # h
    <3>1. dispatch'[g].pc # "idle" => Accounts(dispatch[g], g[1])'
      BY <1>4, <1>5, <1>6, <2>2, TaskRemains
    <3> QED
      BY <1>4, <1>5, <2>1, <2>2, <3>1 DEF TaskCredited
  <2>3. CASE g = h
    <3>1. dispatch'[g] = d /\ h[2] # "live"
      BY <1>2, <1>5, <2>1, <2>3 DEF TaskCredited
    <3>2. d.pc # "idle" => HasRow(h[1])
      BY <1>3 DEF Accounts
    <3>3. d.pc # "idle" => Accounts(d, h[1])'
      BY <1>1, <1>3, <1>4, <1>6, <3>2, AccountsRemain
    <3>4. dispatch'[g].pc # "idle" => Accounts(dispatch[g], g[1])'
      BY <2>3, <3>1, <3>3 DEF Accounts, Backed
    <3> QED
      BY <1>4, <2>1, <2>3, <3>1, <3>4 DEF TaskCredited
  <2> QED
    BY <2>2, <2>3
<1>9. ASSUME NEW m \in Members, wallet'[m] = wallet[m]
      PROVE  Backed(wallet[m], m)'
  <2>1. PICK user : user = wallet[m]
    OBVIOUS
  <2>2. Backed(user, m)'
    BY <1>1, <1>6, <2>1, BackedRemains DEF CreditInv
  <2> QED
    BY <1>9, <2>1, <2>2 DEF Backed
<1>10. wallet' \in [Members -> Users] /\ \A m \in Members : Backed(wallet[m], m)'
  <2>1. CASE UNCHANGED wallet
    BY <1>1, <1>9, <2>1
  <2>2. ASSUME dispatch[h].pc \in Writes, d.pc \notin Writes, NEW m \in Members, NEW user,
               wallet' = [wallet EXCEPT ![m] = user], Adds(user, m, h[1])
        PROVE  <1>10
    <3>1. ~Written(h[1])
      BY <2>2 DEF Written
    <3>2. Written(h[1])'
      <4>1. HasRow(h[1])'
        BY <1>2, <1>4 DEF CreditInv, TaskCredited, Accounts
      <4>2. ASSUME NEW g \in Handler!Handlers, g[1] = h[1]
            PROVE  dispatch'[g].pc \notin Writes
        <5>1. "idle" \notin Writes
          BY DEF Writes
        <5>2. g[2] = "live" => dispatch[g].pc = "idle"
          BY DEF CreditInv, TaskCredited
        <5>3. h[2] # "live"
          BY <1>2 DEF CreditInv, TaskCredited
        <5>4. g = h \/ g[2] = "live"
          BY <4>2, <5>3 DEF Handler!Handlers, Handler!Origins
        <5> QED
          BY <1>5, <2>2, <5>1, <5>2, <5>3, <5>4
      <4>3. Handler!Handlers' = Handler!Handlers
        BY DEF Handler!Handlers
      <4> QED
        BY <4>1, <4>2, <4>3 DEF Written
    <3>3. Deposits(m) \in SUBSET Requests /\ Draws(m) \in SUBSET Requests
      BY CreditType DEF CreditInv
    <3>4. /\ Charged(m) \in Nat /\ Charged(m)' \in Nat /\ Charged(m) <= Charged(m)'
          /\ h[1] \in Deposits(m) => Charged(m) + 10 * Amount[h[1]] <= Charged(m)'
      BY <1>1, <1>6, <3>1, <3>2, <3>3, CreditRises DEF Charged
    <3>5. /\ Drawn(m) \in Nat /\ Drawn(m)' \in Nat /\ Drawn(m) <= Drawn(m)'
          /\ h[1] \in Draws(m) => Drawn(m) + 10 * Amount[h[1]] <= Drawn(m)'
      BY <1>1, <1>6, <3>1, <3>2, <3>3, CreditRises DEF Drawn
    <3>6. /\ user \in Users /\ user.charge_amount \in Nat /\ user.draw_amount \in Nat
          /\ 10 * Amount[h[1]] \in Nat
      BY <1>1, <2>2, CreditType DEF Adds, Users, Cents
    <3>7. user.charge_amount <= Charged(m)' /\ user.draw_amount <= Drawn(m)'
      BY <2>2, <3>4, <3>5, <3>6 DEF Adds
    <3>8. Backed(wallet[m], m)'
      BY <1>1, <2>2, <3>6, <3>7 DEF Backed
    <3>9. \A n \in Members : n # m => wallet'[n] = wallet[n]
      BY <1>1, <2>2
    <3> QED
      BY <1>1, <1>9, <2>2, <3>6, <3>8, <3>9
  <2> QED
    BY <1>3, <2>1, <2>2
<1>11. Handler!Handlers' = Handler!Handlers
  BY DEF Handler!Handlers
<1> QED
  BY <1>1, <1>7, <1>8, <1>10, <1>11 DEF CreditInv

\* A row is stored for a transfer that moved, and its accounting begins with what
\* the row says.
LEMMA CreditSave ==
  ASSUME CreditInv, BackendNext, NEW h \in Handler!Handlers,
         Handler!HandlerStep(h) \/ Handler!RejectHandler(h)
  PROVE  CreditInv'
<1>1. /\ IsFiniteSet(Requests) /\ PaidInv' /\ h[1] \in Requests
      /\ Handler!Key(h[1]) \in Handler!Keys
      /\ dispatch = [g \in Handler!Handlers |-> dispatch[g]]
      /\ rows \in [Handler!Keys -> Seq(StoredTx)]
      /\ DOMAIN handler = Handler!Handlers
  BY PaidInvNext DEF CreditInv, PaidInv, IntakeType, Handler!Handlers, Handler!Keys
<1>2. UNCHANGED wallet /\ Moved(h[1]) /\ h[2] # "live"
  BY CreditHandler
<1>3. PICK s :
        /\ handler' = [handler EXCEPT ![h] = s]
        /\ s.pc \in {"receipt", "save"} /\ s.tx = Handler!NoTx => ~HasRow(h[1])
        /\ \/ UNCHANGED <<rows, dispatch>>
           \/ /\ ~HasRow(h[1]) /\ s.pc = "idle"
              /\ \E row : /\ row.tokenAmount = 10 * Amount[h[1]]
                          /\ rows' = [rows EXCEPT ![Handler!Key(h[1])] = Append(@, row)]
                          /\ dispatch' = [dispatch EXCEPT ![h] =
                               [pc |-> "route", tx |-> row, user |-> Handler!NoUser]]
  BY CreditHandler
<1>4. /\ \A g \in Handler!Handlers : g # h => handler'[g] = handler[g]
      /\ handler'[h] = s
  BY <1>1, <1>3
<1>5. \A r \in Requests : HasRow(r) \/ r # h[1] => (HasRow(r)' <=> HasRow(r))
  <2>1. CASE UNCHANGED <<rows, dispatch>>
    BY <2>1 DEF HasRow, Handler!Key
  <2>2. ASSUME NEW row, rows' = [rows EXCEPT ![Handler!Key(h[1])] = Append(@, row)], ~HasRow(h[1])
        PROVE  \A r \in Requests : r # h[1] => (HasRow(r)' <=> HasRow(r))
    <3>1. \A r \in Requests : r # h[1] => Handler!Key(r) # Handler!Key(h[1])
      BY <1>1, KeysDiffer
    <3>2. \A r \in Requests : Handler!Key(r) \in Handler!Keys
      BY DEF Handler!Keys
    <3>3. \A r \in Requests : r # h[1] => rows'[Handler!Key(r)] = rows[Handler!Key(r)]
      BY <1>1, <2>2, <3>1, <3>2
    <3> QED
      BY <3>3 DEF HasRow, Handler!Key
  <2> QED
    BY <1>3, <2>1, <2>2
<1>5a. \A r \in Requests : HasRow(r) => HasRow(r)'
  BY <1>5
<1>6. \A r \in Requests : Written(r) => Written(r)'
  <2>1. \A g \in Handler!Handlers : dispatch'[g] = dispatch[g] \/ (g = h /\ ~HasRow(h[1]))
    BY <1>1, <1>3
  <2> QED
    BY <1>5a, <2>1, WrittenStays
<1>7. \A r \in Requests : HasRow(r)' => Moved(r)'
  <2>1. \A r \in Requests : HasRow(r)' => Moved(r)
    BY <1>2, <1>5 DEF CreditInv
  <2> QED
    BY <2>1, MovedStays DEF CreditInv, PaidInv
<1>8. ASSUME NEW g \in Handler!Handlers
      PROVE  TaskCredited(g)'
  <2>1. TaskCredited(g) /\ TaskCredited(h) /\ g[1] \in Requests
    BY DEF CreditInv, Handler!Handlers
  <2>2. /\ g[2] = "live" => handler'[g].pc = "idle"
        /\ handler'[g].pc \in {"receipt", "save"} /\ handler'[g].tx = Handler!NoTx
             => ~HasRow(g[1])'
    <3>1. CASE g # h
      <4>1. g[1] # h[1] \/ g[2] = "live"
        BY <1>2, <3>1 DEF Handler!Handlers, Handler!Origins
      <4>2. handler'[g] = handler[g]
        BY <1>4, <3>1
      <4>3. g[1] # h[1] => (HasRow(g[1])' <=> HasRow(g[1]))
        BY <1>5, <2>1
      <4> QED
        BY <2>1, <4>1, <4>2, <4>3 DEF TaskCredited
    <3>2. CASE g = h
      <4>1. s.pc # "idle" => (HasRow(h[1])' <=> HasRow(h[1]))
        BY <1>3 DEF HasRow, Handler!Key
      <4> QED
        BY <1>2, <1>3, <1>4, <3>2, <4>1
    <3> QED
      BY <3>1, <3>2
  <2>3. CASE dispatch'[g] = dispatch[g]
    <3>1. dispatch'[g].pc # "idle" => Accounts(dispatch[g], g[1])'
      BY <1>5a, <1>6, <2>1, <2>3, TaskRemains
    <3> QED
      BY <2>1, <2>2, <2>3, <3>1 DEF TaskCredited
  <2>4. ASSUME dispatch'[g] # dispatch[g]
        PROVE  TaskCredited(g)'
    <3>1. g = h
      BY <1>1, <1>3, <2>4
    <3>2. PICK row : /\ row.tokenAmount = 10 * Amount[h[1]]
                     /\ rows' = [rows EXCEPT ![Handler!Key(h[1])] = Append(@, row)]
                     /\ dispatch' = [dispatch EXCEPT ![h] =
                          [pc |-> "route", tx |-> row, user |-> Handler!NoUser]]
      BY <1>3, <2>4
    <3>3. dispatch'[g] = [pc |-> "route", tx |-> row, user |-> Handler!NoUser]
      BY <1>1, <3>1, <3>2
    <3>4. rows'[Handler!Key(h[1])] = <<row>>
      <4>1. rows[Handler!Key(h[1])] = <<>>
        BY <1>3, <2>4 DEF HasRow
      <4> QED
        BY <1>1, <3>2, <4>1
    <3>5. HasRow(g[1])'
      BY <3>1, <3>4 DEF HasRow, Handler!Key
    <3>6. Accounts(dispatch[g], g[1])'
      BY <3>1, <3>2, <3>3, <3>5 DEF Accounts
    <3> QED
      BY <1>2, <2>2, <3>1, <3>6 DEF TaskCredited
  <2> QED
    BY <2>3, <2>4
<1>9. \A m \in Members : Backed(wallet[m], m)'
  <2> TAKE m \in Members
  <2>1. PICK user : user = wallet[m]
    OBVIOUS
  <2>2. Backed(user, m)'
    BY <1>1, <1>6, <2>1, BackedRemains DEF CreditInv
  <2> QED
    BY <1>2, <2>1, <2>2 DEF Backed
<1>10. Handler!Handlers' = Handler!Handlers /\ wallet' \in [Members -> Users]
  BY <1>2 DEF Handler!Handlers, CreditInv
<1> QED
  BY <1>1, <1>7, <1>8, <1>9, <1>10 DEF CreditInv

\* Who changes a row or a wallet, or begins a task.
LEMMA CreditInvNext ==
  ASSUME CreditInv, BackendNext \/ UNCHANGED backendVars
  PROVE  CreditInv'
<1>1. CASE UNCHANGED <<handler, dispatch, rows, wallet>>
  BY <1>1, CreditQuiet
<1>2. ASSUME NEW r \in Requests, Request(r) \/ MineTransfer(r) \/ LinkWithdrawal(r)
      PROVE  UNCHANGED <<handler, dispatch, rows, wallet>>
  BY <1>2 DEF Request, MineTransfer, LinkWithdrawal, Handler!NewBlock, Handler!LinkWithdrawal,
     Handler!moneyVars, handlerVars
<1>3. CASE CrashProcess
  <2>1. /\ UNCHANGED <<rows, wallet>>
        /\ handler' = [h \in Handler!Handlers |-> Handler!Idle]
        /\ dispatch' = [h \in Handler!Handlers |-> Handler!NoDispatch]
    BY <1>3 DEF CrashProcess, Handler!Crash, Handler!moneyVars
  <2>2. \A g \in Handler!Handlers : handler'[g].pc = "idle" /\ dispatch'[g].pc = "idle"
    BY <2>1 DEF Handler!Idle, Handler!NoDispatch
  <2> QED
    BY <2>1, <2>2, CreditQuiet
<1>4. ASSUME NEW h \in Handler!Handlers, BackendNext,
             Handler!HandlerStep(h) \/ Handler!RejectHandler(h)
      PROVE  CreditInv'
  BY <1>4, CreditSave
<1>5. ASSUME NEW h \in Handler!Handlers, BackendNext,
             Handler!DispatchStep(h) \/ Handler!RejectDispatch(h)
      PROVE  CreditInv'
  BY <1>5, CreditAccounting
<1>6. CASE Handler!JobStep \/ Handler!RejectJob
  <2>1. UNCHANGED <<dispatch, rows, wallet>>
    BY <1>6 DEF Handler!JobStep, Handler!RejectJob, Handler!JobStart, Handler!JobFetch, Handler!JobDone,
       Handler!JobNext, Handler!Restoring, Handler!moneyVars
  <2>2. \/ UNCHANGED handler
        \/ \E e \in job.events : handler' = [handler EXCEPT ![<<e[1], "restore">>].pc = "find"]
    BY <1>6 DEF Handler!JobStep, Handler!RejectJob, Handler!JobStart, Handler!JobFetch, Handler!JobDone,
       Handler!JobNext
  <2>3. ASSUME NEW e, handler' = [handler EXCEPT ![<<e[1], "restore">>].pc = "find"],
               NEW g \in Handler!Handlers
        PROVE  handler'[g] = handler[g] \/ (handler'[g].pc = "find" /\ g[2] = "restore")
    <3>1. handler \in [Handler!Handlers ->
            [pc : {"idle", "find", "receipt", "save"},
             tx : StoredTx \cup {Handler!NoTx}, status : {"none", "confirmed"}]]
      BY DEF CreditInv, PaidInv, IntakeType
    <3>2. CASE g = <<e[1], "restore">>
      <4>1. handler'[g] = [handler[g] EXCEPT !.pc = "find"] /\ g[2] = "restore"
        BY <2>3, <3>1, <3>2
      <4>2. handler[g] \in [pc : {"idle", "find", "receipt", "save"},
              tx : StoredTx \cup {Handler!NoTx}, status : {"none", "confirmed"}]
        BY <3>1
      <4> QED
        BY <4>1, <4>2
    <3>3. CASE g # <<e[1], "restore">>
      BY <2>3, <3>1, <3>3
    <3> QED
      BY <3>2, <3>3
  <2> QED
    BY <2>1, <2>2, <2>3, CreditQuiet
<1>7. CASE Handler!Restart \/ Handler!CreateConnection
  BY <1>1, <1>7 DEF Handler!Restart, Handler!CreateConnection, Handler!moneyVars
<1>8. CASE UNCHANGED backendVars
  BY <1>1, <1>8 DEF backendVars, handlerVars
<1> QED
  BY <1>1, <1>2, <1>3, <1>4, <1>5, <1>6, <1>7, <1>8 DEF BackendNext, Intake

\* What is written is at most what has moved in the contract.
LEMMA WrittenHasMoved ==
  ASSUME CreditInv, NEW S \in SUBSET Requests
  PROVE  Total(Credit, S) <= SumMoved(S) /\ SumMoved(S) \in Nat
<1> DEFINE T == {r \in S : Moved(r)}
           F == [r \in Requests |-> 10 * Amount[r]]
           same == [r \in S |-> r]
<1>1. IsFiniteSet(S) /\ IsFiniteSet(T)
  BY FS_Subset DEF CreditInv
<1>2. \A r \in Requests : F[r] = 10 * Amount[r] /\ F[r] \in Nat /\ Credit[r] \in Nat
  BY CreditType DEF CreditInv, Cents
<1>3. SumMoved(S) = Total(F, T)
  BY Zenon DEF SumMoved, Total, MapThenSumSet, MapThenFoldSet
<1>4. \A r \in S : Credit[r] # 0 => same[r] \in T /\ Credit[r] <= F[same[r]]
  BY <1>2, CreditType DEF Credit, Written, CreditInv
<1>5. Total(Credit, S) <= Total(F, T) /\ Total(F, T) \in Nat
  <2>1. /\ \A r \in S : Credit[r] \in Nat
        /\ \A r \in T : F[r] \in Nat
        /\ \A q, r \in S : Credit[q] # 0 /\ Credit[r] # 0 /\ same[q] = same[r] => q = r
    BY <1>2
  <2> HIDE DEF T, F, same
  <2> QED
    BY <1>1, <1>4, <2>1, TotalInjection, TotalNat
<1> QED
  BY <1>3, <1>5

\* On a chain that is not reorganised, what a wallet shows as charged, or as
\* drawn by the manager, has moved in the token contract, whatever requests are refused, reverted or lost, whatever
\* crashes and however the accountings of a wallet overlap.
THEOREM CreditsHaveMoved == IsFiniteSet(Requests) /\ BackendSpec => []CreditedIsMoved
<1>1. CreditInv => CreditedIsMoved
  <2> SUFFICES ASSUME CreditInv, NEW m \in Members
               PROVE  /\ wallet[m].charge_amount <= SumMoved(Deposits(m))
                      /\ wallet[m].draw_amount <= SumMoved(Draws(m))
    BY DEF CreditedIsMoved, Deposits, Draws
  <2>1. /\ Charged(m) <= SumMoved(Deposits(m)) /\ SumMoved(Deposits(m)) \in Nat
        /\ Drawn(m) <= SumMoved(Draws(m)) /\ SumMoved(Draws(m)) \in Nat
    BY CreditType, WrittenHasMoved DEF CreditInv, Charged, Drawn
  <2>2. Charged(m) \in Nat /\ Drawn(m) \in Nat
    BY CreditType DEF CreditInv
  <2>3. wallet[m].charge_amount \in Nat /\ wallet[m].draw_amount \in Nat
    BY DEF CreditInv, Users, Cents
  <2> QED
    BY <2>1, <2>2, <2>3 DEF CreditInv, Backed
<1>2. IsFiniteSet(Requests) /\ [BackendNext]_backendVars => IsFiniteSet(Requests)'
  OBVIOUS
<1> QED
  BY <1>1, <1>2, CreditInvInit, CreditInvNext, PTL DEF BackendSpec
=============================================================================
