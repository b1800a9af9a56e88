-------------------------- MODULE CheckpointProofs --------------------------
(***************************************************************************)
(* Theorems about the checkpoint of the restore job and the rows saved as  *)
(* pending, over any connection and for every value of the constants.      *)
(***************************************************************************)
EXTENDS Web3HandlerProofs

-----------------------------------------------------------------------------
(* The checkpoint never leaves a transfer of the chain behind unstored.    *)
(* While the job is in its loop, a transfer older than the checkpoint it   *)
(* will write is still to be handled, or under way: the scan began below   *)
(* the previous checkpoint, and every event of it is awaited.  The one     *)
(* hypothesis is that the node does not answer null for the receipt of an  *)
(* event that it announced: such an event is dropped without an error.     *)

Missed(l) == block[l] # 0 /\ l \notin reverted /\ rows[Key(l)] = <<>>

BlocksBounded ==
  /\ startBlock <= height /\ lastCheckedBlock <= height
  /\ \A l \in Logs : block[l] # 0 => startBlock <= block[l]
  /\ job.pc \in {"fetch", "loop"} => job.currentBlock <= height

FoundIsStored ==
  \A h \in Handlers :
    handler[h].pc \in {"receipt", "save"} /\ handler[h].tx # NoTx
      => rows[Key(h[1])] # <<>>

JobHasMissed ==
  job.pc = "loop" =>
    \A l \in Logs :
      Missed(l) /\ block[l] < job.currentBlock - blockOffset =>
        <<l, block[l]>> \in job.events \/ handler[<<l, "restore">>].pc # "idle"

CheckpointInv ==
  /\ "null" \notin Faults /\ TypeInv
  /\ BlocksBounded /\ FoundIsStored /\ JobHasMissed /\ CheckpointSafe

LEMMA OffsetPositive == startBlock \in Nat /\ blockOffset \in Nat \ {0}
BY ConfigAssumption DEF startBlock, blockOffset

\* A transfer that is missed after a step was missed before it in the same
\* block, or the step mined it at the new tip.
LEMMA MissedBefore ==
  ASSUME TypeInv, [Next]_vars
  PROVE  /\ height' >= height
         /\ \A l \in Logs : Missed(l)' =>
              (Missed(l) /\ block'[l] = block[l]) \/ block'[l] = height + 1
         /\ \A l \in Logs : block'[l] \in {0, block[l], height + 1}
<1> DEFINE Goal ==
      /\ height' >= height
      /\ \A l \in Logs : Missed(l)' =>
           (Missed(l) /\ block'[l] = block[l]) \/ block'[l] = height + 1
      /\ \A l \in Logs : block'[l] \in {0, block[l], height + 1}
<1>0. height \in Nat
  BY DEF TypeInv, TypeOK
<1>1. ASSUME UNCHANGED chainVars PROVE Goal
  <2>1. \A l \in Logs : rows'[Key(l)] = <<>> => rows[Key(l)] = <<>>
    BY RowsStay DEF Keys
  <2> QED
    BY <1>0, <1>1, <2>1 DEF chainVars, Missed
<1>2. ASSUME NEW S \in SUBSET Logs, NewBlock(S)
      PROVE  Goal
  <2>1. /\ height' = height + 1 /\ UNCHANGED <<rows, reverted>>
        /\ \A l \in Logs : block'[l] \in {block[l], height + 1}
    BY <1>2 DEF NewBlock, TypeInv, TypeOK
  <2> QED
    BY <1>0, <2>1 DEF Missed
<1>3. ASSUME NEW K \in SUBSET Logs, NEW F \in SUBSET Logs, Reorg(K, F)
      PROVE  Goal
  <2>1. /\ UNCHANGED <<height, rows>> /\ reverted \subseteq reverted'
        /\ \A l \in Logs : block'[l] \in {0, block[l]}
    BY <1>3 DEF Reorg, TypeInv, TypeOK
  <2> QED
    BY <1>0, <2>1 DEF Missed
<1>4. \/ UNCHANGED chainVars
      \/ \E S \in SUBSET Logs : NewBlock(S)
      \/ \E K, F \in SUBSET Logs : Reorg(K, F)
  <2>1. CASE UNCHANGED vars
    BY <2>1 DEF vars
  <2>2. CASE Environment
    BY <2>2 DEF Environment, RejectJob, Restoring, LinkWithdrawal, Deliver, WsClose,
       Reconnect, Crash,
       Restart, CreateConnection, chainVars
  <2>3. CASE JobStep
    BY <2>3 DEF JobStep, JobStart, JobFetch, JobNext, JobDone, Restoring
  <2>4. ASSUME NEW h \in Handlers, HandlerStep(h) \/ RejectHandler(h)
        PROVE  UNCHANGED chainVars
    BY <2>4 DEF HandlerStep, FindTx, GetReceipt, SaveTx, RejectHandler
  <2>5. ASSUME NEW h \in Handlers, DispatchStep(h) \/ RejectDispatch(h)
        PROVE  UNCHANGED chainVars
    BY <2>5 DEF DispatchStep, Route, Charge, addUserCoin, InsertMyzr, Transfer,
       addUserDrawCoin, Withdraw, Settle, RejectDispatch, Dispatching
  <2> QED
    BY <2>1, <2>2, <2>3, <2>4, <2>5, NextParts
<1> HIDE DEF Goal
<1>5. Goal
  BY <1>1, <1>2, <1>3, <1>4
<1> QED
  BY <1>5 DEF Goal

LEMMA FoundStays ==
  ASSUME TypeInv, FoundIsStored, [Next]_vars
  PROVE  FoundIsStored'
<1> SUFFICES ASSUME NEW h \in Handlers,
                    handler'[h].pc \in {"receipt", "save"}, handler'[h].tx # NoTx
             PROVE  rows'[Key(h[1])] # <<>>
  BY DEF FoundIsStored
<1>1. Key(h[1]) \in Keys
  BY LogKeys
<1>2. rows[Key(h[1])] # <<>>
  <2>1. CASE handler[h].pc \in {"receipt", "save"} /\ handler'[h].tx = handler[h].tx
    BY <2>1 DEF FoundIsStored
  <2>2. CASE handler'[h].tx = FoundTx(Key(h[1]))
    BY <1>1, <2>2, FoundTxType DEF TypeInv, TypeOK
  <2> QED
    BY <2>1, <2>2, Lookups
<1> QED
  BY <1>1, <1>2, RowsStay

\* What is promised of blocks holds after any step that sets the job as
\* JobStart does, or leaves or ends it.
LEMMA BlocksStep ==
  ASSUME CheckpointInv, [Next]_vars,
         job'.pc \in {"fetch", "loop"} =>
           job'.currentBlock = height \/ (job.pc \in {"fetch", "loop"} /\ job'.currentBlock = job.currentBlock),
         lastCheckedBlock' = lastCheckedBlock \/ lastCheckedBlock' <= height
  PROVE  BlocksBounded'
<1>1. /\ height \in Nat /\ height' \in Nat /\ startBlock \in Nat
      /\ lastCheckedBlock \in Nat /\ lastCheckedBlock' \in Nat
      /\ job.currentBlock \in Nat /\ job'.currentBlock \in Nat
      /\ block \in [Logs -> Nat]
  BY TypeNext, OffsetPositive DEF CheckpointInv, TypeInv, TypeOK, JobState
<1>2. /\ height' >= height
      /\ \A l \in Logs : block'[l] \in {0, block[l], height + 1}
  BY MissedBefore DEF CheckpointInv
<1> QED
  BY <1>1, <1>2 DEF BlocksBounded, CheckpointInv

\* The checkpoint stays safe as long as it is not written.
LEMMA SafeStep ==
  ASSUME CheckpointInv, [Next]_vars, UNCHANGED lastCheckedBlock
  PROVE  CheckpointSafe'
<1> SUFFICES ASSUME NEW l \in Logs, Missed(l)', block'[l] < lastCheckedBlock - blockOffset
             PROVE  FALSE
  BY DEF CheckpointSafe, Missed
<1>1. height \in Nat /\ lastCheckedBlock \in Nat /\ lastCheckedBlock <= height /\ blockOffset \in Nat
  BY OffsetPositive DEF CheckpointInv, TypeInv, TypeOK, BlocksBounded
<1>2. Missed(l) /\ block'[l] = block[l]
  BY <1>1, MissedBefore DEF CheckpointInv
<1> QED
  BY <1>2 DEF CheckpointSafe, Missed, CheckpointInv

\* The promise of the loop is kept by a step that leaves the job's events and
\* does not end an invocation whose transfer is still missed.
LEMMA LoopStep ==
  ASSUME CheckpointInv, [Next]_vars, UNCHANGED job,
         \A l \in Logs :
           Missed(l)' /\ handler[<<l, "restore">>].pc # "idle"
             => handler'[<<l, "restore">>].pc # "idle"
  PROVE  JobHasMissed'
<1> SUFFICES ASSUME job.pc = "loop", NEW l \in Logs, Missed(l)',
                    block'[l] < job.currentBlock - blockOffset
             PROVE  <<l, block'[l]>> \in job.events \/ handler'[<<l, "restore">>].pc # "idle"
  BY DEF JobHasMissed
<1>1. height \in Nat /\ job.currentBlock \in Nat /\ job.currentBlock <= height /\ blockOffset \in Nat
  BY OffsetPositive DEF CheckpointInv, TypeInv, TypeOK, BlocksBounded, JobState
<1>2. Missed(l) /\ block'[l] = block[l]
  BY <1>1, MissedBefore DEF CheckpointInv
<1> QED
  BY <1>2 DEF JobHasMissed, CheckpointInv

LEMMA CheckpointKept ==
  ASSUME CheckpointInv, [Next]_vars, UNCHANGED lastCheckedBlock,
         \/ job'.pc \notin {"fetch", "loop"}
         \/ /\ UNCHANGED job
            /\ \A l \in Logs :
                 Missed(l)' /\ handler[<<l, "restore">>].pc # "idle"
                   => handler'[<<l, "restore">>].pc # "idle"
  PROVE  CheckpointInv'
<1>1. TypeInv' /\ FoundIsStored'
  BY TypeNext, FoundStays DEF CheckpointInv
<1>2. BlocksBounded' /\ CheckpointSafe'
  BY BlocksStep, SafeStep
<1>3. JobHasMissed'
  BY LoopStep DEF JobHasMissed
<1> QED
  BY <1>1, <1>2, <1>3 DEF CheckpointInv

\* A job that ends its loop may write the checkpoint: nothing before it is missed.
LEMMA CheckpointWritten ==
  ASSUME CheckpointInv, [Next]_vars, Restoring("loop"), job.events = {}, job' = NoJob,
         lastCheckedBlock' = checkpoint
  PROVE  CheckpointInv'
<1>1. Idle.pc = "idle" /\ TypeInv' /\ FoundIsStored'
  BY TypeNext, FoundStays DEF CheckpointInv, Idle
<1>2. /\ UNCHANGED <<height, block, reverted, rows>> /\ job.pc = "loop"
      /\ \A l \in Logs : handler[<<l, "restore">>].pc = "idle"
      /\ lastCheckedBlock' = job.currentBlock /\ job'.pc = "idle"
  BY <1>1 DEF Restoring, checkpoint, NoJob, chainVars
<1>3. BlocksBounded'
  BY <1>2, BlocksStep DEF CheckpointInv, BlocksBounded
<1>4. CheckpointSafe'
  BY <1>2 DEF CheckpointSafe, CheckpointInv, JobHasMissed, Missed
<1>5. JobHasMissed'
  BY <1>2 DEF JobHasMissed
<1> QED
  BY <1>1, <1>3, <1>4, <1>5 DEF CheckpointInv

LEMMA CheckpointEnvironment ==
  ASSUME CheckpointInv, [Next]_vars, Environment
  PROVE  CheckpointInv'
<1> USE DEF chainVars, linkVars, moneyVars
<1>0. handler \in [Handlers -> HandlerState]
  BY DEF CheckpointInv, TypeInv, TypeOK
<1>1. UNCHANGED lastCheckedBlock \/ RejectJob
  BY DEF Environment, NewBlock, Reorg, LinkWithdrawal, Deliver, WsClose,
     Reconnect, Crash, Restart, CreateConnection
<1>2. \A l \in Logs : <<l, "restore">> \in Handlers
  BY DEF Handlers, Origins
<1>7. CASE RejectJob
  <2>1. job' = NoJob /\ job'.pc = "idle"
    BY <1>7 DEF RejectJob, NoJob
  <2>2. \/ UNCHANGED lastCheckedBlock
        \/ Restoring("loop") /\ job.events = {} /\ lastCheckedBlock' = checkpoint
    BY <1>7 DEF RejectJob, Restoring
  <2> QED
    BY <2>1, <2>2, CheckpointKept, CheckpointWritten
<1>3. CASE UNCHANGED <<handler, job>> /\ ~RejectJob
  BY <1>1, <1>3, CheckpointKept
<1>4. ASSUME NEW k \in Logs, Deliver(k)
      PROVE  CheckpointInv'
  <2>1. UNCHANGED <<job, lastCheckedBlock>> /\ \A l \in Logs : handler'[<<l, "restore">>] = handler[<<l, "restore">>]
    BY <1>0, <1>2, <1>4 DEF Deliver
  <2> QED
    BY <2>1, CheckpointKept
<1>5. CASE WsClose
  <2>1. \A h \in Handlers : handler[h].pc # "idle" => handler'[h].pc # "idle"
    <3>1. [Idle EXCEPT !.pc = "hung"].pc = "hung"
      BY DEF Idle
    <3> QED
      BY <1>5, <3>1 DEF WsClose
  <2>2. (job' = job \/ job'.pc = "hung") /\ UNCHANGED lastCheckedBlock
    BY <1>5 DEF WsClose, NoJob
  <2> QED
    BY <1>2, <2>1, <2>2, CheckpointKept
<1>6. CASE Crash
  <2>1. job'.pc = "idle" /\ UNCHANGED lastCheckedBlock
    BY <1>6 DEF Crash, NoJob
  <2> QED
    BY <2>1, CheckpointKept
<1> QED
  BY <1>3, <1>4, <1>5, <1>6, <1>7 DEF Environment, NewBlock, Reorg, LinkWithdrawal,
     Reconnect, Restart, CreateConnection

\* The invocation of a missed transfer ends only with the job that awaits it.
LEMMA CheckpointHandlerStep ==
  ASSUME CheckpointInv, [Next]_vars, NEW h \in Handlers, HandlerStep(h) \/ RejectHandler(h)
  PROVE  CheckpointInv'
<1> USE DEF chainVars, linkVars, moneyVars
<1>0. handler \in [Handlers -> HandlerState] /\ h[1] \in Logs /\ Key(h[1]) \in Keys
  BY LogKeys DEF CheckpointInv, TypeInv, TypeOK
<1>1. UNCHANGED lastCheckedBlock
  BY DEF HandlerStep, FindTx, GetReceipt, SaveTx, RejectHandler
<1>2. ASSUME NEW l \in Logs
      PROVE  <<l, "restore">> \in Handlers /\ (<<l, "restore">> = h => h[1] = l)
  BY DEF Handlers, Origins
<1>3. ASSUME NEW s, handler' = [handler EXCEPT ![h] = s], UNCHANGED job,
             s.pc # "idle" \/ ~Missed(h[1])'
      PROVE  CheckpointInv'
  <2>1. \A l \in Logs : <<l, "restore">> # h => handler'[<<l, "restore">>] = handler[<<l, "restore">>]
    BY <1>0, <1>2, <1>3
  <2>2. handler'[h] = s
    BY <1>0, <1>3
  <2>3. \A l \in Logs :
          Missed(l)' /\ handler[<<l, "restore">>].pc # "idle"
            => handler'[<<l, "restore">>].pc # "idle"
    BY <1>2, <1>3, <2>1, <2>2
  <2> QED
    BY <1>1, <1>3, <2>3, CheckpointKept
<1>4. CASE Reject(h)
  <2>1. CASE h[2] = "restore"
    <3>1. job'.pc = "idle"
      BY <1>4, <2>1 DEF Reject, NoJob
    <3> QED
      BY <1>1, <3>1, CheckpointKept
  <2>2. CASE h[2] # "restore"
    <3>1. UNCHANGED job /\ handler' = [handler EXCEPT ![h] = Idle]
      BY <1>4, <2>2 DEF Reject
    <3>2. \A l \in Logs : <<l, "restore">> # h
      BY <2>2
    <3>3. \A l \in Logs : handler'[<<l, "restore">>] = handler[<<l, "restore">>]
      BY <1>0, <1>2, <3>1, <3>2
    <3> QED
      BY <1>1, <3>1, <3>3, CheckpointKept
  <2> QED
    BY <2>1, <2>2
<1>5. CASE FindTx(h) /\ ~Reject(h)
  <2> DEFINE found == [handler[h] EXCEPT !.pc = "receipt", !.tx = FoundTx(Key(h[1]))]
  <2>1. handler' = [handler EXCEPT ![h] = found] /\ UNCHANGED job
    BY <1>5 DEF FindTx
  <2>2. found.pc # "idle"
    BY <1>0 DEF HandlerState
  <2> HIDE DEF found
  <2> QED
    BY <1>3, <2>1, <2>2
<1>6. CASE GetReceipt(h) /\ ~Reject(h)
  <2> DEFINE got == [handler[h] EXCEPT !.pc = "save", !.status = Receipt(h[1])]
  <2>1. CASE handler' = [handler EXCEPT ![h] = got] /\ UNCHANGED job
    <3>1. got.pc # "idle"
      BY <1>0 DEF HandlerState
    <3> HIDE DEF got
    <3> QED
      BY <1>3, <2>1, <3>1
  <2>2. CASE /\ Receipt(h[1]) = "null"
             /\ handler' = [handler EXCEPT ![h] = Idle] /\ UNCHANGED job
    <3>1. block[h[1]] = 0 /\ UNCHANGED block
      BY <1>6, <2>2 DEF Receipt, GetReceipt
    <3> QED
      BY <1>3, <2>2, <3>1 DEF Missed
  <2> QED
    BY <1>6, <2>1, <2>2 DEF GetReceipt, Fault, CheckpointInv
<1>7. CASE SaveTx(h)
  <2> DEFINE k == Key(h[1])
             tx == handler[h].tx
  <2>1. rows \in [Keys -> Seq(Row)] /\ rows[k] \in Seq(Row)
    BY <1>0 DEF CheckpointInv, TypeInv, TypeOK
  <2>2. rows'[k] # <<>>
    <3>1. CASE tx = NoTx
      <4>1. ~IsPending(tx)
        BY <3>1 DEF IsPending, NoTx
      <4>2. PICK row : rows' = [rows EXCEPT ![k] = Append(@, row)]
        BY <1>7, <3>1, <4>1 DEF SaveTx
      <4>3. rows'[k] = Append(rows[k], row)
        BY <1>0, <2>1, <4>2
      <4> HIDE DEF k
      <4>4. Len(Append(rows[k], row)) = Len(rows[k]) + 1 /\ Len(rows[k]) \in Nat
        BY <2>1
      <4>5. Len(rows'[k]) # 0
        BY <4>3, <4>4
      <4> QED
        BY <4>5
    <3>2. CASE tx # NoTx
      <4>1. rows[k] # <<>>
        BY <1>7, <3>2 DEF SaveTx, FoundIsStored, CheckpointInv
      <4> QED
        BY <1>0, <4>1, RowsStay DEF CheckpointInv
    <3> QED
      BY <3>1, <3>2
  <2>3. handler' = [handler EXCEPT ![h] = Idle] /\ UNCHANGED job
    BY <1>7 DEF SaveTx
  <2> QED
    BY <1>3, <2>2, <2>3 DEF Missed
<1> QED
  BY <1>4, <1>5, <1>6, <1>7 DEF HandlerStep, RejectHandler

\* The scan begins where nothing older is missed; the loop takes an event out
\* only to handle it; the checkpoint is written when none is left.
LEMMA CheckpointJobStep ==
  ASSUME CheckpointInv, [Next]_vars, JobStep
  PROVE  CheckpointInv'
<1> USE DEF chainVars, linkVars, moneyVars
<1>0. /\ height \in Nat /\ block \in [Logs -> Nat] /\ lastCheckedBlock \in Nat
      /\ job \in JobState /\ job.currentBlock \in Nat
      /\ handler \in [Handlers -> HandlerState] /\ Idle.pc = "idle"
      /\ startBlock \in Nat /\ blockOffset \in Nat \ {0}
  BY OffsetPositive DEF CheckpointInv, TypeInv, TypeOK, JobState, Idle
<1>1. TypeInv' /\ FoundIsStored'
  BY TypeNext, FoundStays DEF CheckpointInv
<1>2. CASE JobStart
  <2>1. job'.pc = "fetch" /\ job'.currentBlock = height
    BY <1>0, <1>2 DEF JobStart, JobState
  <2>2. UNCHANGED lastCheckedBlock
    BY <1>2 DEF JobStart
  <2> QED
    BY <1>1, <2>1, <2>2, BlocksStep, SafeStep DEF CheckpointInv, JobHasMissed
<1>3. CASE JobFetch
  <2>1. UNCHANGED <<height, block, reverted, rows, lastCheckedBlock>> /\ job.pc = "fetch"
    BY <1>3 DEF JobFetch, Restoring
  <2>2. CASE job'.pc = "idle"
    BY <2>1, <2>2, CheckpointKept
  <2>3. ASSUME NEW upTo \in {height, height - 1},
               job' = [job EXCEPT !.pc = "loop", !.events = Scan(upTo)]
        PROVE  CheckpointInv'
    <3>1. /\ job'.pc = "loop" /\ job'.currentBlock = job.currentBlock
          /\ job'.events = Scan(upTo)
      BY <1>0, <2>3 DEF JobState
    <3>2. job.currentBlock <= height
      BY <2>1 DEF CheckpointInv, BlocksBounded
    <3>3. ASSUME NEW l \in Logs, Missed(l), block[l] < job.currentBlock - blockOffset
          PROVE  <<l, block[l]>> \in Scan(upTo)
      <4>1. block[l] <= upTo
        BY <1>0, <3>2, <3>3
      <4>2. fromBlock <= block[l]
        <5>1. CASE lastCheckedBlock = 0
          BY <1>0, <3>3, <5>1 DEF fromBlock, Missed, CheckpointInv, BlocksBounded
        <5>2. CASE lastCheckedBlock # 0
          <6>1. ~(block[l] < lastCheckedBlock - blockOffset)
            BY <3>3 DEF Missed, CheckpointInv, CheckpointSafe
          <6> QED
            BY <1>0, <5>2, <6>1 DEF fromBlock
        <5> QED
          BY <5>1, <5>2
      <4> QED
        BY <3>3, <4>1, <4>2 DEF Scan, Missed
    <3>4. JobHasMissed'
      BY <2>1, <3>1, <3>3 DEF JobHasMissed, Missed
    <3> QED
      BY <1>1, <2>1, <3>1, <3>4, BlocksStep, SafeStep DEF CheckpointInv
  <2> QED
    BY <1>3, <2>2, <2>3 DEF JobFetch, NoJob
<1>4. ASSUME NEW e \in job.events, JobNext(e)
      PROVE  CheckpointInv'
  <2> DEFINE g == <<e[1], "restore">>
  <2>1. /\ UNCHANGED <<height, block, reverted, rows, lastCheckedBlock>> /\ job.pc = "loop"
        /\ \A l \in Logs : handler[<<l, "restore">>].pc = "idle"
    BY <1>0, <1>4 DEF JobNext, Restoring
  <2>2. e[1] \in Logs /\ g \in Handlers /\ \A l \in Logs : <<l, "restore">> \in Handlers
    BY <1>0 DEF JobState, Handlers, Origins
  <2>3. /\ job'.pc = "loop" /\ job'.currentBlock = job.currentBlock
        /\ job'.events = job.events \ {e}
    BY <1>0, <1>4, <2>1 DEF JobNext, JobState
  <2>4. handler'[g].pc = "find"
    BY <1>0, <1>4, <2>2 DEF JobNext, HandlerState
  <2>5. JobHasMissed'
    <3>1. ASSUME NEW l \in Logs, Missed(l), block[l] < job.currentBlock - blockOffset
          PROVE  <<l, block[l]>> \in job'.events \/ handler'[<<l, "restore">>].pc # "idle"
      <4>1. <<l, block[l]>> \in job.events
        BY <2>1, <3>1 DEF CheckpointInv, JobHasMissed
      <4>2. e = <<l, block[l]>> => g = <<l, "restore">>
        OBVIOUS
      <4> QED
        BY <2>3, <2>4, <4>1, <4>2
    <3> QED
      BY <2>1, <2>3, <3>1 DEF JobHasMissed, Missed
  <2> QED
    BY <1>1, <2>1, <2>3, <2>5, BlocksStep, SafeStep DEF CheckpointInv
<1>5. CASE JobDone
  BY <1>5, CheckpointWritten DEF JobDone
<1> QED
  BY <1>2, <1>3, <1>4, <1>5 DEF JobStep

LEMMA CheckpointInit == "null" \notin Faults /\ Init => CheckpointInv
<1> SUFFICES ASSUME "null" \notin Faults, Init PROVE CheckpointInv
  OBVIOUS
<1>1. TypeInv
  BY TypeInit
<1>2. job.pc = "idle" /\ \A h \in Handlers : handler[h].pc = "idle"
  BY DEF Init, NoJob, Idle
<1>3. height = startBlock /\ lastCheckedBlock = 0 /\ \A l \in Logs : block[l] = 0
  BY DEF Init
<1> QED
  BY <1>1, <1>2, <1>3, OffsetPositive
     DEF CheckpointInv, BlocksBounded, FoundIsStored, JobHasMissed, CheckpointSafe

LEMMA CheckpointNext == CheckpointInv /\ [Next]_vars => CheckpointInv'
<1> SUFFICES ASSUME CheckpointInv, [Next]_vars PROVE CheckpointInv'
  OBVIOUS
<1>1. CASE UNCHANGED vars
  <2>1. UNCHANGED <<handler, job, lastCheckedBlock>>
    BY <1>1 DEF vars
  <2> QED
    BY <2>1, CheckpointKept
<1>2. ASSUME NEW h \in Handlers, DispatchStep(h) \/ RejectDispatch(h)
      PROVE  CheckpointInv'
  <2>1. UNCHANGED <<handler, job, lastCheckedBlock>>
    BY <1>2 DEF DispatchStep, Route, Charge, addUserCoin, InsertMyzr, Transfer,
       addUserDrawCoin, Withdraw, Settle, RejectDispatch, Dispatching
  <2> QED
    BY <2>1, CheckpointKept
<1> QED
  BY <1>1, <1>2, NextParts, CheckpointEnvironment, CheckpointHandlerStep, CheckpointJobStep

\* Over a web socket or http, the checkpoint moves past a block by more than
\* the offset only when the transfers of that block are stored, whatever
\* crashes, rejected calls, lost connections, lagging answers and
\* reorganisations occur, if the node never answers null for the receipt of
\* an event whose transaction is in the chain.
THEOREM CheckpointIsSafe == "null" \notin Faults /\ Spec => []CheckpointSafe
<1>1. CheckpointInv => CheckpointSafe
  BY DEF CheckpointInv
<1> QED
  BY <1>1, CheckpointInit, CheckpointNext, PTL DEF Spec

-----------------------------------------------------------------------------
(* An offset past the start block, as both defaults have it (200 and 1),   *)
(* makes the first scan begin at a negative block, which the node refuses. *)

NeverScans ==
  startBlock < blockOffset /\ lastCheckedBlock = 0 /\ job.pc # "loop"
IdleTasks ==
  /\ handler = [h \in Handlers |-> Idle]
  /\ dispatch = [h \in Handlers |-> NoDispatch]
NeverStores == RpcType = "http" /\ NeverScans /\ IdleTasks
Recorded == <<rows, wallet, myzr>>

\* No step takes the job into its loop, and only there is a checkpoint written.
LEMMA ScanRefused ==
  ASSUME NeverScans, [Next]_vars
  PROVE  NeverScans'
<1>1. CASE UNCHANGED vars
  BY <1>1 DEF vars, NeverScans
<1>2. NoJob.pc = "idle"
  BY DEF NoJob
<1>3. CASE JobStep
  <2>1. ~JobDone /\ \A e \in job.events : ~JobNext(e)
    BY DEF JobDone, JobNext, Restoring, NeverScans
  <2>2. ASSUME JobStart
        PROVE  job'.pc # "loop" /\ lastCheckedBlock' = lastCheckedBlock
    <3>1. job' = [[job EXCEPT !.currentBlock = height] EXCEPT !.pc = "fetch"]
             \/ job'.pc # "loop"
      BY <2>2 DEF JobStart
    <3> QED
      BY <2>2, <3>1 DEF JobStart
  <2>3. JobFetch => job' = NoJob /\ lastCheckedBlock' = lastCheckedBlock
    <3>1. fromBlock < 0
      BY ConfigInNat DEF fromBlock, NeverScans
    <3>2. ~(fromBlock >= 0)
      BY <3>1, ConfigInNat DEF fromBlock, NeverScans
    <3> QED
      BY <3>2 DEF JobFetch
  <2> QED
    BY <1>2, <1>3, <2>1, <2>2, <2>3 DEF JobStep, NeverScans
<1>4. CASE Environment
  <2>1. lastCheckedBlock' = lastCheckedBlock
    BY <1>4 DEF Environment, RejectJob, NewBlock, Reorg, LinkWithdrawal, Deliver,
       WsClose, Reconnect, Crash, Restart, CreateConnection, NeverScans
  <2>2. job' = job \/ job' = NoJob \/ job' = [NoJob EXCEPT !.pc = "hung"]
    BY <1>4 DEF Environment, RejectJob, NewBlock, Reorg, LinkWithdrawal, Deliver,
       WsClose, Reconnect, Crash, Restart, CreateConnection
  <2>3. [NoJob EXCEPT !.pc = "hung"].pc # "loop"
    BY DEF NoJob
  <2> QED
    BY <1>2, <2>1, <2>2, <2>3 DEF NeverScans
<1>5. ASSUME NEW h \in Handlers, HandlerStep(h) \/ RejectHandler(h)
      PROVE  lastCheckedBlock' = lastCheckedBlock /\ (job' = job \/ job' = NoJob)
  BY <1>5 DEF HandlerStep, RejectHandler, FindTx, GetReceipt, SaveTx, Reject
<1>6. ASSUME NEW h \in Handlers, DispatchStep(h) \/ RejectDispatch(h)
      PROVE  lastCheckedBlock' = lastCheckedBlock /\ job' = job
  BY <1>6 DEF DispatchStep, RejectDispatch, Dispatching, Route, Charge, addUserCoin,
     InsertMyzr, Transfer, addUserDrawCoin, Withdraw, Settle
<1> QED
  BY <1>1, <1>2, <1>3, <1>4, <1>5, <1>6, NextParts DEF NeverScans

\* Over http the refused scan was the only source of events: no invocation of
\* processTokenTransfer begins, and so no accounting.
LEMMA NothingStored ==
  ASSUME NeverStores, [Next]_vars
  PROVE  NeverStores' /\ [FALSE]_Recorded
<1> DEFINE Goal == IdleTasks' /\ UNCHANGED Recorded
<1>1. \A h \in Handlers : handler[h].pc = "idle" /\ dispatch[h].pc = "idle"
  BY DEF NeverStores, IdleTasks, Idle, NoDispatch
<1>2. UNCHANGED <<handler, dispatch, rows, wallet, myzr>> => Goal
  BY DEF NeverStores, IdleTasks, Recorded, Handlers
<1>3. ASSUME JobStep PROVE Goal
  <2>1. \A e \in job.events : ~JobNext(e)
    BY DEF JobNext, Restoring, NeverStores, NeverScans
  <2> QED
    BY <1>2, <1>3, <2>1 DEF JobStep, JobStart, JobFetch, JobDone, Restoring, moneyVars
<1>4. ASSUME Environment PROVE Goal
  <2>1. ~WsClose /\ \A l \in Logs : ~Deliver(l)
    BY DEF WsClose, Deliver, Subscribed, NeverStores
  <2>2. ASSUME Crash PROVE Goal
    BY <2>2 DEF Crash, moneyVars, IdleTasks, Recorded, Handlers
  <2> QED
    BY <1>2, <1>4, <2>1, <2>2 DEF Environment, RejectJob, Restoring, NewBlock, Reorg,
       LinkWithdrawal,
       Reconnect, Restart, CreateConnection, moneyVars
<1>5. \A h \in Handlers : ~(HandlerStep(h) \/ RejectHandler(h))
  BY <1>1 DEF HandlerStep, RejectHandler, FindTx, GetReceipt, SaveTx
<1>6. \A h \in Handlers : ~(DispatchStep(h) \/ RejectDispatch(h))
  BY <1>1 DEF DispatchStep, RejectDispatch, Dispatching, Route, Charge, addUserCoin,
     InsertMyzr, Transfer, addUserDrawCoin, Withdraw, Settle
<1>7. Goal
  <2>1. UNCHANGED vars => Goal
    BY <1>2 DEF vars, moneyVars
  <2> QED
    BY <1>3, <1>4, <1>5, <1>6, <2>1, NextParts
<1> QED
  BY <1>7, ScanRefused DEF NeverStores

\* When the start block is below the offset, checkAndRestoreTransactions fails
\* at every run: the checkpoint is never written, over any connection.
THEOREM RefusedScanNeverChecks ==
  startBlock < blockOffset /\ Spec => [](lastCheckedBlock = 0)
<1>1. startBlock < blockOffset /\ Init => NeverScans
  BY DEF Init, NeverScans, NoJob
<1>2. NeverScans => lastCheckedBlock = 0
  BY DEF NeverScans
<1>3. NeverScans /\ [Next]_vars => NeverScans'
  BY ScanRefused
<1> QED
  BY <1>1, <1>2, <1>3, PTL DEF Spec

\* Over http that silences the whole intake: whatever is mined, no transaction
\* row, no wallet and no deposit record ever changes.
THEOREM RefusedScanStoresNothing ==
  startBlock < blockOffset /\ RpcType = "http" /\ Spec => [][FALSE]_Recorded
<1>1. startBlock < blockOffset /\ RpcType = "http" /\ Init => NeverStores
  BY DEF Init, NeverStores, NeverScans, IdleTasks, NoJob
<1>2. NeverStores /\ [Next]_vars => NeverStores'
  BY NothingStored
<1>3. NeverStores /\ [Next]_vars => [FALSE]_Recorded
  BY NothingStored
<1> QED
  BY <1>1, <1>2, <1>3, PTL DEF Spec
=============================================================================
