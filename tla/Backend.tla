------------------------------ MODULE Backend ------------------------------
(***************************************************************************)
(* The server as a whole, over http: the sending routes (TokenSend, which  *)
(* this module extends) and the intake (Web3Handler) run in one process    *)
(* and meet in the chain, and in u_ols_myzc, where the site's application  *)
(* stores the hash a route answered.  A mined transfer emits the event the *)
(* intake will find; a reverted one emits nothing.                         *)
(*                                                                         *)
(* The chain of the whole is not reorganised: a replaced block would take  *)
(* back what its transfers did to the contract, which MyToken and          *)
(* TokenSend do not model.  Web3Handler alone meets reorganisations.       *)
(***************************************************************************)
EXTENDS TokenSend, FiniteSetsExt

CONSTANTS
  Members,                         \* addresses with a wallet row
  WEB3_RESTORE_START_BLOCK, WEB3_BLOCK_OFFSET, MaxBlocks,   \* of Web3Handler
  IntakeFaults, MaxIntakeFaults    \* Faults and MaxFaults of Web3Handler

VARIABLES
  height, block, reverted, process, socket, wire, handler, dispatch, job, rows,
  wallet, myzr, myzc, lastCheckedBlock,   \* of Web3Handler; its conn is socket
  intakeFaults                            \* and its faults

handlerVars == <<height, block, reverted, process, socket, wire, handler, dispatch, job,
                 rows, wallet, myzr, myzc, lastCheckedBlock, intakeFaults>>
backendVars == <<vars, handlerVars>>

\* A unit of Amount is a cent, ten thousandths of a token.
Handler == INSTANCE Web3Handler WITH
  Logs <- Requests, TxHash <- [r \in Requests |-> r], Sender <- From, Receiver <- To,
  Value <- [r \in Requests |-> 10 * Amount[r]],
  Method <- [r \in Requests |-> "transfer"],
  MaxColumn <- 10 * MaxUint, StrictSql <- FALSE, NullMembers <- {},
  PendingLogs <- {}, conn <- socket, faults <- intakeFaults,
  Faults <- IntakeFaults, MaxFaults <- MaxIntakeFaults

ASSUME BackendAssumption ==
  /\ RpcType = "http"
  /\ WEB3_RESTORE_START_BLOCK \in Nat /\ WEB3_BLOCK_OFFSET \in Nat /\ MaxBlocks \in Nat
  /\ IntakeFaults \subseteq Handler!FaultKinds \ {"reorg"} /\ MaxIntakeFaults \in Nat

BackendInit == Init /\ Handler!Init

-----------------------------------------------------------------------------
\* bin/www.ts listens only once createConnection has answered.
Request(r) ==
  /\ process = "ready"
  /\ Arrive(r) \/ Handle(r) \/ RejectCall(r)
  /\ UNCHANGED handlerVars

\* The tokens of a request have moved in the contract.
Moved(r) == Via[r] \in TokenTransfers /\ tx[r] = "mined"

MineTransfer(r) ==
  /\ Mine(r)
  /\ Handler!NewBlock(IF Moved(r)' THEN {r} ELSE {})

\* The site stores a hash that a route answered.
LinkWithdrawal(r) ==
  answer[r] = "hash" /\ Handler!LinkWithdrawal(r) /\ UNCHANGED vars

\* A crash ends the invocations of the intake and the requests under way.
CrashProcess == Handler!Crash /\ Crash

Intake ==
  /\ \/ \E h \in Handler!Handlers : Handler!HandlerStep(h) \/ Handler!RejectHandler(h)
     \/ \E h \in Handler!Handlers : Handler!DispatchStep(h) \/ Handler!RejectDispatch(h)
     \/ Handler!JobStep \/ Handler!RejectJob \/ Handler!Restart \/ Handler!CreateConnection
  /\ UNCHANGED vars

BackendNext ==
  \/ \E r \in Requests : Request(r) \/ MineTransfer(r) \/ LinkWithdrawal(r)
  \/ CrashProcess \/ Intake

BackendSpec == BackendInit /\ [][BackendNext]_backendVars

-----------------------------------------------------------------------------
\* As long as the chain is not reorganised a withdrawal is settled only as
\* success, and only when its tokens have moved: a linked transfer that is
\* reverted emits no event, so its record stays as sent, and the events of
\* other payments do not settle it.
SettledIsPaid ==
  \A r \in Requests : myzc[r] \notin {"none", "sent"} => myzc[r] = "success" /\ Moved(r)

SumMoved(S) == MapThenSumSet(LAMBDA r : 10 * Amount[r], {r \in S : Moved(r)})

\* As long as the chain is not reorganised, what the wallets show as charged, or
\* as drawn by the manager, has moved in the token contract, whatever requests
\* were refused, reverted or lost and whatever crashes the intake recovered from.
CreditedIsMoved ==
  \A m \in Members :
    /\ wallet[m].charge_amount <= SumMoved({r \in Requests : From[r] # 1 /\ To[r] = m})
    /\ wallet[m].draw_amount <= SumMoved({r \in Requests : From[r] = m /\ To[r] = 1})

\* The hash stored for a withdrawal names a transaction in the pool or in the
\* chain, also when a crash or a lost reply hides what became of the request
\* before it, as long as the manager's requests wait for one another and none
\* was refused.
LinkedIsSent ==
  \A r \in Requests :
    /\ myzc[r] # "none"
    /\ Queued(Signer(r)) /\ ~RefusedBefore(r)
    => tx[r] \in {"pool", "mined", "reverted"}
=============================================================================
