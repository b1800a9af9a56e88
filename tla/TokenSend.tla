----------------------------- MODULE TokenSend -----------------------------
(***************************************************************************)
(* Sending tokens and ether: the send methods of Web3Client, two of the    *)
(* routes over them (/wallet/sendtokenbymnemonic, /wallet/                 *)
(* sendtokenfromadmin), the node's transaction pool (external) and the     *)
(* contract (MyToken).                                                     *)
(*                                                                         *)
(* A request is a chain of awaited calls, so any number of requests        *)
(* interleave at every await.                                              *)
(***************************************************************************)
EXTENDS Integers, Sequences, FiniteSets

CONSTANTS
  Requests,            \* calls that may be made
  Via,                 \* the route or method of a request
  From, To, Amount,    \* input.from, input.to, input.amount
  InputFee,            \* input.gas times input.gasPrice
  GasFee,              \* the fee of a method that sets its own gas
  After,               \* requests whose outcome the caller waits for first
  Ether,               \* what each address has at first
  N, MaxUint, INITIAL_SUPPLY,  \* of MyToken
  RpcType,             \* config.rpc.type
  Faults,              \* awaited calls that may be rejected, "wsclose", "crash"
  MaxFaults            \* bound on the faults

Manager == 1           \* row 1 of s_manager_wallet; deploys the token
Addresses == 1..N

\* The awaited calls of each route or method, in order.  The gas price is
\* awaited once by a controller and again by sendTokenByMnemonic.
Calls ==
  [sendtokenbymnemonic |-> <<"getGasPrice", "balanceOf", "signTransaction", "send">>,
   sendtokenfromadmin |->
     <<"findOne", "getGasPrice", "balanceOf", "signTransaction", "send">>,
   sendTokenByPrivateKey |-> <<"balanceOf", "signTransaction", "send">>,
   sendTokenWithNoEth |->
     <<"findOne", "getGasPrice", "balanceOf", "signTransaction", "send">>,
   sendWithdrawalByMnemonic |-> <<"getBalance", "signTransaction", "send">>,
   sendTransactionByMnemonic |-> <<"getBalance", "signTransaction", "send">>,
   sendTransactionByPrivateKey |-> <<"signTransaction", "send">>]

CallKinds == {"findOne", "getGasPrice", "getBalance", "balanceOf", "signTransaction", "send"}

ASSUME ContractAssumption ==
  N \in Nat \ {0} /\ MaxUint \in Nat /\ INITIAL_SUPPLY \in 0..MaxUint

ASSUME SendAssumption ==
  /\ Via \in [Requests -> DOMAIN Calls]
  /\ From \in [Requests -> Addresses] /\ To \in [Requests -> Addresses]
  /\ \A r \in Requests : Via[r] = "sendtokenfromadmin" => From[r] = Manager
  /\ Amount \in [Requests -> 0..MaxUint]
  /\ InputFee \in [Requests -> Nat] /\ GasFee \in Nat
  /\ Ether \in [Addresses -> Nat]
  /\ After \in [Requests -> SUBSET Requests]
  /\ RpcType \in {"ws", "ipc", "http"}
  /\ MaxFaults \in Nat /\ Faults \subseteq CallKinds \cup {"wsclose", "crash"}

EtherMethods == {"sendTransactionByMnemonic", "sendTransactionByPrivateKey"}
TokenTransfers == DOMAIN Calls \ (EtherMethods \cup {"sendTokenWithNoEth"})

\* The manager signs, and pays, for a user without ether.
Signer(r) == IF Via[r] = "sendTokenWithNoEth" THEN Manager ELSE From[r]
EtherSent(r) == IF Via[r] \in EtherMethods THEN Amount[r] ELSE 0
Fee(r) ==
  IF Via[r] \in EtherMethods \cup {"sendTokenByPrivateKey"} THEN InputFee[r] ELSE GasFee
Cost(r) == EtherSent(r) + Fee(r)

VARIABLES
  pc, answer,          \* where a request stands, and how its promise settled
  nonce,               \* the nonce it signed with
  tx,                  \* its transaction: none, pool, mined, reverted, replaced
  mined, eth,          \* transactions mined of each account, and its ether
  balances, allowed, totalSupply_, owner,   \* the token contract
  conn,                \* Web3Client's own connection
  faults

tokenVars == <<balances, allowed, totalSupply_, owner>>
chainVars == <<mined, eth, tokenVars>>
vars == <<pc, answer, nonce, tx, chainVars, conn, faults>>

Token == INSTANCE MyToken WITH
  Values <- {Amount[r] : r \in Requests}, Spenders <- {}

TypeOK ==
  /\ pc \in [Requests -> CallKinds \cup {"new", "hung", "lost", "end"}]
  /\ answer \in [Requests -> {"none", "hash", "refused", "error"}]
  /\ nonce \in [Requests -> Nat]
  /\ tx \in [Requests -> {"none", "pool", "mined", "reverted", "replaced"}]
  /\ mined \in [Addresses -> Nat] /\ eth \in [Addresses -> Nat]
  /\ Token!TypeOK
  /\ conn \in {"open", "closed"}
  /\ faults \in Nat

Init ==
  /\ pc = [r \in Requests |-> "new"]
  /\ answer = [r \in Requests |-> "none"]
  /\ nonce = [r \in Requests |-> 0]
  /\ tx = [r \in Requests |-> "none"]
  /\ mined = [a \in Addresses |-> 0] /\ eth = Ether
  /\ Token!Init /\ owner = Manager
  /\ conn = "open"
  /\ faults = 0

-----------------------------------------------------------------------------
Fault(kind) == kind \in Faults /\ faults < MaxFaults /\ faults' = faults + 1

GoTo(r, next) == pc' = [pc EXCEPT ![r] = next]

\* The call a request awaits after the one it is at.
NextCall(r) ==
  LET calls == Calls[Via[r]]
      at == {i \in DOMAIN calls : calls[i] = pc[r]}
  IN  IF pc[r] = "new" THEN calls[1] ELSE calls[(CHOOSE i \in at : TRUE) + 1]

\* A promise settles once: a later resolve or reject has no effect.
Answer(r, a) ==
  answer' = [answer EXCEPT ![r] = IF @ = "none" THEN a ELSE @]

\* A call of the node is made over an open connection.
Awaiting(r, calls) ==
  /\ pc[r] \in calls
  /\ pc[r] # "findOne" => conn = "open"
  /\ UNCHANGED <<chainVars, conn, faults>>

\* What a caller sees of a request: its outcome, and then the chain.
Over(q) ==
  \/ answer[q] \in {"refused", "error"} \/ pc[q] = "hung"
  \/ answer[q] = "hash" /\ tx[q] \in {"mined", "reverted"}

Arrive(r) ==
  /\ pc[r] = "new"
  /\ \A q \in After[r] : Over(q)
  /\ GoTo(r, NextCall(r))
  /\ UNCHANGED <<answer, nonce, tx, chainVars, conn, faults>>

\* The manager's row and the gas price decide nothing.
Read(r) ==
  /\ Awaiting(r, {"findOne", "getGasPrice"})
  /\ GoTo(r, NextCall(r))
  /\ UNCHANGED <<answer, nonce, tx>>

\* Mutants: the balance is not compared; the fee is left out.
unchecked(r) == balances[From[r]] >= 0
amountOnly(r) == Amount[r] <= eth[From[r]]

sufficientBalance(r) == Amount[r] + InputFee[r] <= eth[From[r]]
sufficientTokenBalance(r) == Amount[r] <= balances[From[r]]
sufficient(r) ==
  IF pc[r] = "getBalance" THEN sufficientBalance(r) ELSE sufficientTokenBalance(r)

\* Mutant: an insufficient balance ends the request without an answer.
CheckAndReturn(r) ==
  /\ Awaiting(r, {"getBalance", "balanceOf"})
  /\ GoTo(r, IF sufficient(r) THEN "signTransaction" ELSE "end")
  /\ UNCHANGED <<answer, nonce, tx>>

\* "if (!sufficient) { reject(...) }" has no return: the promise is rejected
\* and the transaction is signed and sent all the same.
CheckBalance(r) ==
  /\ Awaiting(r, {"getBalance", "balanceOf"})
  /\ IF sufficient(r) THEN UNCHANGED answer ELSE Answer(r, "refused")
  /\ GoTo(r, NextCall(r))
  /\ UNCHANGED <<nonce, tx>>

\* signTransaction takes the number of mined transactions for the nonce.
\* Mutant: the nonce of the last mined transaction.
nonceBefore(r) == mined[Signer(r)] - 1
nextNonce(r) == mined[Signer(r)]

Sign(r) ==
  /\ Awaiting(r, {"signTransaction"})
  /\ nonce' = [nonce EXCEPT ![r] = nextNonce(r)]
  /\ GoTo(r, NextCall(r))
  /\ UNCHANGED <<answer, tx>>

\* The node refuses a used nonce, a cost the account cannot pay, and a
\* transaction that competes with one of its pool without paying more gas; one
\* that pays more replaces the other.
Rivals(r) ==
  {q \in Requests : tx[q] = "pool" /\ Signer(q) = Signer(r) /\ nonce[q] = nonce[r]}
Acceptable(r) == nonce[r] = mined[Signer(r)] /\ Cost(r) <= eth[Signer(r)]
Pooled(S) ==
  tx' = [q \in Requests |->
           IF q \in S THEN "pool"
           ELSE IF \E r \in S : q \in Rivals(r) THEN "replaced" ELSE tx[q]]
Accept(r) == Acceptable(r) /\ Pooled({r})
Refuse(r) ==
  /\ nonce[r] < mined[Signer(r)] \/ Cost(r) > eth[Signer(r)] \/ Rivals(r) # {}
  /\ UNCHANGED tx

Sending(r) ==
  /\ Awaiting(r, {"send"})
  /\ GoTo(r, "end")
  /\ UNCHANGED nonce

\* Mutants: the request is answered without waiting for the node; a
\* transfer refused for its nonce is sent again.
SendEarly(r) ==
  /\ Sending(r) /\ Answer(r, "hash")
  /\ Accept(r) \/ UNCHANGED tx
SendAgain(r) ==
  /\ Sending(r)
  /\ \/ Accept(r) /\ Answer(r, "hash")
     \/ /\ nonce[r] < mined[Signer(r)]
        /\ tx' = [tx EXCEPT ![r] = "pool"] /\ Answer(r, "error")

\* 'transactionHash' resolves the promise, 'error' rejects it.
Send(r) ==
  /\ Sending(r)
  /\ \/ Accept(r) /\ Answer(r, "hash")
     \/ Refuse(r) /\ Answer(r, "error")

\* What a rejected call does. What a controller or an async function awaits,
\* and an 'error' of the send, reject the promise; the chain of the balance
\* check and signTransaction has no catch, so the promise is never settled.
Rejected(r) ==
  IF pc[r] \in {"getBalance", "balanceOf", "signTransaction"}
  THEN GoTo(r, "hung") /\ UNCHANGED answer
  ELSE GoTo(r, IF pc[r] = "send" THEN "lost" ELSE "end") /\ Answer(r, "error")

\* A send may fail after the node accepted it.
RejectCall(r) ==
  /\ Fault(pc[r]) /\ Rejected(r)
  /\ UNCHANGED tx \/ (pc[r] = "send" /\ Accept(r))
  /\ UNCHANGED <<nonce, chainVars, conn>>

\* While the client waits to reconnect its calls of the node are rejected.
RejectClosed(r) ==
  /\ conn = "closed" /\ pc[r] \in CallKinds \ {"findOne"}
  /\ Rejected(r)
  /\ UNCHANGED <<nonce, tx, chainVars, conn, faults>>

\* The replies to the calls under way never come. The node may have accepted
\* the transactions of some, of each account one at most.
Interrupt(calls) ==
  /\ pc' = [r \in Requests |-> IF pc[r] \in calls THEN "hung" ELSE pc[r]]
  /\ \E S \in SUBSET {r \in Requests : pc[r] = "send" /\ Acceptable(r)} :
       (\A q, r \in S : Signer(q) = Signer(r) => q = r) /\ Pooled(S)
  /\ UNCHANGED <<answer, nonce, chainVars>>

\* The client's onclose takes the place of the provider's, which would reject
\* the calls under way.
WsClose ==
  /\ RpcType = "ws" /\ conn = "open" /\ Fault("wsclose")
  /\ conn' = "closed"
  /\ Interrupt(CallKinds \ {"findOne"})

\* onWsClose: a new provider and a new contract object.
Reconnect ==
  /\ conn = "closed" /\ conn' = "open"
  /\ UNCHANGED <<pc, answer, nonce, tx, chainVars, faults>>

\* The process ends and is started again, with a new client.
Crash ==
  /\ Fault("crash")
  /\ conn' = "open"
  /\ Interrupt(CallKinds)

\* The next transaction of an account is mined and its fee paid: ether moves,
\* the contract executes the transfer, or the call is reverted. MyToken has no
\* transferPreSigned and no fallback function, so such a call reverts.
Pay(r, value) ==
  LET paid == [eth EXCEPT ![Signer(r)] = @ - Fee(r) - value] IN
  eth' = [paid EXCEPT ![To[r]] = @ + value]

Mine(r) ==
  /\ tx[r] = "pool" /\ nonce[r] = mined[Signer(r)] /\ Cost(r) <= eth[Signer(r)]
  /\ mined' = [mined EXCEPT ![Signer(r)] = @ + 1]
  /\ Pay(r, EtherSent(r))
  /\ \/ /\ Via[r] \in EtherMethods
        /\ tx' = [tx EXCEPT ![r] = "mined"] /\ UNCHANGED tokenVars
     \/ /\ Via[r] \in TokenTransfers
        /\ Token!transfer(From[r], To[r], Amount[r])
        /\ tx' = [tx EXCEPT ![r] = "mined"]
     \/ /\ Via[r] \notin EtherMethods
        /\ Via[r] \in TokenTransfers => Amount[r] > balances[From[r]]
        /\ tx' = [tx EXCEPT ![r] = "reverted"] /\ UNCHANGED tokenVars
  /\ UNCHANGED <<pc, answer, nonce, conn, faults>>

-----------------------------------------------------------------------------
Handle(r) == Read(r) \/ CheckBalance(r) \/ Sign(r) \/ Send(r) \/ RejectClosed(r)

Next ==
  \/ \E r \in Requests : Arrive(r) \/ Handle(r) \/ RejectCall(r) \/ Mine(r)
  \/ WsClose \/ Reconnect \/ Crash

Spec == Init /\ [][Next]_vars

\* The event loop and the node answer some request as long as one waits; some
\* transaction is mined as long as one can be; the timer of onWsClose fires.
FairSpec ==
  /\ Spec /\ WF_vars(Reconnect)
  /\ WF_vars(\E r \in Requests : Handle(r)) /\ WF_vars(\E r \in Requests : Mine(r))

-----------------------------------------------------------------------------
\* The caller of an account makes one request after the other.
Queued(a) ==
  \A q, r \in Requests :
    q # r /\ Signer(q) = a /\ Signer(r) = a => q \in After[r] \/ r \in After[q]

\* A request answered with a hash ("status: pending") has its transaction in
\* the pool or in the chain.
IsPending(r) == answer[r] = "hash" => tx[r] \in {"pool", "mined", "reverted"}

\* No request replaces a transaction answered with a hash, however the
\* requests of an account overlap.
HashIsPending == \A r \in Requests : IsPending(r)

\* A refused request is sent after its caller took it for over.
RefusedBefore(r) == \E q \in After[r] : answer[q] = "refused"

\* None does when an account's next request waits for the outcome of the one
\* before, even if the reply to a send was lost, unless that one was refused.
PendingIsKept ==
  \A r \in Requests : Queued(Signer(r)) /\ ~RefusedBefore(r) => IsPending(r)

\* A token transfer whose balance check succeeded is reverted only when another
\* request of the account spent the balance in between.
RevertedByRace ==
  \A r \in Requests :
    /\ Via[r] \in TokenTransfers \ {"sendWithdrawalByMnemonic"}
    /\ tx[r] = "reverted" /\ answer[r] # "refused"
    => \E q \in Requests \ {r} :
         From[q] = From[r] /\ Via[q] \in TokenTransfers /\ tx[q] = "mined"

\* As long as the node's reply to its send arrives, the caller may retry a
\* request answered with an error: its transaction is not in pool or chain,
\* whatever other requests of the account did to its nonce.
ErrorIsNotSent ==
  \A r \in Requests : answer[r] = "error" /\ pc[r] # "lost" => tx[r] = "none"

\* An ether transfer whose balance check succeeded is refused by the node only
\* when another request of the account took its nonce or its ether.
NodeRefusesByRace ==
  \A r \in Requests :
    Via[r] = "sendTransactionByMnemonic" /\ answer[r] = "error" /\ pc[r] = "end"
    => \E q \in Requests \ {r} : Signer(q) = Signer(r) /\ tx[q] # "none"

\* "reject({ message: '您的代币量不足' })": the tokens of a request refused for
\* lack of balance do not move.
RefusedIsNotSent == \A r \in Requests : answer[r] = "refused" => tx[r] # "mined"

\* The promise of every request is settled unless one of its calls of the node
\* fails between the balance check and the signature, or its reply is lost with
\* the connection.
Answered ==
  \A r \in Requests : pc[r] # "new" ~> answer[r] # "none" \/ pc[r] = "hung"

\* A request answered with a hash is mined in the end, or replaced.
HashIsMined ==
  \A r \in Requests : answer[r] = "hash" ~> tx[r] \in {"mined", "reverted", "replaced"}
=============================================================================
