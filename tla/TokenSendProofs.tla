-------------------------- MODULE TokenSendProofs --------------------------
(***************************************************************************)
(* Theorems about TokenSend, for any set of requests, any fees and ether,  *)
(* any caller's discipline and any faults.                                 *)
(***************************************************************************)
EXTENDS TokenSend, TLAPS

CallsOf(r) == {Calls[Via[r]][i] : i \in DOMAIN Calls[Via[r]]}

\* The call after the i-th one of a chain that awaits each call once.
LEMMA NextAt ==
  ASSUME NEW r \in Requests, NEW i \in DOMAIN Calls[Via[r]],
         pc[r] = Calls[Via[r]][i], pc[r] # "new",
         \A j \in DOMAIN Calls[Via[r]] : Calls[Via[r]][j] = pc[r] => j = i
  PROVE  NextCall(r) = Calls[Via[r]][i + 1]
<1> DEFINE at == {j \in DOMAIN Calls[Via[r]] : Calls[Via[r]][j] = pc[r]}
<1>1. \A j \in at : j = i
  OBVIOUS
<1>2. i \in at
  OBVIOUS
<1>3. (CHOOSE j \in at : TRUE) = i
  <2>1. (CHOOSE j \in at : TRUE) \in at
    BY <1>2
  <2> QED
    BY <1>1, <2>1
<1> QED
  BY <1>3 DEF NextCall

\* The first call of each route or method, and the calls of its chain.
LEMMA ChainFacts ==
  ASSUME NEW r \in Requests
  PROVE  /\ Calls[Via[r]][1] \in CallsOf(r) /\ CallsOf(r) \subseteq CallKinds
         /\ Calls[Via[r]][1] # "send"
         /\ Calls[Via[r]][1] = "signTransaction" => Via[r] = "sendTransactionByPrivateKey"
         /\ "balanceOf" \in CallsOf(r) => Via[r] \notin EtherMethods
         /\ "getBalance" \in CallsOf(r) =>
              Via[r] \in {"sendTransactionByMnemonic", "sendWithdrawalByMnemonic"}
         /\ Via[r] = "sendTransactionByMnemonic" =>
              CallsOf(r) = {"getBalance", "signTransaction", "send"}
<1> USE DEF CallsOf, CallKinds, EtherMethods
<1>0. Via[r] \in DOMAIN Calls
  BY SendAssumption
<1>1. CASE Via[r] = "sendtokenbymnemonic"
  <2>1. Calls[Via[r]] = <<"getGasPrice", "balanceOf", "signTransaction", "send">>
    BY <1>1 DEF Calls
  <2> QED
    BY <1>1, <2>1
<1>2. CASE Via[r] = "sendtokenfromadmin" \/ Via[r] = "sendTokenWithNoEth"
  <2>1. Calls[Via[r]] = <<"findOne", "getGasPrice", "balanceOf", "signTransaction", "send">>
    BY <1>2 DEF Calls
  <2> QED
    BY <1>2, <2>1
<1>3. CASE Via[r] = "sendTokenByPrivateKey"
  <2>1. Calls[Via[r]] = <<"balanceOf", "signTransaction", "send">>
    BY <1>3 DEF Calls
  <2> QED
    BY <1>3, <2>1
<1>4. CASE Via[r] = "sendWithdrawalByMnemonic" \/ Via[r] = "sendTransactionByMnemonic"
  <2>1. Calls[Via[r]] = <<"getBalance", "signTransaction", "send">>
    BY <1>4 DEF Calls
  <2> QED
    BY <1>4, <2>1
<1>5. CASE Via[r] = "sendTransactionByPrivateKey"
  <2>1. Calls[Via[r]] = <<"signTransaction", "send">>
    BY <1>5 DEF Calls
  <2> QED
    BY <1>5, <2>1
<1> QED
  BY <1>0, <1>1, <1>2, <1>3, <1>4, <1>5 DEF Calls

\* What follows a call is the same in every chain that has the call.
LEMMA NextFacts ==
  ASSUME NEW r \in Requests, pc[r] \in CallsOf(r)
  PROVE  /\ pc[r] = "findOne" => NextCall(r) = "getGasPrice"
         /\ pc[r] = "getGasPrice" => NextCall(r) = "balanceOf"
         /\ pc[r] \in {"getBalance", "balanceOf"} => NextCall(r) = "signTransaction"
         /\ pc[r] = "signTransaction" => NextCall(r) = "send"
         /\ pc[r] # "send" => NextCall(r) \in CallsOf(r)
<1> DEFINE calls == Calls[Via[r]]
<1>0. Via[r] \in DOMAIN Calls
  BY SendAssumption
<1>1. PICK i \in DOMAIN calls : pc[r] = calls[i]
  BY DEF CallsOf
<1>2. CASE Via[r] = "sendtokenbymnemonic"
  <2>1. calls = <<"getGasPrice", "balanceOf", "signTransaction", "send">>
    BY <1>2 DEF Calls
  <2>2. pc[r] # "new" /\ \A j \in DOMAIN calls : calls[j] = pc[r] => j = i
    BY <1>1, <2>1
  <2>3. NextCall(r) = calls[i + 1]
    BY <1>1, <2>2, NextAt
  <2> QED
    BY <1>1, <2>1, <2>3 DEF CallsOf
<1>3. CASE Via[r] = "sendtokenfromadmin" \/ Via[r] = "sendTokenWithNoEth"
  <2>1. calls = <<"findOne", "getGasPrice", "balanceOf", "signTransaction", "send">>
    BY <1>3 DEF Calls
  <2>2. pc[r] # "new" /\ \A j \in DOMAIN calls : calls[j] = pc[r] => j = i
    BY <1>1, <2>1
  <2>3. NextCall(r) = calls[i + 1]
    BY <1>1, <2>2, NextAt
  <2> QED
    BY <1>1, <2>1, <2>3 DEF CallsOf
<1>4. CASE Via[r] = "sendTokenByPrivateKey"
  <2>1. calls = <<"balanceOf", "signTransaction", "send">>
    BY <1>4 DEF Calls
  <2>2. pc[r] # "new" /\ \A j \in DOMAIN calls : calls[j] = pc[r] => j = i
    BY <1>1, <2>1
  <2>3. NextCall(r) = calls[i + 1]
    BY <1>1, <2>2, NextAt
  <2> QED
    BY <1>1, <2>1, <2>3 DEF CallsOf
<1>5. CASE Via[r] = "sendWithdrawalByMnemonic" \/ Via[r] = "sendTransactionByMnemonic"
  <2>1. calls = <<"getBalance", "signTransaction", "send">>
    BY <1>5 DEF Calls
  <2>2. pc[r] # "new" /\ \A j \in DOMAIN calls : calls[j] = pc[r] => j = i
    BY <1>1, <2>1
  <2>3. NextCall(r) = calls[i + 1]
    BY <1>1, <2>2, NextAt
  <2> QED
    BY <1>1, <2>1, <2>3 DEF CallsOf
<1>6. CASE Via[r] = "sendTransactionByPrivateKey"
  <2>1. calls = <<"signTransaction", "send">>
    BY <1>6 DEF Calls
  <2>2. pc[r] # "new" /\ \A j \in DOMAIN calls : calls[j] = pc[r] => j = i
    BY <1>1, <2>1
  <2>3. NextCall(r) = calls[i + 1]
    BY <1>1, <2>2, NextAt
  <2> QED
    BY <1>1, <2>1, <2>3 DEF CallsOf
<1> QED
  BY <1>0, <1>2, <1>3, <1>4, <1>5, <1>6 DEF Calls

-----------------------------------------------------------------------------
\* A request awaits a call of its chain; it has no transaction before its send
\* is accepted; and its promise is settled by a hash or an error only when the
\* chain is at its end, or lost with the reply to the send.
OnPath(r) == pc[r] \in CallKinds => pc[r] \in CallsOf(r)
Unsent(r) ==
  pc[r] \in CallKinds \cup {"new"} => tx[r] = "none" /\ answer[r] \in {"none", "refused"}
Settled(r) ==
  /\ answer[r] = "hash" => pc[r] = "end"
  /\ answer[r] = "error" => pc[r] \in {"end", "lost"}
SendInv == TypeOK /\ \A r \in Requests : OnPath(r) /\ Unsent(r) /\ Settled(r)

LEMMA SendInvInit == Init => SendInv
<1> SUFFICES ASSUME Init PROVE SendInv
  OBVIOUS
<1>1. Token!TypeOK
  BY ContractAssumption
     DEF Init, Token!Init, Token!TypeOK, Token!Uint, Token!Address, Token!Sender
<1>2. TypeOK
  BY <1>1, SendAssumption DEF Init, TypeOK
<1> QED
  BY <1>2 DEF Init, SendInv, OnPath, Unsent, Settled, CallKinds

\* What a step leaves to prove when the contract, the chain and the client
\* keep their types.
LEMMA SendInvKept ==
  ASSUME SendInv,
         pc' \in [Requests -> CallKinds \cup {"new", "hung", "lost", "end"}],
         answer' \in [Requests -> {"none", "hash", "refused", "error"}],
         nonce' \in [Requests -> Nat],
         tx' \in [Requests -> {"none", "pool", "mined", "reverted", "replaced"}],
         UNCHANGED chainVars, conn' \in {"open", "closed"}, faults' \in Nat,
         \A r \in Requests : (OnPath(r) /\ Unsent(r) /\ Settled(r))'
  PROVE  SendInv'
BY DEF SendInv, TypeOK, chainVars, tokenVars, Token!TypeOK

LEMMA SignerFacts ==
  ASSUME NEW r \in Requests
  PROVE  /\ Signer(r) \in Addresses /\ From[r] \in Addresses /\ To[r] \in Addresses
         /\ Fee(r) \in Nat /\ EtherSent(r) \in Nat /\ Cost(r) \in Nat /\ Amount[r] \in Nat
BY ContractAssumption, SendAssumption DEF Signer, Addresses, Manager, Fee, EtherSent, Cost

\* A transaction enters the pool by a send, and leaves it replaced by a rival's.
LEMMA PooledFacts ==
  ASSUME SendInv, NEW S \in SUBSET {r \in Requests : pc[r] = "send"}, Pooled(S)
  PROVE  /\ tx' \in [Requests -> {"none", "pool", "mined", "reverted", "replaced"}]
         /\ \A q \in Requests :
              \/ tx'[q] = tx[q]
              \/ q \in S /\ tx[q] = "none" /\ tx'[q] = "pool"
              \/ q \notin S /\ tx[q] = "pool" /\ tx'[q] = "replaced"
                   /\ \E r \in S : q \in Rivals(r)
<1>1. \A q \in S : tx[q] = "none"
  BY DEF SendInv, Unsent, CallKinds
<1>2. tx \in [Requests -> {"none", "pool", "mined", "reverted", "replaced"}]
  BY DEF SendInv, TypeOK
<1> QED
  BY <1>1, <1>2 DEF Pooled, Rivals

\* What the chain and the client keep while a request is awaiting.
LEMMA RejectedKeeps ==
  ASSUME SendInv, NEW r \in Requests, pc[r] \in CallKinds, Rejected(r),
         tx' \in [Requests -> {"none", "pool", "mined", "reverted", "replaced"}],
         \A q \in Requests \ {r} : tx[q] = "none" => tx'[q] = "none",
         pc[r] # "send" => UNCHANGED tx,
         UNCHANGED <<nonce, chainVars, conn>>, faults' \in Nat
  PROVE  SendInv'
<1>0. TypeOK
  BY DEF SendInv
<1>1. pc' \in [Requests -> CallKinds \cup {"new", "hung", "lost", "end"}]
  BY <1>0 DEF TypeOK, Rejected, GoTo
<1>2. answer' \in [Requests -> {"none", "hash", "refused", "error"}]
  BY <1>0 DEF TypeOK, Rejected, Answer
<1>3. ASSUME NEW q \in Requests
      PROVE  (OnPath(q) /\ Unsent(q) /\ Settled(q))'
  <2>1. CASE q = r
    BY <1>0, <2>1 DEF TypeOK, SendInv, Rejected, GoTo, Answer, OnPath, Unsent, Settled, CallKinds
  <2>2. CASE q # r
    <3>1. pc'[q] = pc[q] /\ answer'[q] = answer[q]
      BY <1>0, <2>2 DEF TypeOK, Rejected, GoTo, Answer
    <3>2. tx[q] = "none" => tx'[q] = "none"
      BY <2>2
    <3> QED
      BY <3>1, <3>2 DEF SendInv, OnPath, Unsent, Settled, CallsOf
  <2> QED
    BY <2>1, <2>2
<1> QED
  BY <1>0, <1>1, <1>2, <1>3, SendInvKept DEF TypeOK

\* The balances stay words, also where a sum would wrap.
LEMMA TransferType ==
  ASSUME Token!TypeOK, NEW r \in Requests, Token!transfer(From[r], To[r], Amount[r])
  PROVE  Token!TypeOK'
<1> DEFINE debited == [balances EXCEPT ![From[r]] = @ - Amount[r]]
           Uint == 0..MaxUint
<1>1. balances \in [0..N -> Uint] /\ MaxUint \in Nat /\ Amount[r] \in Uint
  BY ContractAssumption, SendAssumption DEF Token!TypeOK, Token!Address, Token!Uint
<1>2. From[r] \in 0..N /\ To[r] \in 0..N
  BY SignerFacts, ContractAssumption DEF Addresses
<1>3. Amount[r] <= balances[From[r]]
  BY DEF Token!transfer, Token!Move
<1>4. debited \in [0..N -> Uint]
  <2>1. balances[From[r]] - Amount[r] \in Uint
    BY <1>1, <1>2, <1>3
  <2> QED
    BY <1>1, <1>2, <2>1
<1>5. Token!Plus(debited[To[r]], Amount[r]) \in Uint
  <2>1. debited[To[r]] \in Uint
    BY <1>2, <1>4
  <2> HIDE DEF debited
  <2> QED
    BY <1>1, <2>1 DEF Token!Plus
<1>6. balances' = [debited EXCEPT ![To[r]] = Token!Plus(debited[To[r]], Amount[r])]
  BY <1>2, <1>4 DEF Token!transfer, Token!Move
<1> HIDE DEF debited
<1>7. balances' \in [0..N -> Uint]
  BY <1>4, <1>5, <1>6
<1> QED
  BY <1>7 DEF Token!TypeOK, Token!transfer, Token!Address, Token!Uint

LEMMA MineKeeps ==
  ASSUME SendInv, NEW r \in Requests, Mine(r)
  PROVE  SendInv'
<1>0. TypeOK
  BY DEF SendInv
<1>1. mined' \in [Addresses -> Nat]
  BY <1>0, SignerFacts DEF Mine, TypeOK
<1>2. eth' \in [Addresses -> Nat]
  <2> DEFINE paid == [eth EXCEPT ![Signer(r)] = @ - Fee(r) - EtherSent(r)]
  <2>1. eth[Signer(r)] - Fee(r) - EtherSent(r) \in Nat
    BY <1>0, SignerFacts DEF Mine, TypeOK, Cost
  <2>2. paid \in [Addresses -> Nat]
    BY <1>0, <2>1, SignerFacts DEF TypeOK
  <2>3. eth' = [paid EXCEPT ![To[r]] = paid[To[r]] + EtherSent(r)]
    BY DEF Mine, Pay
  <2> HIDE DEF paid
  <2> QED
    BY <2>2, <2>3, SignerFacts
<1>3. Token!TypeOK'
  <2>1. CASE UNCHANGED tokenVars
    BY <1>0, <2>1 DEF TypeOK, tokenVars, Token!TypeOK
  <2>2. CASE Token!transfer(From[r], To[r], Amount[r])
    BY <1>0, <2>2, TransferType DEF TypeOK
  <2> QED
    BY <2>1, <2>2 DEF Mine
<1>4. \E x \in {"mined", "reverted"} : tx' = [tx EXCEPT ![r] = x]
  BY DEF Mine
<1>5. TypeOK'
  BY <1>0, <1>1, <1>2, <1>3, <1>4 DEF TypeOK, Mine
<1>6. ASSUME NEW q \in Requests
      PROVE  (OnPath(q) /\ Unsent(q) /\ Settled(q))'
  <2>1. tx[q] = "none" => tx'[q] = "none"
    BY <1>0, <1>4 DEF Mine, TypeOK
  <2> QED
    BY <2>1 DEF Mine, SendInv, OnPath, Unsent, Settled, CallsOf
<1> QED
  BY <1>5, <1>6 DEF SendInv

LEMMA SendInvNext == SendInv /\ [Next]_vars => SendInv'
<1> SUFFICES ASSUME SendInv, [Next]_vars PROVE SendInv'
  OBVIOUS
<1>0. TypeOK
  BY DEF SendInv
<1>1. ASSUME NEW r \in Requests, Arrive(r)
      PROVE  SendInv'
  <2>1. NextCall(r) \in CallsOf(r) /\ NextCall(r) \in CallKinds
    BY <1>1, ChainFacts DEF Arrive, NextCall
  <2>2. pc' \in [Requests -> CallKinds \cup {"new", "hung", "lost", "end"}]
    BY <1>0, <1>1, <2>1 DEF Arrive, GoTo, TypeOK
  <2>3. \A q \in Requests : (OnPath(q) /\ Unsent(q) /\ Settled(q))'
    BY <1>0, <1>1, <2>1 DEF Arrive, GoTo, TypeOK, SendInv, OnPath, Unsent, Settled, CallsOf, CallKinds
  <2> QED
    BY <1>0, <1>1, <2>2, <2>3, SendInvKept DEF Arrive, TypeOK, chainVars
<1>2. ASSUME NEW r \in Requests, pc[r] \in CallKinds \ {"send"}, GoTo(r, NextCall(r)),
             answer' = answer \/ Answer(r, "refused"), nonce' \in [Requests -> Nat],
             UNCHANGED <<tx, chainVars, conn, faults>>
      PROVE  SendInv'
  <2>1. NextCall(r) \in CallsOf(r) /\ NextCall(r) \in CallKinds
    BY <1>2, NextFacts, ChainFacts DEF SendInv, OnPath
  <2>2. pc' \in [Requests -> CallKinds \cup {"new", "hung", "lost", "end"}]
    BY <1>0, <1>2, <2>1 DEF GoTo, TypeOK
  <2>3. answer' \in [Requests -> {"none", "hash", "refused", "error"}]
    BY <1>0, <1>2 DEF Answer, TypeOK
  <2>4. ASSUME NEW q \in Requests
        PROVE  (OnPath(q) /\ Unsent(q) /\ Settled(q))'
    <3>1. CASE q = r
      <4>1. pc'[r] = NextCall(r)
        BY <1>0, <1>2 DEF GoTo, TypeOK
      <4>2. tx'[r] = "none" /\ answer'[r] \in {"none", "refused"}
        BY <1>0, <1>2 DEF SendInv, Unsent, Answer, TypeOK
      <4> QED
        BY <2>1, <3>1, <4>1, <4>2 DEF OnPath, Unsent, Settled, CallsOf
    <3>2. CASE q # r
      <4>1. pc'[q] = pc[q] /\ answer'[q] = answer[q] /\ tx'[q] = tx[q]
        BY <1>0, <1>2, <3>2 DEF GoTo, Answer, TypeOK
      <4> QED
        BY <4>1 DEF SendInv, OnPath, Unsent, Settled, CallsOf
    <3> QED
      BY <3>1, <3>2
  <2> QED
    BY <1>0, <1>2, <2>2, <2>3, <2>4, SendInvKept DEF TypeOK
<1>3. ASSUME NEW r \in Requests, Read(r) \/ CheckBalance(r) \/ Sign(r)
      PROVE  SendInv'
  <2>1. pc[r] \in CallKinds \ {"send"} /\ GoTo(r, NextCall(r))
    BY <1>3 DEF Read, CheckBalance, Sign, Awaiting, CallKinds
  <2>2. answer' = answer \/ Answer(r, "refused")
    BY <1>3 DEF Read, CheckBalance, Sign
  <2>3. nonce' \in [Requests -> Nat]
    BY <1>0, <1>3, SignerFacts DEF Read, CheckBalance, Sign, TypeOK, nextNonce
  <2> QED
    BY <1>2, <1>3, <2>1, <2>2, <2>3 DEF Read, CheckBalance, Sign, Awaiting
<1>4. ASSUME NEW r \in Requests, Send(r)
      PROVE  SendInv'
  <2>1. pc[r] = "send" /\ GoTo(r, "end") /\ UNCHANGED <<nonce, chainVars, conn, faults>>
    BY <1>4 DEF Send, Sending, Awaiting
  <2>2. \/ Pooled({r}) /\ Answer(r, "hash")
        \/ UNCHANGED tx /\ Answer(r, "error")
    BY <1>4 DEF Send, Accept, Refuse
  <2>3. /\ tx' \in [Requests -> {"none", "pool", "mined", "reverted", "replaced"}]
        /\ \A q \in Requests \ {r} : tx[q] = "none" => tx'[q] = "none"
    BY <1>0, <2>1, <2>2, PooledFacts DEF TypeOK
  <2>4. pc' \in [Requests -> CallKinds \cup {"new", "hung", "lost", "end"}]
    BY <1>0, <2>1 DEF GoTo, TypeOK
  <2>5. answer' \in [Requests -> {"none", "hash", "refused", "error"}]
    BY <1>0, <2>2 DEF Answer, TypeOK
  <2>6. ASSUME NEW q \in Requests
        PROVE  (OnPath(q) /\ Unsent(q) /\ Settled(q))'
    <3>1. CASE q = r
      BY <1>0, <2>1, <3>1 DEF GoTo, TypeOK, OnPath, Unsent, Settled, CallKinds
    <3>2. CASE q # r
      <4>1. pc'[q] = pc[q] /\ answer'[q] = answer[q]
        BY <1>0, <2>1, <2>2, <3>2 DEF GoTo, Answer, TypeOK
      <4> QED
        BY <2>3, <3>2, <4>1 DEF SendInv, OnPath, Unsent, Settled, CallsOf
    <3> QED
      BY <3>1, <3>2
  <2> QED
    BY <1>0, <2>1, <2>3, <2>4, <2>5, <2>6, SendInvKept DEF TypeOK
<1>5. ASSUME NEW r \in Requests, RejectClosed(r)
      PROVE  SendInv'
  BY <1>0, <1>5, RejectedKeeps DEF RejectClosed, TypeOK
<1>6. ASSUME NEW r \in Requests, RejectCall(r)
      PROVE  SendInv'
  <2>1. pc[r] \in CallKinds
    BY <1>6, SendAssumption, <1>0 DEF RejectCall, Fault, TypeOK, CallKinds
  <2>2. UNCHANGED tx \/ (pc[r] = "send" /\ Pooled({r}))
    BY <1>6 DEF RejectCall, Accept
  <2>3. /\ tx' \in [Requests -> {"none", "pool", "mined", "reverted", "replaced"}]
        /\ \A q \in Requests \ {r} : tx[q] = "none" => tx'[q] = "none"
    BY <1>0, <2>2, PooledFacts DEF TypeOK
  <2>4. faults' \in Nat
    BY <1>0, <1>6 DEF RejectCall, Fault, TypeOK
  <2> QED
    BY <1>6, <2>1, <2>2, <2>3, <2>4, RejectedKeeps DEF RejectCall
<1>7. ASSUME NEW calls \in SUBSET CallKinds, "send" \in calls, Interrupt(calls),
             conn' \in {"open", "closed"}, faults' \in Nat
      PROVE  SendInv'
  <2>1. PICK S \in SUBSET {r \in Requests : pc[r] = "send" /\ Acceptable(r)} : Pooled(S)
    BY <1>7 DEF Interrupt
  <2>2. S \in SUBSET {r \in Requests : pc[r] = "send"}
    OBVIOUS
  <2>3. pc' = [r \in Requests |-> IF pc[r] \in calls THEN "hung" ELSE pc[r]]
    BY <1>7 DEF Interrupt
  <2>4. pc' \in [Requests -> CallKinds \cup {"new", "hung", "lost", "end"}]
    BY <1>0, <2>3 DEF TypeOK
  <2>5. /\ tx' \in [Requests -> {"none", "pool", "mined", "reverted", "replaced"}]
        /\ \A q \in Requests : tx[q] = "none" /\ pc[q] # "send" => tx'[q] = "none"
    BY <2>1, <2>2, PooledFacts
  <2>6. UNCHANGED <<answer, nonce, chainVars>>
    BY <1>7 DEF Interrupt
  <2>7. ASSUME NEW q \in Requests
        PROVE  (OnPath(q) /\ Unsent(q) /\ Settled(q))'
    <3>1. CASE pc[q] \in calls
      <4>1. pc'[q] = "hung" /\ answer'[q] \in {"none", "refused"}
        BY <2>3, <2>6, <3>1 DEF SendInv, Unsent
      <4> QED
        BY <4>1 DEF OnPath, Unsent, Settled, CallKinds
    <3>2. CASE pc[q] \notin calls
      <4>1. pc'[q] = pc[q] /\ (tx[q] = "none" => tx'[q] = "none")
        BY <1>7, <2>3, <2>5, <3>2
      <4> QED
        BY <2>6, <4>1 DEF SendInv, OnPath, Unsent, Settled, CallsOf
    <3> QED
      BY <3>1, <3>2
  <2> QED
    BY <1>0, <1>7, <2>4, <2>5, <2>6, <2>7, SendInvKept DEF TypeOK
<1>8. CASE Reconnect \/ UNCHANGED vars
  <2>1. UNCHANGED <<pc, answer, nonce, tx, chainVars, faults>> /\ conn' \in {"open", "closed"}
    BY <1>0, <1>8 DEF Reconnect, vars, TypeOK
  <2>2. \A q \in Requests : (OnPath(q) /\ Unsent(q) /\ Settled(q))'
    BY <2>1 DEF SendInv, OnPath, Unsent, Settled, CallsOf
  <2> QED
    BY <1>0, <2>1, <2>2, SendInvKept DEF TypeOK
<1>9. CASE WsClose \/ Crash
  <2>1. Interrupt(CallKinds \ {"findOne"}) \/ Interrupt(CallKinds)
    BY <1>9 DEF WsClose, Crash
  <2>2. conn' \in {"open", "closed"} /\ faults' \in Nat
    BY <1>0, <1>9 DEF WsClose, Crash, Fault, TypeOK
  <2> QED
    BY <1>7, <2>1, <2>2 DEF CallKinds
<1> QED
  BY <1>1, <1>3, <1>4, <1>5, <1>6, <1>8, <1>9, MineKeeps DEF Next, Handle

LEMMA SendInvariant == Spec => []SendInv
BY SendInvInit, SendInvNext, PTL DEF Spec

\* Every nonce, amount, balance and fee paid keeps its type: no account and no
\* holder ever pays more than it has.
THEOREM SendTypeCorrect == Spec => []TypeOK
<1>1. SendInv => TypeOK
  BY DEF SendInv
<1> QED
  BY <1>1, SendInvariant, PTL

-----------------------------------------------------------------------------
\* What a step does to one request: it stays, while a rival may replace its
\* transaction or the chain mine it; it starts, goes on to its next call, sends,
\* or one of its calls fails.
Settles(r, a) == answer'[r] = IF answer[r] = "none" THEN a ELSE answer[r]

Stays(r) ==
  /\ pc'[r] = pc[r] /\ answer'[r] = answer[r] /\ nonce'[r] = nonce[r]
  /\ \/ tx'[r] = tx[r]
     \/ /\ tx[r] = "pool" /\ tx'[r] = "replaced"
        /\ \E s \in Requests : pc[s] = "send" /\ r \in Rivals(s)
     \/ tx[r] = "pool" /\ tx'[r] \in {"mined", "reverted"} /\ Mine(r)

Starts(r) ==
  /\ pc[r] = "new" /\ \A q \in After[r] : Over(q)
  /\ pc'[r] = Calls[Via[r]][1]
  /\ answer'[r] = answer[r] /\ nonce'[r] = nonce[r] /\ tx'[r] = tx[r]

GoesOn(r) ==
  /\ pc[r] \in CallKinds \ {"send"} /\ pc'[r] = NextCall(r)
  /\ \/ answer'[r] = answer[r] /\ (pc[r] \in {"getBalance", "balanceOf"} => sufficient(r))
     \/ pc[r] \in {"getBalance", "balanceOf"} /\ Settles(r, "refused")
  /\ pc[r] = "signTransaction" => nonce'[r] = mined[Signer(r)]
  /\ tx'[r] = tx[r]

Sends(r) ==
  /\ pc[r] = "send" /\ pc'[r] = "end" /\ nonce'[r] = nonce[r]
  /\ \/ tx'[r] = "pool" /\ Settles(r, "hash")
     \/ /\ nonce[r] < mined[Signer(r)] \/ Cost(r) > eth[Signer(r)] \/ Rivals(r) # {}
        /\ tx'[r] = tx[r] /\ Settles(r, "error")

Fails(r) ==
  /\ pc[r] \in CallKinds /\ nonce'[r] = nonce[r]
  /\ \/ pc'[r] = "hung" /\ answer'[r] = answer[r]
     \/ pc[r] = "send" /\ pc'[r] = "lost" /\ Settles(r, "error")
     \/ pc[r] \in {"findOne", "getGasPrice"} /\ pc'[r] = "end" /\ Settles(r, "error")
  /\ tx'[r] = tx[r] \/ (pc[r] = "send" /\ tx'[r] = "pool")

RequestStep(r) == Stays(r) \/ Starts(r) \/ GoesOn(r) \/ Sends(r) \/ Fails(r)

\* A request that is not in S stays, when the requests of S are put in the pool.
LEMMA OthersStay ==
  ASSUME SendInv, NEW S \in SUBSET {q \in Requests : pc[q] = "send"}, Pooled(S),
         NEW r \in Requests \ S,
         pc'[r] = pc[r], answer'[r] = answer[r], nonce'[r] = nonce[r]
  PROVE  Stays(r)
BY PooledFacts DEF Stays

LEMMA RejectedFails ==
  ASSUME SendInv, NEW r \in Requests, pc[r] \in CallKinds, Rejected(r), UNCHANGED nonce,
         UNCHANGED tx \/ (pc[r] = "send" /\ Pooled({r})),
         NEW q \in Requests
  PROVE  RequestStep(q)
<1>0. TypeOK
  BY DEF SendInv
<1>1. CASE q = r
  <2>1. tx'[r] = tx[r] \/ (pc[r] = "send" /\ tx'[r] = "pool")
    BY PooledFacts DEF Pooled
  <2>2. Fails(r)
    BY <1>0, <2>1 DEF TypeOK, Fails, Rejected, GoTo, Answer, Settles, CallKinds
  <2> QED
    BY <1>1, <2>2 DEF RequestStep
<1>2. CASE q # r
  <2>1. pc'[q] = pc[q] /\ answer'[q] = answer[q] /\ nonce'[q] = nonce[q]
    BY <1>0, <1>2 DEF TypeOK, Rejected, GoTo, Answer
  <2>2. Stays(q)
    BY <1>2, <2>1, OthersStay DEF Stays
  <2> QED
    BY <2>2 DEF RequestStep
<1> QED
  BY <1>1, <1>2

LEMMA RequestSteps ==
  ASSUME SendInv, [Next]_vars, NEW q \in Requests
  PROVE  RequestStep(q)
<1>0. TypeOK
  BY DEF SendInv
<1>1. ASSUME NEW r \in Requests, Arrive(r)
      PROVE  RequestStep(q)
  <2>1. CASE q = r
    BY <1>0, <1>1, <2>1 DEF Arrive, GoTo, NextCall, TypeOK, RequestStep, Starts
  <2>2. CASE q # r
    BY <1>0, <1>1, <2>2 DEF Arrive, GoTo, TypeOK, RequestStep, Stays
  <2> QED
    BY <2>1, <2>2
<1>2. ASSUME NEW r \in Requests, Read(r) \/ CheckBalance(r) \/ Sign(r)
      PROVE  RequestStep(q)
  <2>1. pc[r] \in CallKinds \ {"send"} /\ GoTo(r, NextCall(r)) /\ UNCHANGED tx
    BY <1>2 DEF Read, CheckBalance, Sign, Awaiting, CallKinds
  <2>2. CASE q = r
    <3>1. /\ pc'[r] = NextCall(r) /\ tx'[r] = tx[r]
          /\ pc[r] = "signTransaction" => nonce'[r] = mined[Signer(r)]
      BY <1>0, <1>2, <2>1 DEF GoTo, Read, CheckBalance, Sign, Awaiting, nextNonce, TypeOK
    <3>2. \/ answer'[r] = answer[r] /\ (pc[r] \in {"getBalance", "balanceOf"} => sufficient(r))
          \/ pc[r] \in {"getBalance", "balanceOf"} /\ Settles(r, "refused")
      BY <1>0, <1>2 DEF Read, CheckBalance, Sign, Awaiting, Answer, Settles, TypeOK
    <3> QED
      BY <2>1, <2>2, <3>1, <3>2 DEF RequestStep, GoesOn
  <2>3. CASE q # r
    BY <1>0, <1>2, <2>1, <2>3 DEF Read, CheckBalance, Sign, GoTo, Answer, TypeOK, RequestStep, Stays
  <2> QED
    BY <2>2, <2>3
<1>3. ASSUME NEW r \in Requests, Send(r)
      PROVE  RequestStep(q)
  <2>1. pc[r] = "send" /\ GoTo(r, "end") /\ UNCHANGED nonce
    BY <1>3 DEF Send, Sending, Awaiting
  <2>2. CASE q = r
    <3>1. Accept(r) => tx'[r] = "pool"
      BY DEF Accept, Pooled
    <3> QED
      BY <1>0, <1>3, <2>1, <2>2, <3>1 DEF Send, Refuse, GoTo, Answer, TypeOK, RequestStep, Sends, Settles
  <2>3. CASE q # r
    <3>1. pc'[q] = pc[q] /\ answer'[q] = answer[q] /\ nonce'[q] = nonce[q]
      BY <1>0, <1>3, <2>1, <2>3 DEF Send, GoTo, Answer, TypeOK
    <3>2. Pooled({r}) \/ UNCHANGED tx
      BY <1>3 DEF Send, Accept, Refuse
    <3>3. Stays(q)
      BY <2>1, <2>3, <3>1, <3>2, OthersStay DEF Stays
    <3> QED
      BY <3>3 DEF RequestStep
  <2> QED
    BY <2>2, <2>3
<1>4. ASSUME NEW r \in Requests, RejectClosed(r) \/ RejectCall(r)
      PROVE  RequestStep(q)
  <2>1. pc[r] \in CallKinds
    BY <1>0, <1>4, SendAssumption DEF RejectClosed, RejectCall, Fault, TypeOK, CallKinds
  <2> QED
    BY <1>4, <2>1, RejectedFails DEF RejectClosed, RejectCall, Accept
<1>5. ASSUME NEW r \in Requests, Mine(r)
      PROVE  RequestStep(q)
  <2>1. tx[r] = "pool" /\ UNCHANGED <<pc, answer, nonce>>
    BY <1>5 DEF Mine
  <2>2. \E x \in {"mined", "reverted"} : tx' = [tx EXCEPT ![r] = x]
    BY <1>5 DEF Mine
  <2>3. tx'[r] \in {"mined", "reverted"} /\ (q # r => tx'[q] = tx[q])
    BY <1>0, <2>2 DEF TypeOK
  <2> QED
    BY <1>5, <2>1, <2>3 DEF RequestStep, Stays
<1>6. ASSUME NEW calls \in SUBSET CallKinds, "send" \in calls, Interrupt(calls)
      PROVE  RequestStep(q)
  <2>1. PICK S \in SUBSET {r \in Requests : pc[r] = "send" /\ Acceptable(r)} : Pooled(S)
    BY <1>6 DEF Interrupt
  <2>2. S \in SUBSET {r \in Requests : pc[r] = "send"}
    OBVIOUS
  <2>3. /\ pc'[q] = IF pc[q] \in calls THEN "hung" ELSE pc[q]
        /\ UNCHANGED <<answer, nonce>>
    BY <1>6 DEF Interrupt
  <2>4. CASE pc[q] = "send"
    <3>1. tx'[q] = tx[q] \/ tx'[q] = "pool"
      BY <2>1, <2>2, <2>4, PooledFacts DEF SendInv, Unsent, CallKinds
    <3> QED
      BY <1>6, <2>3, <2>4, <3>1 DEF RequestStep, Fails
  <2>5. CASE pc[q] \in calls \ {"send"}
    <3>1. tx'[q] = tx[q]
      BY <2>1, <2>2, <2>5, PooledFacts DEF SendInv, Unsent, CallKinds
    <3> QED
      BY <2>3, <2>5, <3>1 DEF RequestStep, Fails
  <2>6. CASE pc[q] \notin calls
    <3>1. q \notin S
      BY <1>6, <2>6
    <3>2. Stays(q)
      BY <2>1, <2>2, <2>3, <2>6, <3>1, OthersStay
    <3> QED
      BY <3>2 DEF RequestStep
  <2> QED
    BY <2>4, <2>5, <2>6
<1>7. CASE Reconnect \/ UNCHANGED vars
  BY <1>7 DEF Reconnect, vars, RequestStep, Stays
<1>8. CASE WsClose \/ Crash
  BY <1>6, <1>8 DEF WsClose, Crash, CallKinds
<1> QED
  BY <1>1, <1>2, <1>3, <1>4, <1>5, <1>7, <1>8 DEF Next, Handle

\* The accounts and the contract change only when a transaction is mined.
LEMMA ChainSteps ==
  ASSUME [Next]_vars
  PROVE  UNCHANGED chainVars \/ \E r \in Requests : Mine(r)
BY DEF Next, Handle, Arrive, Read, CheckBalance, Sign, Send, Sending, Awaiting, RejectCall,
   RejectClosed, WsClose, Crash, Interrupt, Reconnect, vars

-----------------------------------------------------------------------------
\* A promise is settled for good, and an outcome stays one.
LEMMA AnswerStays ==
  ASSUME SendInv, NEW r \in Requests, RequestStep(r), answer[r] # "none"
  PROVE  answer'[r] = answer[r]
BY DEF RequestStep, Stays, Starts, GoesOn, Sends, Fails, Settles

LEMMA OverStays ==
  ASSUME SendInv, NEW r \in Requests, RequestStep(r), Over(r)
  PROVE  Over(r)'
<1>1. answer[r] # "none" => answer'[r] = answer[r]
  BY AnswerStays
<1>2. pc[r] = "hung" => pc'[r] = "hung"
  BY DEF RequestStep, Stays, Starts, GoesOn, Sends, Fails, CallKinds
<1>3. answer[r] = "hash" /\ tx[r] \in {"mined", "reverted"} => tx'[r] = tx[r]
  BY DEF SendInv, Settled, RequestStep, Stays, Starts, GoesOn, Sends, Fails, CallKinds
<1> QED
  BY <1>1, <1>2, <1>3 DEF Over

\* As long as replies to sends arrive, the caller of a request answered with an
\* error may retry it: the request has no transaction.
THEOREM ErrorsMayBeRetried == Spec => []ErrorIsNotSent
<1>1. Init => ErrorIsNotSent
  BY DEF Init, ErrorIsNotSent
<1>2. SendInv /\ ErrorIsNotSent /\ [Next]_vars => ErrorIsNotSent'
  <2> SUFFICES ASSUME SendInv, ErrorIsNotSent, [Next]_vars, NEW r \in Requests,
                      answer'[r] = "error", pc'[r] # "lost"
               PROVE  tx'[r] = "none"
    BY DEF ErrorIsNotSent
  <2>0. RequestStep(r)
    BY RequestSteps
  <2>1. CASE answer[r] = "error"
    <3>1. pc[r] \in {"end", "lost"}
      BY <2>1 DEF SendInv, Settled
    <3>2. Stays(r)
      BY <2>0, <3>1 DEF RequestStep, Starts, GoesOn, Sends, Fails, CallKinds
    <3> QED
      BY <2>1, <3>2 DEF Stays, ErrorIsNotSent
  <2>2. CASE answer[r] # "error"
    <3>1. answer[r] = "none"
      BY <2>0, <2>2, AnswerStays
    <3>2. \/ Sends(r) /\ tx'[r] = tx[r]
          \/ Fails(r) /\ pc[r] # "send" /\ tx'[r] = tx[r]
      BY <2>0, <2>2, <3>1 DEF RequestStep, Stays, Starts, GoesOn, Sends, Fails, Settles
    <3>3. pc[r] \in CallKinds
      BY <3>2 DEF Sends, Fails, CallKinds
    <3> QED
      BY <3>2, <3>3 DEF SendInv, Unsent
  <2> QED
    BY <2>1, <2>2
<1> QED
  BY <1>1, <1>2, SendInvariant, PTL DEF Spec

-----------------------------------------------------------------------------
\* A request that was made waited for the outcomes its caller waits for.
Waited(r) == pc[r] # "new" => \A q \in After[r] : Over(q)
QueueInv == SendInv /\ (\A r \in Requests : Waited(r)) /\ PendingIsKept

\* A request with an outcome that is no refusal sends nothing any more.
LEMMA OverIsDone ==
  ASSUME SendInv, NEW r \in Requests, Over(r), answer[r] # "refused"
  PROVE  pc[r] # "send"
BY DEF SendInv, Settled, Over

LEMMA QueueInvNext == QueueInv /\ [Next]_vars => QueueInv'
<1> SUFFICES ASSUME QueueInv, [Next]_vars PROVE QueueInv'
  OBVIOUS
<1>0. SendInv /\ SendInv' /\ \A r \in Requests : RequestStep(r)
  BY SendInvNext, RequestSteps DEF QueueInv
<1>1. \A r \in Requests : Over(r) => Over(r)'
  BY <1>0, OverStays
<1>2. ASSUME NEW r \in Requests
      PROVE  Waited(r)'
  <2>1. After[r] \subseteq Requests
    BY SendAssumption
  <2>2. CASE pc[r] = "new" /\ pc'[r] # "new"
    <3>1. Starts(r)
      BY <1>0, <2>2 DEF RequestStep, Stays, GoesOn, Sends, Fails, CallKinds
    <3> QED
      BY <1>1, <2>1, <3>1 DEF Starts, Waited
  <2>3. CASE pc[r] # "new"
    BY <1>1, <2>1, <2>3 DEF QueueInv, Waited
  <2> QED
    BY <2>2, <2>3 DEF Waited
<1>3. ASSUME NEW r \in Requests, Queued(Signer(r)), ~RefusedBefore(r)', answer'[r] = "hash"
      PROVE  tx'[r] \in {"pool", "mined", "reverted"}
  <2>0. After[r] \subseteq Requests /\ RequestStep(r)
    BY <1>0, SendAssumption
  <2>1. ~RefusedBefore(r)
    <3>1. \A q \in Requests : answer[q] = "refused" => answer'[q] = "refused"
      BY <1>0, AnswerStays
    <3> QED
      BY <1>3, <2>0, <3>1 DEF RefusedBefore
  <2>2. CASE answer[r] # "hash"
    <3>1. answer[r] = "none"
      BY <1>0, <1>3, <2>2, AnswerStays
    <3> QED
      BY <1>3, <2>0, <3>1 DEF RequestStep, Stays, Starts, GoesOn, Sends, Fails, Settles
  <2>3. CASE answer[r] = "hash"
    <3>1. tx[r] \in {"pool", "mined", "reverted"}
      BY <1>3, <2>1, <2>3 DEF QueueInv, PendingIsKept, IsPending
    <3>2. pc[r] = "end" /\ Stays(r)
      BY <1>0, <2>3, <2>0
         DEF SendInv, Settled, RequestStep, Starts, GoesOn, Sends, Fails, CallKinds
    <3>3. ASSUME NEW s \in Requests, pc[s] = "send", r \in Rivals(s)
          PROVE  FALSE
      <4>1. tx[r] = "pool" /\ Signer(s) = Signer(r) /\ s # r
        BY <3>2, <3>3 DEF Rivals
      <4>2. CASE r \in After[s]
        <5>1. Over(r)
          BY <3>3, <4>2 DEF QueueInv, Waited
        <5> QED
          BY <2>3, <3>2, <4>1, <5>1 DEF Over
      <4>3. CASE s \in After[r]
        <5>1. Over(s) /\ answer[s] # "refused"
          BY <2>1, <3>2, <4>3 DEF QueueInv, Waited, RefusedBefore
        <5> QED
          BY <1>0, <3>3, <5>1, OverIsDone
      <4> QED
        BY <1>3, <4>1, <4>2, <4>3 DEF Queued
    <3> QED
      BY <3>1, <3>2, <3>3 DEF Stays
  <2> QED
    BY <2>2, <2>3
<1>4. PendingIsKept'
  BY <1>3 DEF PendingIsKept, IsPending, Queued, RefusedBefore
<1> QED
  BY <1>0, <1>2, <1>4 DEF QueueInv

\* A transaction answered with a hash stays in the pool or goes into the chain,
\* when the account's requests wait for one another and for none that was
\* refused: no reply lost with the connection, no fault and no other account's
\* request lets another replace it.
THEOREM HashesAreKept == Spec => []PendingIsKept
<1>1. Init => QueueInv
  BY SendInvInit DEF Init, QueueInv, Waited, PendingIsKept, IsPending
<1>2. QueueInv => PendingIsKept
  BY DEF QueueInv
<1> QED
  BY <1>1, <1>2, QueueInvNext, PTL DEF Spec

-----------------------------------------------------------------------------
\* Every address holds a word.
LEMMA WordFacts ==
  ASSUME NEW b \in [0..N -> 0..MaxUint]
  PROVE  /\ \A a \in 0..N : b[a] \in Nat /\ b[a] <= MaxUint
         /\ \A a \in Addresses : a \in 0..N /\ b[a] \in Nat
BY ContractAssumption DEF Addresses

LEMMA BalanceFacts ==
  ASSUME TypeOK
  PROVE  /\ balances \in [0..N -> 0..MaxUint]
         /\ \A a \in 0..N : balances[a] \in Nat /\ balances[a] <= MaxUint
         /\ \A a \in Addresses : a \in 0..N /\ balances[a] \in Nat
<1>1. balances \in [0..N -> 0..MaxUint]
  BY DEF TypeOK, Token!TypeOK, Token!Address, Token!Uint
<1> QED
  BY <1>1, WordFacts

\* The tokens of an address fall only when a transfer of its own is mined.
LEMMA TokensFall ==
  ASSUME SendInv, [Next]_vars, NEW a \in Addresses, balances'[a] < balances[a]
  PROVE  \E q \in Requests : /\ From[q] = a /\ Via[q] \in TokenTransfers
                             /\ tx[q] = "pool" /\ tx'[q] = "mined"
<1>1. /\ balances \in [0..N -> 0..MaxUint] /\ a \in 0..N
      /\ \A b \in 0..N : balances[b] \in Nat /\ balances[b] <= MaxUint
  BY BalanceFacts DEF SendInv
<1>0. balances' # balances
  <2>1. balances[a] \in Nat
    BY <1>1
  <2> QED
    BY <2>1
<1>2. ~UNCHANGED chainVars
  BY <1>0 DEF chainVars, tokenVars
<1>3. PICK r \in Requests : Mine(r)
  BY <1>2, ChainSteps
<1>4. ~UNCHANGED tokenVars
  BY <1>0 DEF tokenVars
<1>5. /\ Via[r] \in TokenTransfers /\ Token!Move(From[r], To[r], Amount[r])
      /\ tx[r] = "pool" /\ tx' = [tx EXCEPT ![r] = "mined"]
  BY <1>3, <1>4 DEF Mine, Token!transfer
<1>6. tx'[r] = "mined"
  BY <1>5 DEF SendInv, TypeOK
<1> DEFINE debited == [balances EXCEPT ![From[r]] = @ - Amount[r]]
<1>7. /\ From[r] \in 0..N /\ To[r] \in 0..N /\ Amount[r] \in Nat /\ MaxUint \in Nat
      /\ Amount[r] <= balances[From[r]]
      /\ balances' = [debited EXCEPT ![To[r]] = Token!Plus(debited[To[r]], Amount[r])]
      /\ Token!Fits(debited[To[r]], Amount[r])
  BY <1>1, <1>5, SignerFacts, ContractAssumption DEF Token!Move, Addresses
<1>8. a = From[r]
  <2> SUFFICES ASSUME a # From[r] PROVE FALSE
    OBVIOUS
  <2>1. debited[a] = balances[a]
    BY <1>1
  <2>2. CASE a # To[r]
    BY <1>1, <1>7, <2>1, <2>2
  <2>3. CASE a = To[r]
    <3>1. balances'[a] = Token!Plus(balances[a], Amount[r]) /\ Token!Fits(balances[a], Amount[r])
      BY <1>1, <1>7, <2>1, <2>3
    <3> QED
      BY <1>1, <1>7, <3>1 DEF Token!Plus, Token!Fits
  <2> QED
    BY <2>2, <2>3
<1> QED
  BY <1>5, <1>6, <1>8

\* A transaction once mined, reverted or replaced stays so, and one that was
\* sent stays sent.
LEMMA TxStays ==
  ASSUME SendInv, NEW r \in Requests, RequestStep(r)
  PROVE  /\ tx[r] \in {"mined", "reverted", "replaced"} => tx'[r] = tx[r]
         /\ tx[r] # "none" => tx'[r] # "none"
BY DEF SendInv, Unsent, RequestStep, Stays, Starts, GoesOn, Sends, Fails, CallKinds

CheckedTransfers == TokenTransfers \ {"sendWithdrawalByMnemonic"}
Covered(r) ==
  \/ Amount[r] <= balances[From[r]]
  \/ \E q \in Requests \ {r} :
       From[q] = From[r] /\ Via[q] \in TokenTransfers /\ tx[q] = "mined"

\* From its balance check until it is mined, a transfer that was not refused
\* has the tokens it moves, unless another request took them.
IsCovered(r) ==
  /\ Via[r] \in CheckedTransfers /\ answer[r] # "refused"
  /\ pc[r] \in {"signTransaction", "send"} \/ tx[r] = "pool"
  => Covered(r)
RaceInv == SendInv /\ (\A r \in Requests : IsCovered(r)) /\ RevertedByRace

LEMMA CoveredStays ==
  ASSUME SendInv, [Next]_vars, NEW r \in Requests, Covered(r), tx'[r] # "mined"
  PROVE  Covered(r)'
<1>1. \A q \in Requests : tx[q] = "mined" => tx'[q] = "mined"
  BY RequestSteps, TxStays
<1>2. CASE \E q \in Requests \ {r} :
             From[q] = From[r] /\ Via[q] \in TokenTransfers /\ tx[q] = "mined"
  BY <1>1, <1>2 DEF Covered
<1>3. CASE Amount[r] <= balances[From[r]]
  <2>1. CASE balances'[From[r]] < balances[From[r]]
    BY <2>1, SignerFacts, TokensFall DEF Covered
  <2>2. CASE ~(balances'[From[r]] < balances[From[r]])
    <3>1. balances[From[r]] \in Nat /\ balances'[From[r]] \in Nat
      <4>1. TypeOK /\ TypeOK'
        BY SendInvNext DEF SendInv
      <4>2. balances' \in [0..N -> 0..MaxUint]
        BY <4>1 DEF TypeOK, Token!TypeOK, Token!Address, Token!Uint
      <4>3. \A a \in Addresses : balances'[a] \in Nat
        BY <4>2, WordFacts
      <4> QED
        BY <4>1, <4>3, BalanceFacts, SignerFacts
    <3> QED
      BY <1>3, <2>2, <3>1, SignerFacts DEF Covered
  <2> QED
    BY <2>1, <2>2
<1> QED
  BY <1>2, <1>3 DEF Covered

LEMMA RaceInvNext == RaceInv /\ [Next]_vars => RaceInv'
<1> SUFFICES ASSUME RaceInv, [Next]_vars PROVE RaceInv'
  OBVIOUS
<1>0. SendInv /\ SendInv' /\ \A r \in Requests : RequestStep(r)
  BY SendInvNext, RequestSteps DEF RaceInv
<1>1. ASSUME NEW r \in Requests, Via[r] \in CheckedTransfers, answer'[r] # "refused",
             pc'[r] \in {"signTransaction", "send"} \/ tx'[r] = "pool"
      PROVE  Covered(r)'
  <2>1. answer[r] # "refused"
    BY <1>0, <1>1, AnswerStays
  <2>2. tx'[r] # "mined"
    BY <1>0, <1>1 DEF SendInv, Unsent, CallKinds
  <2>3. Covered(r)
    <3>1. CASE Stays(r) \/ Sends(r) \/ Fails(r)
      <4>1. pc[r] \in {"signTransaction", "send"} \/ tx[r] = "pool"
        BY <1>1, <3>1 DEF Stays, Sends, Fails
      <4> QED
        BY <1>1, <2>1, <4>1 DEF RaceInv, IsCovered
    <3>2. CASE Starts(r)
      <4>1. pc'[r] # "send" /\ (pc'[r] = "signTransaction" => Via[r] \in EtherMethods)
        BY <3>2, ChainFacts DEF Starts, EtherMethods
      <4>2. tx'[r] = "none"
        BY <1>0, <3>2 DEF Starts, SendInv, Unsent
      <4> QED
        BY <1>1, <4>1, <4>2 DEF CheckedTransfers, TokenTransfers
    <3>3. CASE GoesOn(r)
      <4>1. tx'[r] # "pool" /\ pc[r] \in CallsOf(r) /\ answer[r] = "none"
        BY <1>0, <2>1, <3>3 DEF GoesOn, SendInv, Unsent, OnPath
      <4>2. pc[r] \in {"getBalance", "balanceOf", "signTransaction"}
        BY <1>1, <3>3, <4>1, NextFacts DEF GoesOn, CallKinds
      <4>3. pc[r] # "getBalance"
        BY <1>1, <4>1, ChainFacts DEF CheckedTransfers, TokenTransfers, EtherMethods
      <4>4. CASE pc[r] = "signTransaction"
        BY <1>1, <2>1, <4>4 DEF RaceInv, IsCovered
      <4>5. CASE pc[r] = "balanceOf"
        BY <1>1, <3>3, <4>1, <4>5 DEF GoesOn, Settles, sufficient, sufficientTokenBalance, Covered
      <4> QED
        BY <4>2, <4>3, <4>4, <4>5
    <3> QED
      BY <1>0, <3>1, <3>2, <3>3 DEF RequestStep
  <2> QED
    BY <1>0, <2>2, <2>3, CoveredStays
<1>2. ASSUME NEW r \in Requests, Via[r] \in CheckedTransfers, tx'[r] = "reverted",
             answer'[r] # "refused"
      PROVE  \E q \in Requests \ {r} :
               From[q] = From[r] /\ Via[q] \in TokenTransfers /\ tx'[q] = "mined"
  <2>1. answer[r] # "refused"
    BY <1>0, <1>2, AnswerStays
  <2>2. \A q \in Requests : tx[q] = "mined" => tx'[q] = "mined"
    BY <1>0, TxStays
  <2>3. CASE tx[r] = "reverted"
    BY <1>2, <2>1, <2>2, <2>3 DEF RaceInv, RevertedByRace, CheckedTransfers
  <2>4. CASE tx[r] # "reverted"
    <3>1. tx[r] = "pool" /\ Mine(r)
      BY <1>0, <1>2, <2>4 DEF RequestStep, Stays, Starts, GoesOn, Sends, Fails
    <3>2. Amount[r] > balances[From[r]]
      BY <1>0, <1>2, <3>1 DEF Mine, CheckedTransfers, SendInv, TypeOK
    <3>3. balances[From[r]] \in Nat /\ Amount[r] \in Nat
      BY <1>0, BalanceFacts, SignerFacts DEF SendInv
    <3> QED
      BY <1>2, <2>1, <2>2, <3>1, <3>2, <3>3 DEF RaceInv, IsCovered, Covered
  <2> QED
    BY <2>3, <2>4
<1>3. RevertedByRace'
  BY <1>2 DEF RevertedByRace, CheckedTransfers
<1>4. \A r \in Requests : IsCovered(r)'
  BY <1>1 DEF IsCovered
<1> QED
  BY <1>0, <1>3, <1>4 DEF RaceInv

\* A transfer whose balance check succeeded is reverted only when another request
\* of its sender moved tokens in between, whatever else interleaves.
THEOREM RevertsAreRaces == Spec => []RevertedByRace
<1>1. Init => RaceInv
  BY SendInvInit DEF Init, RaceInv, IsCovered, RevertedByRace
<1>2. RaceInv => RevertedByRace
  BY DEF RaceInv
<1> QED
  BY <1>1, <1>2, RaceInvNext, PTL DEF Spec

-----------------------------------------------------------------------------
\* The ether of an account falls, and its nonce rises, only when a transaction
\* it signed is mined.
LEMMA AccountSteps ==
  ASSUME SendInv, [Next]_vars, NEW a \in Addresses,
         eth'[a] < eth[a] \/ mined'[a] # mined[a]
  PROVE  \E q \in Requests : Signer(q) = a /\ tx[q] = "pool"
<1>0. eth \in [Addresses -> Nat] /\ mined \in [Addresses -> Nat]
  BY DEF SendInv, TypeOK
<1>1. eth' # eth \/ mined' # mined
  <2>1. eth[a] \in Nat
    BY <1>0
  <2> QED
    BY <2>1
<1>2. ~UNCHANGED chainVars
  BY <1>1 DEF chainVars
<1>3. PICK r \in Requests : Mine(r)
  BY <1>2, ChainSteps
<1>4. a = Signer(r)
  <2> SUFFICES ASSUME a # Signer(r) PROVE FALSE
    OBVIOUS
  <2>1. mined'[a] = mined[a]
    BY <1>0, <1>3 DEF Mine
  <2> DEFINE paid == [eth EXCEPT ![Signer(r)] = @ - Fee(r) - EtherSent(r)]
  <2>2. paid[a] = eth[a] /\ eth' = [paid EXCEPT ![To[r]] = paid[To[r]] + EtherSent(r)]
    BY <1>0, <1>3 DEF Mine, Pay
  <2> HIDE DEF paid
  <2>3. eth'[a] = eth[a] \/ eth'[a] = eth[a] + EtherSent(r)
    <3>1. DOMAIN paid = Addresses
      BY <1>0 DEF paid
    <3> QED
      BY <2>2, <3>1
  <2> QED
    BY <1>0, <2>1, <2>3, SignerFacts
<1> QED
  BY <1>3, <1>4 DEF Mine

Rivalled(r) == \E q \in Requests \ {r} : Signer(q) = Signer(r) /\ tx[q] # "none"

\* From its balance check until its send, an ether transfer that was not refused
\* can pay its cost and has the next nonce, unless its account sent another.
IsPayable(r) ==
  Via[r] = "sendTransactionByMnemonic" =>
    /\ pc[r] \in {"signTransaction", "send"} /\ answer[r] # "refused"
         => Cost(r) <= eth[Signer(r)] \/ Rivalled(r)
    /\ pc[r] = "send" => nonce[r] = mined[Signer(r)] \/ Rivalled(r)
NodeInv == SendInv /\ (\A r \in Requests : IsPayable(r)) /\ NodeRefusesByRace

\* What holds of the account of an unsent request goes on to hold, or another
\* request of the account was sent.
LEMMA AccountStays ==
  ASSUME SendInv, [Next]_vars, NEW r \in Requests, tx[r] = "none"
  PROVE  /\ Rivalled(r) => Rivalled(r)'
         /\ \/ eth'[Signer(r)] >= eth[Signer(r)] /\ mined'[Signer(r)] = mined[Signer(r)]
            \/ Rivalled(r)'
         /\ eth[Signer(r)] \in Nat /\ eth'[Signer(r)] \in Nat /\ mined[Signer(r)] \in Nat
<1>1. \A q \in Requests : tx[q] # "none" => tx'[q] # "none"
  BY RequestSteps, TxStays
<1>2. Rivalled(r) => Rivalled(r)'
  BY <1>1 DEF Rivalled, Signer
<1>3. eth[Signer(r)] \in Nat /\ eth'[Signer(r)] \in Nat /\ mined[Signer(r)] \in Nat
  <2>1. TypeOK /\ TypeOK'
    BY SendInvNext DEF SendInv
  <2> QED
    BY <2>1, SignerFacts DEF TypeOK
<1>4. CASE eth'[Signer(r)] < eth[Signer(r)] \/ mined'[Signer(r)] # mined[Signer(r)]
  <2>1. PICK q \in Requests : Signer(q) = Signer(r) /\ tx[q] = "pool"
    BY <1>4, AccountSteps, SignerFacts
  <2> QED
    BY <1>2, <1>3, <2>1 DEF Rivalled
<1> QED
  BY <1>2, <1>3, <1>4

LEMMA NodeInvNext == NodeInv /\ [Next]_vars => NodeInv'
<1> SUFFICES ASSUME NodeInv, [Next]_vars PROVE NodeInv'
  OBVIOUS
<1>0. SendInv /\ SendInv' /\ \A r \in Requests : RequestStep(r)
  BY SendInvNext, RequestSteps DEF NodeInv
<1> SUFFICES ASSUME NEW r \in Requests, Via[r] = "sendTransactionByMnemonic"
             PROVE  /\ IsPayable(r)'
                    /\ answer'[r] = "error" /\ pc'[r] = "end" => Rivalled(r)'
  BY <1>0 DEF NodeInv, IsPayable, NodeRefusesByRace, Rivalled, Signer
<1>1. answer'[r] # "refused" => answer[r] # "refused"
  BY <1>0, AnswerStays
<1>2. IsPayable(r)'
  <2> SUFFICES ASSUME pc'[r] \in {"signTransaction", "send"}
               PROVE  /\ answer'[r] # "refused" => (Cost(r) <= eth[Signer(r)] \/ Rivalled(r))'
                      /\ pc'[r] = "send" => (nonce[r] = mined[Signer(r)] \/ Rivalled(r))'
    BY DEF IsPayable
  <2>0. UNCHANGED Cost(r) /\ UNCHANGED Signer(r)
    BY DEF Cost, EtherSent, Fee, Signer
  <2>1. tx[r] = "none"
    <3>1. tx'[r] = "none"
      BY <1>0 DEF SendInv, Unsent, CallKinds
    <3> QED
      BY <1>0, <3>1, TxStays
  <2>2. CASE Stays(r)
    <3>1. IsPayable(r) /\ pc[r] = pc'[r] /\ nonce'[r] = nonce[r]
      BY <2>2 DEF NodeInv, Stays
    <3> QED
      BY <1>0, <1>1, <2>0, <2>1, <3>1, AccountStays, SignerFacts DEF IsPayable
  <2>3. CASE GoesOn(r)
    <3>1. pc[r] \in {"getBalance", "signTransaction"} /\ pc[r] \in CallsOf(r)
      BY <1>0, <2>3, ChainFacts DEF GoesOn, SendInv, OnPath
    <3>2. CASE pc[r] = "getBalance"
      <4>1. pc'[r] = "signTransaction"
        BY <2>3, <3>1, <3>2, NextFacts DEF GoesOn
      <4>2. answer'[r] # "refused" => sufficientBalance(r)
        BY <1>0, <2>3, <3>2 DEF GoesOn, Settles, sufficient, SendInv, Unsent, CallKinds
      <4>3. sufficientBalance(r) => Cost(r) <= eth[Signer(r)]
        BY SendAssumption DEF sufficientBalance, Cost, EtherSent, Fee, Signer, EtherMethods
      <4> QED
        BY <1>0, <2>0, <2>1, <4>1, <4>2, <4>3, AccountStays, SignerFacts
    <3>3. CASE pc[r] = "signTransaction"
      <4>1. pc'[r] = "send" /\ nonce'[r] = mined[Signer(r)]
        BY <2>3, <3>1, <3>3, NextFacts DEF GoesOn
      <4>2. answer'[r] # "refused" => Cost(r) <= eth[Signer(r)] \/ Rivalled(r)
        BY <1>1, <3>3 DEF NodeInv, IsPayable
      <4> QED
        BY <1>0, <2>0, <2>1, <4>1, <4>2, AccountStays, SignerFacts
    <3> QED
      BY <3>1, <3>2, <3>3
  <2>4. CASE Starts(r)
    <3>1. Calls[Via[r]][1] = "getBalance"
      BY ChainFacts DEF CallsOf
    <3> QED
      BY <2>4, <3>1 DEF Starts
  <2>5. CASE Sends(r) \/ Fails(r)
    BY <2>5 DEF Sends, Fails
  <2> QED
    BY <1>0, <2>2, <2>3, <2>4, <2>5 DEF RequestStep
<1>3. ASSUME answer'[r] = "error", pc'[r] = "end"
      PROVE  Rivalled(r)'
  <2>1. CASE answer[r] = "error"
    <3>1. pc[r] \in {"end", "lost"}
      BY <1>0, <2>1 DEF SendInv, Settled
    <3>2. pc[r] = "end"
      BY <1>0, <1>3, <3>1 DEF RequestStep, Stays, Starts, GoesOn, Sends, Fails, CallKinds
    <3>3. Rivalled(r)
      BY <2>1, <3>2 DEF NodeInv, NodeRefusesByRace, Rivalled
    <3>4. \A q \in Requests : tx[q] # "none" => tx'[q] # "none"
      BY <1>0, TxStays
    <3> QED
      BY <3>3, <3>4 DEF Rivalled, Signer
  <2>2. CASE answer[r] # "error"
    <3>1. answer[r] = "none"
      BY <1>0, <1>3, <2>2, AnswerStays
    <3>2. pc[r] \notin {"findOne", "getGasPrice"}
      BY <1>0, ChainFacts DEF SendInv, OnPath, CallKinds
    <3>3. /\ pc[r] = "send"
          /\ nonce[r] < mined[Signer(r)] \/ Cost(r) > eth[Signer(r)] \/ Rivals(r) # {}
      BY <1>0, <1>3, <3>1, <3>2
         DEF RequestStep, Stays, Starts, GoesOn, Sends, Fails, Settles
    <3>4. tx[r] = "none"
      BY <1>0, <3>3 DEF SendInv, Unsent, CallKinds
    <3>5. Rivals(r) # {} => Rivalled(r)
      BY <3>4 DEF Rivals, Rivalled
    <3>6. eth[Signer(r)] \in Nat /\ mined[Signer(r)] \in Nat
      BY <3>4, <1>0, AccountStays
    <3>7. Rivalled(r)
      <4>1. /\ Cost(r) <= eth[Signer(r)] \/ Rivalled(r)
            /\ nonce[r] = mined[Signer(r)] \/ Rivalled(r)
        BY <3>1, <3>3 DEF NodeInv, IsPayable
      <4> QED
        BY <3>3, <3>5, <3>6, <4>1, SignerFacts
    <3> QED
      BY <1>0, <3>4, <3>7, AccountStays
  <2> QED
    BY <2>1, <2>2
<1> QED
  BY <1>2, <1>3

\* An ether transfer whose balance check succeeded is refused by the node only
\* when another request of its account was sent.
THEOREM RefusalsAreRaces == Spec => []NodeRefusesByRace
<1>1. Init => NodeInv
  BY SendInvInit DEF Init, NodeInv, IsPayable, NodeRefusesByRace
<1>2. NodeInv => NodeRefusesByRace
  BY DEF NodeInv
<1> QED
  BY <1>1, <1>2, NodeInvNext, PTL DEF Spec

-----------------------------------------------------------------------------
\* The constants of TokenSend are ones that MyToken allows.
LEMMA ContractIsAllowed == Token!TokenAssumption
BY ContractAssumption, SendAssumption DEF Token!TokenAssumption, Token!Uint, Token!Address

\* The requests, the node and the client together do to the contract only what
\* its functions allow: what is proved of MyToken holds of the balances here.
THEOREM SendsAreCalls == Spec => Token!Spec
<1>1. Init => Token!Init
  BY DEF Init
<1>2. [Next]_vars => [Token!Next]_(Token!vars)
  <2> SUFFICES ASSUME [Next]_vars PROVE [Token!Next]_(Token!vars)
    OBVIOUS
  <2>1. CASE UNCHANGED chainVars
    BY <2>1 DEF chainVars, tokenVars, Token!vars
  <2>2. ASSUME NEW r \in Requests, Mine(r)
        PROVE  [Token!Next]_(Token!vars)
    <3>1. CASE UNCHANGED tokenVars
      BY <3>1 DEF tokenVars, Token!vars
    <3>2. CASE Token!transfer(From[r], To[r], Amount[r])
      <4>1. From[r] \in Token!Sender /\ To[r] \in Token!Address
        BY SignerFacts, ContractAssumption DEF Addresses, Token!Sender, Token!Address
      <4>2. Token!CallBy(From[r])
        BY <3>2, <4>1 DEF Token!CallBy
      <4> QED
        BY <4>1, <4>2 DEF Token!Next
    <3> QED
      BY <2>2, <3>1, <3>2 DEF Mine
  <2> QED
    BY <2>1, <2>2, ChainSteps
<1> QED
  BY <1>1, <1>2, PTL DEF Spec, Token!Spec
=============================================================================
