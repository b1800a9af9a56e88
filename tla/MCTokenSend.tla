---------------------------- MODULE MCTokenSend ----------------------------
(***************************************************************************)
(* Instances of TokenSend for TLC: the manager (address 1) pays members,   *)
(* and members pass tokens and ether on.                                   *)
(***************************************************************************)
EXTENDS TokenSend

\* Two payments of the manager and one of each member.
ChainVia ==
  [r1 |-> "sendtokenfromadmin", r2 |-> "sendtokenfromadmin",
   r3 |-> "sendtokenbymnemonic", r4 |-> "sendtokenbymnemonic"]
ChainRequests == DOMAIN ChainVia
ChainFrom == [r1 |-> 1, r2 |-> 1, r3 |-> 2, r4 |-> 3]
ChainTo == [r1 |-> 2, r2 |-> 3, r3 |-> 3, r4 |-> 2]
ChainAmount == [r1 |-> 2, r2 |-> 3, r3 |-> 1, r4 |-> 1]
ChainAfter == [r \in ChainRequests |-> {}]
NoFee == [r \in ChainRequests |-> 0]
NoEther == [a \in Addresses |-> 0]

\* Three requests the manager signs, one after the other; the first member makes
\* two token transfers at once, and one of ether after the first of them.
MixVia ==
  [r1 |-> "sendtokenfromadmin", r2 |-> "sendTransactionByPrivateKey",
   r3 |-> "sendTokenByPrivateKey", r4 |-> "sendWithdrawalByMnemonic",
   r5 |-> "sendTransactionByMnemonic", r6 |-> "sendTokenWithNoEth"]
MixRequests == DOMAIN MixVia
MixFrom == [r1 |-> 1, r2 |-> 1, r3 |-> 2, r4 |-> 2, r5 |-> 2, r6 |-> 2]
MixTo == [r1 |-> 2, r2 |-> 2, r3 |-> 3, r4 |-> 3, r5 |-> 3, r6 |-> 3]
MixAmount == [r1 |-> 2, r2 |-> 2, r3 |-> 2, r4 |-> 1, r5 |-> 2, r6 |-> 1]
MixFee == [r \in MixRequests |-> 1]
MixAfter ==
  [r1 |-> {}, r2 |-> {"r1"}, r3 |-> {"r1"}, r4 |-> {"r1"}, r5 |-> {"r3"},
   r6 |-> {"r1", "r2", "r4", "r5"}]
MixEther == <<5, 2, 0>>
=============================================================================
