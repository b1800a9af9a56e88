------------------------- MODULE TransactionService -------------------------
(***************************************************************************)
(* What src/src/services/transaction.service.ts makes of a transaction of  *)
(* the node: its type, its parties, its tokens, its status, and the row    *)
(* that createAndSaveTransaction leaves for one not yet mined.  The intake *)
(* looks a Transfer event up by the same fields, so the two must agree.    *)
(***************************************************************************)
EXTENDS Integers, Sequences

CONSTANTS
  Logs,                     \* Transfer events the token contract can emit
  TxHash, Sender, Receiver, \* fields of an event, functions on Logs
  Value,                    \* tokens moved, in thousandths
  Method                    \* how the transaction of an event was made

\* A call of the token's transfer or transferFrom, a call of another contract
\* that moves tokens, or a call of the token that its ABI does not list.
Methods == {"transfer", "transferFrom", "contract", "unlisted"}

ASSUME LogsAssumption ==
  /\ DOMAIN TxHash = Logs /\ DOMAIN Sender = Logs /\ DOMAIN Receiver = Logs
  /\ Value \in [Logs -> Nat]
  /\ Method \in [Logs -> Methods]

\* The transaction of an event, as the node returns it.
TxData(l) ==
  [from |-> IF Method[l] = "transfer" THEN Sender[l] ELSE "spender",
   to |-> IF Method[l] = "contract" THEN "other" ELSE "token",
   method |-> Method[l], receiver |-> Receiver[l], value |-> Value[l]]

getTxTypeByData(txData) == IF txData.to = "token" THEN "ols" ELSE "eth"

\* Only a direct call of transfer has its receiver and amount decoded.
getFromToTokenAmountByTxDataAndType(txData, type) ==
  LET direct == type = "ols" /\ txData.method = "transfer" IN
  [from |-> txData.from,
   to |-> IF direct THEN txData.receiver ELSE IF type = "ols" THEN "" ELSE txData.to,
   tokenAmount |-> IF direct THEN txData.value ELSE 0]

\* decodeMethod answers undefined for a call it does not know, and reading its
\* name throws before anything is saved.
Decodes(txData) == getTxTypeByData(txData) = "ols" => txData.method # "unlisted"

\* The fields that a row of the table transaction is looked up by.
Key(l) == <<TxHash[l], Sender[l], Receiver[l], "ols">>
SavedKey(l) ==
  LET type == getTxTypeByData(TxData(l))
      parties == getFromToTokenAmountByTxDataAndType(TxData(l), type)
  IN  <<TxHash[l], parties.from, parties.to, type>>

Status == {"pending", "confirmed", "failed"}
Row == [status : Status, tokenAmount : Nat]
NoTx == [status |-> "none", tokenAmount |-> 0]

\* The row createAndSaveTransaction leaves for a transaction not yet mined.
PendingRow(l) ==
  LET type == getTxTypeByData(TxData(l)) IN
  [status |-> "pending",
   tokenAmount |-> getFromToTokenAmountByTxDataAndType(TxData(l), type).tokenAmount]
=============================================================================
