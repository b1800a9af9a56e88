--------------------------- MODULE WalletColumns ---------------------------
(***************************************************************************)
(* The amounts of u_ols_wallet: nullable double(10,2) columns of MySQL,    *)
(* read into JavaScript numbers, added to with parseFloat, and written     *)
(* back as strings.  Amounts count thousandths of a token.                 *)
(***************************************************************************)
EXTENDS Integers

CONSTANTS
  MaxColumn,    \* what a column can hold: 99999999.99 tokens in the code
  StrictSql     \* MySQL runs in strict mode

ASSUME ColumnAssumption ==
  /\ MaxColumn \in Nat /\ MaxColumn % 10 = 0
  /\ StrictSql \in BOOLEAN

\* NULL, and NaN, which is what parseFloat makes of it and of sums with it.
\* No amount is negative, so -1 is free for both.
NULL == -1
Column == NULL..MaxColumn

parsePlus(column, amount) == IF column = NULL THEN NULL ELSE column + amount

\* Two decimals are kept.
Rounded(value) == ((value + 5) \div 10) * 10

\* Strict mode refuses NaN and values out of range; otherwise NaN is stored as
\* 0 and a value out of range as the largest one.
Refused(value) == StrictSql /\ (value = NULL \/ Rounded(value) > MaxColumn)
Stored(value) ==
  IF value = NULL THEN 0
  ELSE IF Rounded(value) > MaxColumn THEN MaxColumn ELSE Rounded(value)

WalletRow == [amount : Column, charge_amount : Column, draw_amount : Column]
NoUser == [amount |-> 0, charge_amount |-> 0, draw_amount |-> 0]
NullUser == [amount |-> NULL, charge_amount |-> NULL, draw_amount |-> NULL]
=============================================================================
