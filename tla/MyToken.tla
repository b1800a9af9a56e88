------------------------------ MODULE MyToken ------------------------------
(***************************************************************************)
(* The token contract contracts/MyToken.sol: StandardToken, Burnable and   *)
(* Ownable as MyToken inherits and overrides them.  A call runs to its end *)
(* or reverts, so each function is one action and a failed require or      *)
(* SafeMath assertion is a guard.                                          *)
(***************************************************************************)
EXTENDS Integers

CONSTANTS
  N,                \* addresses 1..N exist besides the zero address
  MaxUint,          \* largest uint256
  INITIAL_SUPPLY,
  Values,           \* bound: amounts passed to the contract
  Spenders          \* bound: addresses that are given an allowance

Zero == 0
Address == 0..N
Uint == 0..MaxUint
Sender == 1..N      \* nobody holds the key of the zero address

ASSUME TokenAssumption ==
  /\ N \in Nat \ {0} /\ MaxUint \in Nat
  /\ INITIAL_SUPPLY \in Uint /\ Values \subseteq Uint /\ Spenders \subseteq Address

VARIABLES balances, allowed, totalSupply_, owner
vars == <<balances, allowed, totalSupply_, owner>>

TypeOK ==
  /\ balances \in [Address -> Uint]
  /\ allowed \in [Address -> [Address -> Uint]]
  /\ totalSupply_ \in Uint
  /\ owner \in Address

Init ==
  \E deployer \in Sender :
    /\ balances = [a \in Address |-> IF a = deployer THEN INITIAL_SUPPLY ELSE 0]
    /\ allowed = [a \in Address |-> [s \in Address |-> 0]]
    /\ totalSupply_ = INITIAL_SUPPLY
    /\ owner = deployer

-----------------------------------------------------------------------------
(* SafeMath: a sum wraps at the width of a word, and is then refused; a    *)
(* difference below zero is refused by the require before each of its uses.*)

Plus(a, b) == IF a + b > MaxUint THEN a + b - (MaxUint + 1) ELSE a + b
Fits(a, b) == Plus(a, b) >= a

\* Mutant: the balance of the receiver is read before the sender is debited.
MoveUnordered(from, to, value) ==
  /\ value <= balances[from]
  /\ Fits(balances[to], value)
  /\ balances' = [balances EXCEPT ![from] = @ - value, ![to] = Plus(balances[to], value)]

Move(from, to, value) ==
  LET debited == [balances EXCEPT ![from] = @ - value] IN
  /\ value <= balances[from]
  /\ Fits(debited[to], value)
  /\ balances' = [debited EXCEPT ![to] = Plus(@, value)]

Debit(from, value) == balances' = [balances EXCEPT ![from] = @ - value]

\* Mutant: the allowance is tested but not used up.
KeepAllowance(from, spender, value) ==
  value <= allowed[from][spender] /\ UNCHANGED allowed

UseAllowance(from, spender, value) ==
  /\ value <= allowed[from][spender]
  /\ allowed' = [allowed EXCEPT ![from][spender] = @ - value]

\* Mutant: Burnable's own functions, which anyone may call.
anyone(sender) == sender # Zero
onlyOwner(sender) == sender = owner

-----------------------------------------------------------------------------
\* Mutant: the destination may be the zero address (a burn by transfer).
transferAnywhere(sender, _to, _value) ==
  /\ _to \in Address
  /\ Move(sender, _to, _value)
  /\ UNCHANGED <<allowed, totalSupply_, owner>>

transfer(sender, _to, _value) ==
  /\ _to # Zero
  /\ Move(sender, _to, _value)
  /\ UNCHANGED <<allowed, totalSupply_, owner>>

transferFrom(sender, _from, _to, _value) ==
  /\ _to # Zero
  /\ UseAllowance(_from, sender, _value)
  /\ Move(_from, _to, _value)
  /\ UNCHANGED <<totalSupply_, owner>>

approve(sender, _spender, _value) ==
  /\ allowed' = [allowed EXCEPT ![sender][_spender] = _value]
  /\ UNCHANGED <<balances, totalSupply_, owner>>

increaseApproval(sender, _spender, _addedValue) ==
  /\ Fits(allowed[sender][_spender], _addedValue)
  /\ allowed' = [allowed EXCEPT ![sender][_spender] = Plus(@, _addedValue)]
  /\ UNCHANGED <<balances, totalSupply_, owner>>

\* Mutant: the subtraction is not cut off at zero.
decreaseApprovalBelow(sender, _spender, _subtractedValue) ==
  /\ allowed' = [allowed EXCEPT ![sender][_spender] = @ - _subtractedValue]
  /\ UNCHANGED <<balances, totalSupply_, owner>>

decreaseApproval(sender, _spender, _subtractedValue) ==
  /\ allowed' = [allowed EXCEPT ![sender][_spender] =
                   IF _subtractedValue >= @ THEN 0 ELSE @ - _subtractedValue]
  /\ UNCHANGED <<balances, totalSupply_, owner>>

burn(sender, _value) ==
  /\ onlyOwner(sender)
  /\ _value > 0 /\ balances[sender] >= _value
  /\ Debit(sender, _value)
  /\ totalSupply_' = totalSupply_ - _value
  /\ UNCHANGED <<allowed, owner>>

burnFrom(sender, _from, _value) ==
  /\ onlyOwner(sender)
  /\ _from # Zero /\ _value > 0 /\ balances[_from] >= _value
  /\ UseAllowance(_from, sender, _value)
  /\ Debit(_from, _value)
  /\ totalSupply_' = totalSupply_ - _value
  /\ UNCHANGED owner

transferOwnership(sender, newOwner) ==
  /\ onlyOwner(sender)
  /\ newOwner # Zero
  /\ owner' = newOwner
  /\ UNCHANGED <<balances, allowed, totalSupply_>>

-----------------------------------------------------------------------------
\* The calls a sender may make.
CallBy(sender) ==
  \/ \E a \in Address : transferOwnership(sender, a)
  \/ \E v \in Values :
       \/ burn(sender, v)
       \/ \E a \in Address : transfer(sender, a, v) \/ burnFrom(sender, a, v)
       \/ \E a, b \in Address : transferFrom(sender, a, b, v)
       \/ \E a \in Spenders : \/ approve(sender, a, v)
                              \/ increaseApproval(sender, a, v)
                              \/ decreaseApproval(sender, a, v)

Next == \E sender \in Sender : CallBy(sender)
Spec == Init /\ [][Next]_vars

-----------------------------------------------------------------------------
\* The balances 0..i add up to p[i], with no sum above the largest word.
PrefixSums ==
  {p \in [Address -> Uint] :
     p[0] = balances[0] /\ \A i \in Sender : p[i] = p[i - 1] + balances[i]}

\* The tokens of all addresses together are exactly the total supply, after
\* any sequence of transfers, self-transfers, delegated transfers and burns.
Conserved == \E p \in PrefixSums : p[N] = totalSupply_

\* The two balances of a transfer never add up to more than a word: the
\* assertion of SafeMath.add in transfer and transferFrom never fires.
AddNeverOverflows ==
  \A a, b \in Address : a # b => balances[a] + balances[b] <= MaxUint

\* No tokens are lost at the zero address ("use burn").
ZeroHoldsNothing == balances[Zero] = 0 /\ owner # Zero

\* The supply never grows, and shrinks only by a call of the owner.
SupplyShrinksByOwner ==
  [][/\ totalSupply_' <= totalSupply_
     /\ totalSupply_' < totalSupply_ => CallBy(owner)]_vars

\* A balance falls only by a call of its holder, or of a spender whose
\* allowance falls by as much.
FallIsAuthorised ==
  [][\A a \in Sender : balances'[a] < balances[a] =>
       \A s \in Sender \ {a} : CallBy(s) =>
         allowed[a][s] - allowed'[a][s] = balances[a] - balances'[a]]_vars
=============================================================================
