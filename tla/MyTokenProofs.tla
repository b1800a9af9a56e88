--------------------------- MODULE MyTokenProofs ---------------------------
(***************************************************************************)
(* Theorems about MyToken, for any number of addresses, any word size and  *)
(* any supply.                                                             *)
(***************************************************************************)
EXTENDS MyToken, TLAPS

\* p[i] is the sum of b[0..i], the sums do not decrease, and the last is t.
Sums(b, p, t) ==
  /\ p \in [Address -> Uint]
  /\ p[0] = b[0] /\ \A i \in Sender : p[i] = p[i - 1] + b[i]
  /\ \A i, j \in Address : i <= j => p[i] <= p[j]
  /\ p[N] = t

LEMMA AddressFacts ==
  /\ 0 \in Address /\ N \in Address /\ Zero \in Address
  /\ \A i \in Sender : i \in Address /\ i - 1 \in Address
  /\ \A i \in Address : i \in Nat /\ (i # 0 => i \in Sender)
BY TokenAssumption DEF Address, Sender, Zero

\* Each balance is at most the sum at its address, and two are at most all.
LEMMA SumsBound ==
  ASSUME NEW b \in [Address -> Uint], NEW p, NEW t, Sums(b, p, t)
  PROVE  /\ \A a \in Address : b[a] <= p[a] /\ p[a] <= t
         /\ \A a, c \in Address : a # c => b[a] + b[c] <= t
         /\ t \in Uint
<1>1. p \in [Address -> Uint] /\ t \in Uint
  BY AddressFacts DEF Sums
<1>2. ASSUME NEW a \in Address
      PROVE  b[a] <= p[a] /\ p[a] <= t
  <2>1. a <= N /\ 0 <= a
    BY TokenAssumption DEF Address
  <2>2. p[a] <= t
    BY <2>1, AddressFacts DEF Sums
  <2>3. CASE a = 0
    BY <1>1, <2>2, <2>3, AddressFacts, TokenAssumption DEF Sums, Uint
  <2>4. CASE a # 0
    <3>1. p[a] = p[a - 1] + b[a] /\ p[a - 1] \in Uint /\ b[a] \in Uint /\ p[a] \in Uint
      BY <1>1, <2>4, AddressFacts DEF Sums
    <3> QED
      BY <2>2, <3>1, TokenAssumption DEF Uint
  <2> QED
    BY <2>3, <2>4
<1>3. ASSUME NEW a \in Address, NEW c \in Address, a < c
      PROVE  b[a] + b[c] <= t
  <2>1. c \in Sender /\ c - 1 \in Address /\ a <= c - 1
    BY <1>3, TokenAssumption DEF Address, Sender
  <2>2. p[c] = p[c - 1] + b[c] /\ p[a] <= p[c - 1]
    BY <2>1 DEF Sums
  <2>3. p[c] <= t /\ b[a] <= p[a]
    BY <1>2
  <2>4. /\ p[c] \in Uint /\ p[c - 1] \in Uint /\ p[a] \in Uint
        /\ b[a] \in Uint /\ b[c] \in Uint /\ t \in Uint
    BY <1>1, <2>1
  <2> QED
    BY <2>2, <2>3, <2>4, TokenAssumption DEF Uint
<1>4. ASSUME NEW a \in Address, NEW c \in Address, a # c
      PROVE  b[a] + b[c] <= t
  <2>1. a < c \/ c < a
    BY <1>4, AddressFacts
  <2>2. b[a] \in Int /\ b[c] \in Int
    BY TokenAssumption DEF Uint
  <2> QED
    BY <1>3, <2>1, <2>2
<1> QED
  BY <1>1, <1>2, <1>4

\* Taking v from one balance takes v from the sums at and above its address.
LEMMA SumsDebit ==
  ASSUME NEW b \in [Address -> Uint], NEW p, NEW t, Sums(b, p, t),
         NEW a \in Address, NEW v \in Uint, v <= b[a]
  PROVE  Sums([b EXCEPT ![a] = @ - v],
              [i \in Address |-> IF i >= a THEN p[i] - v ELSE p[i]], t - v)
<1> DEFINE c == [b EXCEPT ![a] = @ - v]
           q == [i \in Address |-> IF i >= a THEN p[i] - v ELSE p[i]]
<1>0. p \in [Address -> Uint] /\ b[a] <= p[a] /\ a \in Nat
  BY SumsBound, AddressFacts DEF Sums
<1>1. q \in [Address -> Uint]
  <2>1. ASSUME NEW i \in Address
        PROVE  q[i] \in Uint
    <3>1. CASE i >= a
      <4>1. p[a] <= p[i]
        BY <3>1, AddressFacts DEF Sums
      <4>2. p[a] \in Uint /\ p[i] \in Uint /\ b[a] \in Uint
        BY <1>0
      <4> QED
        BY <1>0, <3>1, <4>1, <4>2, TokenAssumption DEF Uint
    <3>2. CASE ~(i >= a)
      BY <1>0, <3>2
    <3> QED
      BY <3>1, <3>2
  <2> QED
    BY <2>1
<1>2. q[0] = c[0]
  BY <1>0, AddressFacts, TokenAssumption DEF Sums, Uint
<1>3. ASSUME NEW i \in Sender
      PROVE  q[i] = q[i - 1] + c[i]
  <2>1. i \in Address /\ i - 1 \in Address /\ i \in Nat
    BY AddressFacts
  <2>2. p[i] = p[i - 1] + b[i]
    BY DEF Sums
  <2>3. p[i] \in Int /\ p[i - 1] \in Int /\ b[i] \in Int /\ v \in Int
    BY <1>0, <2>1, TokenAssumption DEF Uint
  <2>4. CASE i = a
    BY <1>0, <2>1, <2>2, <2>3, <2>4
  <2>5. CASE i # a
    <3>1. c[i] = b[i] /\ (i >= a <=> i - 1 >= a)
      BY <1>0, <2>1, <2>5
    <3> QED
      BY <2>1, <2>2, <2>3, <3>1
  <2> QED
    BY <2>4, <2>5
<1>4. ASSUME NEW i \in Address, NEW j \in Address, i <= j
      PROVE  q[i] <= q[j]
  <2>0. p[i] <= p[j] /\ i \in Nat /\ j \in Nat
    BY <1>4, AddressFacts DEF Sums
  <2>1. p[i] \in Int /\ p[j] \in Int /\ v \in Int
    BY <1>0, TokenAssumption DEF Uint
  <2>2. CASE i < a /\ a <= j
    <3>1. p[i] + b[a] <= p[a]
      <4>1. a \in Sender /\ a - 1 \in Address /\ i <= a - 1
        BY <2>0, <2>2, <1>0, TokenAssumption DEF Address, Sender
      <4>2. p[i] <= p[a - 1] /\ p[a] = p[a - 1] + b[a]
        BY <4>1 DEF Sums
      <4>3. p[a - 1] \in Int /\ p[a] \in Int /\ b[a] \in Int
        BY <1>0, <4>1, TokenAssumption DEF Uint
      <4> QED
        BY <2>1, <4>2, <4>3
    <3>2. p[a] <= p[j]
      BY <2>2 DEF Sums
    <3>3. p[a] \in Int /\ b[a] \in Int
      BY <1>0, TokenAssumption DEF Uint
    <3> QED
      BY <1>0, <2>0, <2>1, <2>2, <3>1, <3>2, <3>3
  <2>3. CASE ~(i < a /\ a <= j)
    BY <1>0, <1>4, <2>0, <2>1, <2>3
  <2> QED
    BY <2>2, <2>3
<1>5. q[N] = t - v
  BY <1>0, AddressFacts, TokenAssumption DEF Sums, Address
<1> HIDE DEF c, q
<1>6. Sums(c, q, t - v)
  BY <1>1, <1>2, <1>3, <1>4, <1>5 DEF Sums
<1> QED
  BY <1>6 DEF c, q

\* Adding v to one balance adds v to the sums at and above its address.
LEMMA SumsCredit ==
  ASSUME NEW b \in [Address -> Uint], NEW p, NEW t, Sums(b, p, t),
         NEW a \in Address, NEW v \in Uint, t + v <= MaxUint
  PROVE  Sums([b EXCEPT ![a] = @ + v],
              [i \in Address |-> IF i >= a THEN p[i] + v ELSE p[i]], t + v)
<1> DEFINE c == [b EXCEPT ![a] = @ + v]
           q == [i \in Address |-> IF i >= a THEN p[i] + v ELSE p[i]]
<1>0. p \in [Address -> Uint] /\ a \in Nat
  BY AddressFacts DEF Sums
<1>1. q \in [Address -> Uint]
  <2>1. ASSUME NEW i \in Address
        PROVE  q[i] \in Uint
    <3>1. p[i] <= t /\ t \in Uint /\ p[i] \in Uint
      BY <1>0, SumsBound
    <3> QED
      BY <3>1, TokenAssumption DEF Uint
  <2> QED
    BY <2>1
<1>2. q[0] = c[0]
  BY <1>0, AddressFacts, TokenAssumption DEF Sums, Uint
<1>3. ASSUME NEW i \in Sender
      PROVE  q[i] = q[i - 1] + c[i]
  <2>1. i \in Address /\ i - 1 \in Address /\ i \in Nat
    BY AddressFacts
  <2>2. p[i] = p[i - 1] + b[i]
    BY DEF Sums
  <2>3. p[i] \in Int /\ p[i - 1] \in Int /\ b[i] \in Int /\ v \in Int
    BY <1>0, <2>1, TokenAssumption DEF Uint
  <2>4. CASE i = a
    BY <1>0, <2>1, <2>2, <2>3, <2>4
  <2>5. CASE i # a
    <3>1. c[i] = b[i] /\ (i >= a <=> i - 1 >= a)
      BY <1>0, <2>1, <2>5
    <3> QED
      BY <2>1, <2>2, <2>3, <3>1
  <2> QED
    BY <2>4, <2>5
<1>4. ASSUME NEW i \in Address, NEW j \in Address, i <= j
      PROVE  q[i] <= q[j]
  <2>1. p[i] <= p[j] /\ i \in Nat /\ j \in Nat
    BY <1>4, AddressFacts DEF Sums
  <2>2. p[i] \in Int /\ p[j] \in Int /\ v \in Int /\ v >= 0
    BY <1>0, TokenAssumption DEF Uint
  <2> QED
    BY <1>0, <1>4, <2>1, <2>2
<1>5. q[N] = t + v
  BY <1>0, AddressFacts, TokenAssumption DEF Sums, Address
<1> HIDE DEF c, q
<1>6. Sums(c, q, t + v)
  BY <1>1, <1>2, <1>3, <1>4, <1>5 DEF Sums
<1> QED
  BY <1>6 DEF c, q

-----------------------------------------------------------------------------
Summed == \E p : Sums(balances, p, totalSupply_)
Inv == TypeOK /\ ZeroHoldsNothing /\ Summed

\* A move neither wraps nor changes the sum, also when from and to are equal.
LEMMA MoveKeepsSum ==
  ASSUME Inv, NEW from \in Address, NEW to \in Sender, NEW value \in Uint,
         Move(from, to, value), UNCHANGED totalSupply_
  PROVE  balances' \in [Address -> Uint] /\ balances'[Zero] = 0 /\ Summed'
<1> DEFINE debited == [balances EXCEPT ![from] = @ - value]
           t == totalSupply_
<1>1. PICK p : Sums(balances, p, t)
  BY DEF Inv, Summed
<1>2. balances \in [Address -> Uint] /\ value <= balances[from] /\ t \in Uint /\ to \in Address
  BY AddressFacts DEF Inv, TypeOK, Move
<1>3. debited \in [Address -> Uint]
  <2>1. balances[from] - value \in Uint
    BY <1>2, TokenAssumption DEF Uint
  <2> QED
    BY <1>2, <2>1
<1>4. PICK q : Sums(debited, q, t - value)
  BY <1>1, <1>2, SumsDebit
<1>5. t - value \in Uint /\ debited[to] <= t - value /\ debited[to] \in Uint
  <2>1. debited[to] <= q[to] /\ q[to] <= t - value /\ t - value \in Uint
    BY <1>2, <1>3, <1>4, SumsBound
  <2>2. q[to] \in Uint /\ debited[to] \in Uint
    BY <1>2, <1>3, <1>4 DEF Sums
  <2> HIDE DEF debited
  <2> QED
    BY <2>1, <2>2, TokenAssumption DEF Uint
<1>6. Plus(debited[to], value) = debited[to] + value /\ debited[to] + value \in Uint
  BY <1>2, <1>5, TokenAssumption DEF Plus, Uint
<1> HIDE DEF debited
<1>7. balances' = [debited EXCEPT ![to] = @ + value]
  BY <1>6 DEF Move, debited
<1>8. (t - value) + value = t /\ t <= MaxUint
  BY <1>2, TokenAssumption DEF Uint
<1>9. \E r : Sums([debited EXCEPT ![to] = @ + value], r, (t - value) + value)
  BY <1>2, <1>3, <1>4, <1>8, SumsCredit
<1>10. Summed'
  BY <1>7, <1>8, <1>9 DEF Summed
<1>11. balances'[Zero] = 0
  <2>1. to # Zero /\ balances[Zero] = 0
    BY DEF Sender, Zero, Inv, ZeroHoldsNothing
  <2>2. from = Zero => value = 0
    BY <1>2, <2>1, TokenAssumption DEF Uint
  <2>3. debited[Zero] = 0
    BY <1>2, <2>1, <2>2, AddressFacts DEF debited
  <2> QED
    BY <1>3, <1>7, <2>1, <2>3, AddressFacts
<1> QED
  BY <1>3, <1>6, <1>7, <1>10, <1>11

\* A burn takes as much off the supply as off the balance.
LEMMA DebitKeepsSum ==
  ASSUME Inv, NEW from \in Sender, NEW value \in Uint, value <= balances[from],
         Debit(from, value), totalSupply_' = totalSupply_ - value
  PROVE  /\ balances' \in [Address -> Uint] /\ balances'[Zero] = 0
         /\ totalSupply_' \in Uint /\ Summed'
<1>1. PICK p : Sums(balances, p, totalSupply_)
  BY DEF Inv, Summed
<1>2. balances \in [Address -> Uint] /\ from \in Address /\ from # Zero
  BY AddressFacts DEF Inv, TypeOK, Sender, Zero
<1>3. balances' \in [Address -> Uint]
  <2>1. balances[from] - value \in Uint
    BY <1>2, TokenAssumption DEF Uint
  <2> QED
    BY <1>2, <2>1 DEF Debit
<1>4. balances' = [balances EXCEPT ![from] = @ - value]
  BY DEF Debit
<1>5. Summed'
  BY <1>1, <1>2, <1>4, SumsDebit DEF Summed
<1>6. totalSupply_' \in Uint
  BY <1>3, <1>5, SumsBound DEF Summed
<1>7. balances'[Zero] = 0
  BY <1>2, <1>4, AddressFacts DEF Inv, ZeroHoldsNothing
<1> QED
  BY <1>3, <1>5, <1>6, <1>7

LEMMA InvInit == Init => Inv
<1> SUFFICES ASSUME Init PROVE Inv
  OBVIOUS
<1>1. PICK deployer \in Sender :
        /\ balances = [a \in Address |-> IF a = deployer THEN INITIAL_SUPPLY ELSE 0]
        /\ allowed = [a \in Address |-> [s \in Address |-> 0]]
        /\ totalSupply_ = INITIAL_SUPPLY
        /\ owner = deployer
  BY DEF Init
<1>2. TypeOK /\ ZeroHoldsNothing
  BY <1>1, AddressFacts, TokenAssumption DEF TypeOK, ZeroHoldsNothing, Uint, Sender, Zero
<1> DEFINE p == [i \in Address |-> IF i >= deployer THEN INITIAL_SUPPLY ELSE 0]
<1>3. deployer \in Nat /\ deployer # 0 /\ deployer <= N
  BY TokenAssumption DEF Sender
<1>4. p \in [Address -> Uint]
  BY TokenAssumption DEF Uint
<1>5. p[0] = balances[0] /\ p[N] = INITIAL_SUPPLY
  BY <1>1, <1>3, AddressFacts
<1>6. ASSUME NEW i \in Sender
      PROVE  p[i] = p[i - 1] + balances[i]
  BY <1>1, <1>3, AddressFacts, TokenAssumption DEF Uint
<1>7. ASSUME NEW i \in Address, NEW j \in Address, i <= j
      PROVE  p[i] <= p[j]
  BY <1>3, <1>7, AddressFacts, TokenAssumption DEF Uint
<1> HIDE DEF p
<1>8. Sums(balances, p, totalSupply_)
  BY <1>1, <1>4, <1>5, <1>6, <1>7 DEF Sums
<1> QED
  BY <1>2, <1>8 DEF Inv, Summed

\* The allowance left after a delegated call is a word.
LEMMA UseAllowanceType ==
  ASSUME TypeOK, NEW from \in Address, NEW s \in Address, NEW value \in Uint,
         UseAllowance(from, s, value)
  PROVE  allowed' \in [Address -> [Address -> Uint]]
<1>1. allowed[from][s] - value \in Uint
  BY TokenAssumption DEF UseAllowance, TypeOK, Uint
<1>2. [allowed[from] EXCEPT ![s] = @ - value] \in [Address -> Uint]
  BY <1>1 DEF TypeOK
<1> QED
  BY <1>2 DEF UseAllowance, TypeOK

\* So is the allowance written by an approval.
LEMMA ApprovalType ==
  ASSUME TypeOK, NEW o \in Address, NEW s \in Address, NEW value \in Uint,
         allowed' = [allowed EXCEPT ![o][s] = value]
  PROVE  allowed' \in [Address -> [Address -> Uint]]
<1>1. [allowed[o] EXCEPT ![s] = value] \in [Address -> Uint]
  BY DEF TypeOK
<1> QED
  BY <1>1 DEF TypeOK

LEMMA InvCall ==
  ASSUME Inv, NEW sender \in Sender, CallBy(sender)
  PROVE  Inv'
<1>0. sender \in Address /\ TypeOK /\ ZeroHoldsNothing /\ Summed
  BY AddressFacts DEF Inv
<1>1. ASSUME UNCHANGED <<balances, totalSupply_, owner>>,
             allowed' \in [Address -> [Address -> Uint]]
      PROVE  Inv'
  BY <1>0, <1>1 DEF Inv, TypeOK, ZeroHoldsNothing, Summed
<1>2. ASSUME NEW to \in Sender, NEW from \in Address, NEW v \in Uint, Move(from, to, v),
             UNCHANGED <<totalSupply_, owner>>,
             allowed' \in [Address -> [Address -> Uint]]
      PROVE  Inv'
  BY <1>0, <1>2, MoveKeepsSum DEF Inv, TypeOK, ZeroHoldsNothing
<1>3. ASSUME NEW from \in Sender, NEW v \in Uint, v <= balances[from], Debit(from, v),
             totalSupply_' = totalSupply_ - v, UNCHANGED owner,
             allowed' \in [Address -> [Address -> Uint]]
      PROVE  Inv'
  BY <1>0, <1>3, DebitKeepsSum DEF Inv, TypeOK, ZeroHoldsNothing
<1>4. ASSUME NEW a \in Address, transferOwnership(sender, a)
      PROVE  Inv'
  BY <1>0, <1>4 DEF transferOwnership, Inv, TypeOK, ZeroHoldsNothing, Summed
<1>5. ASSUME NEW v \in Values, burn(sender, v)
      PROVE  Inv'
  BY <1>0, <1>3, <1>5, TokenAssumption DEF burn, TypeOK
<1>6. ASSUME NEW v \in Values, NEW a \in Address, transfer(sender, a, v)
      PROVE  Inv'
  BY <1>0, <1>2, <1>6, AddressFacts, TokenAssumption DEF transfer, TypeOK, Zero
<1>7. ASSUME NEW v \in Values, NEW a \in Address, burnFrom(sender, a, v)
      PROVE  Inv'
  <2>1. v \in Uint /\ a \in Sender
    BY <1>7, AddressFacts, TokenAssumption DEF burnFrom, Zero
  <2>2. allowed' \in [Address -> [Address -> Uint]]
    BY <1>0, <1>7, <2>1, UseAllowanceType DEF burnFrom
  <2> QED
    BY <1>3, <1>7, <2>1, <2>2 DEF burnFrom
<1>8. ASSUME NEW v \in Values, NEW a \in Address, NEW b \in Address,
             transferFrom(sender, a, b, v)
      PROVE  Inv'
  <2>1. v \in Uint /\ b \in Sender
    BY <1>8, AddressFacts, TokenAssumption DEF transferFrom, Zero
  <2>2. allowed' \in [Address -> [Address -> Uint]]
    BY <1>0, <1>8, <2>1, UseAllowanceType DEF transferFrom
  <2> QED
    BY <1>2, <1>8, <2>1, <2>2 DEF transferFrom
<1>9. ASSUME NEW v \in Values, NEW s \in Spenders,
             \/ approve(sender, s, v)
             \/ increaseApproval(sender, s, v)
             \/ decreaseApproval(sender, s, v)
      PROVE  Inv'
  <2>1. v \in Uint /\ s \in Address /\ allowed[sender][s] \in Uint
    BY <1>0, TokenAssumption DEF TypeOK
  <2>2. \E w \in Uint : allowed' = [allowed EXCEPT ![sender][s] = w]
    <3>1. CASE approve(sender, s, v)
      BY <2>1, <3>1 DEF approve
    <3>2. CASE increaseApproval(sender, s, v)
      <4>1. Plus(allowed[sender][s], v) \in Uint
        BY <2>1, TokenAssumption DEF Plus, Uint
      <4> QED
        BY <3>2, <4>1 DEF increaseApproval
    <3>3. CASE decreaseApproval(sender, s, v)
      <4> DEFINE w == IF v >= allowed[sender][s] THEN 0 ELSE allowed[sender][s] - v
      <4>1. w \in Uint
        BY <2>1, TokenAssumption DEF Uint
      <4>2. allowed' = [allowed EXCEPT ![sender][s] = w]
        BY <3>3 DEF decreaseApproval
      <4> QED
        BY <4>1, <4>2
    <3> QED
      BY <1>9, <3>1, <3>2, <3>3
  <2>3. UNCHANGED <<balances, totalSupply_, owner>>
    BY <1>9 DEF approve, increaseApproval, decreaseApproval
  <2> QED
    BY <1>0, <1>1, <2>1, <2>2, <2>3, ApprovalType
<1> QED
  BY <1>4, <1>5, <1>6, <1>7, <1>8, <1>9 DEF CallBy

LEMMA Invariance == Spec => []Inv
<1>1. Inv /\ [Next]_vars => Inv'
  <2> SUFFICES ASSUME Inv, [Next]_vars PROVE Inv'
    OBVIOUS
  <2>1. CASE UNCHANGED vars
    BY <2>1 DEF vars, Inv, TypeOK, ZeroHoldsNothing, Summed
  <2> QED
    BY <2>1, InvCall DEF Next
<1> QED
  BY <1>1, InvInit, PTL DEF Spec

\* Every amount is a word of the contract.
THEOREM TokenTypeCorrect == Spec => []TypeOK
<1>1. Inv => TypeOK
  BY DEF Inv
<1> QED
  BY <1>1, Invariance, PTL

\* The zero address never holds tokens and never owns the contract: no
\* sequence of calls loses tokens or the right to burn.
THEOREM NothingAtZero == Spec => []ZeroHoldsNothing
<1>1. Inv => ZeroHoldsNothing
  BY DEF Inv
<1> QED
  BY <1>1, Invariance, PTL

\* The balances always add up to the total supply.
THEOREM Conservation == Spec => []Conserved
<1>1. Inv => Conserved
  <2> SUFFICES ASSUME Inv PROVE Conserved
    OBVIOUS
  <2>1. PICK p : Sums(balances, p, totalSupply_)
    BY DEF Inv, Summed
  <2> QED
    BY <2>1 DEF Sums, PrefixSums, Conserved
<1> QED
  BY <1>1, Invariance, PTL

\* The assertion of SafeMath.add never fires in a transfer.
THEOREM NoOverflow == Spec => []AddNeverOverflows
<1>1. Inv => AddNeverOverflows
  <2> SUFFICES ASSUME Inv, NEW a \in Address, NEW b \in Address, a # b
               PROVE  balances[a] + balances[b] <= MaxUint
    BY DEF AddNeverOverflows
  <2>1. PICK p : Sums(balances, p, totalSupply_)
    BY DEF Inv, Summed
  <2>2. balances[a] \in Uint /\ balances[b] \in Uint /\ totalSupply_ \in Uint
    BY DEF Inv, TypeOK
  <2>3. balances[a] + balances[b] <= totalSupply_
    BY <2>1, SumsBound DEF Inv, TypeOK
  <2> QED
    BY <2>2, <2>3, TokenAssumption DEF Uint
<1> QED
  BY <1>1, Invariance, PTL

\* The supply never grows, and only a call of the owner lowers it.
THEOREM SupplyIsOwners == Spec => SupplyShrinksByOwner
<1>1. ASSUME Inv, NEW sender \in Sender, CallBy(sender)
      PROVE  /\ totalSupply_' <= totalSupply_
             /\ totalSupply_' < totalSupply_ => sender = owner
  <2>1. totalSupply_ \in Int /\ \A v \in Values : v \in Int
    BY <1>1, TokenAssumption DEF Inv, TypeOK, Uint
  <2>2. \/ totalSupply_' = totalSupply_
        \/ sender = owner /\ \E v \in Values : v > 0 /\ totalSupply_' = totalSupply_ - v
    BY <1>1 DEF CallBy, transferOwnership, burn, burnFrom, transfer, transferFrom,
       approve, increaseApproval, decreaseApproval, onlyOwner
  <2> QED
    BY <2>1, <2>2
<1>2. Inv /\ [Next]_vars =>
        [/\ totalSupply_' <= totalSupply_
         /\ totalSupply_' < totalSupply_ => CallBy(owner)]_vars
  BY <1>1 DEF Next
<1> QED
  BY <1>2, Invariance, PTL DEF Spec, SupplyShrinksByOwner

\* A move takes the value from one balance, and from no other; one from an
\* address to itself takes nothing.
LEMMA MoveTakes ==
  ASSUME TypeOK, NEW from \in Address, NEW to \in Address, NEW value \in Uint,
         Move(from, to, value), NEW a \in Address, balances'[a] < balances[a]
  PROVE  a = from /\ balances[a] - balances'[a] = value
<1> DEFINE debited == [balances EXCEPT ![from] = @ - value]
<1>1. /\ balances \in [Address -> Uint] /\ value <= balances[from]
      /\ balances' = [debited EXCEPT ![to] = Plus(debited[to], value)]
      /\ Fits(debited[to], value)
  BY DEF Move, TypeOK
<1>2. \A b \in Address : balances[b] \in Nat /\ balances[b] <= MaxUint
  BY <1>1, TokenAssumption DEF Uint
<1>3. value \in Nat /\ MaxUint \in Nat
  BY TokenAssumption DEF Uint
<1>4. debited[to] = IF to = from THEN balances[from] - value ELSE balances[to]
  BY <1>1
<1>5. CASE a # to
  <2>1. balances'[a] = debited[a]
    BY <1>1, <1>5
  <2>2. debited[a] = IF a = from THEN balances[from] - value ELSE balances[a]
    BY <1>1
  <2> QED
    BY <1>2, <1>3, <2>1, <2>2
<1>6. CASE a = to /\ to # from
  <2>1. balances'[a] = Plus(balances[a], value) /\ Fits(balances[a], value)
    BY <1>1, <1>4, <1>6
  <2> QED
    BY <1>2, <1>3, <2>1 DEF Fits, Plus
<1>7. CASE a = to /\ to = from
  <2>1. balances'[a] = Plus(balances[a] - value, value)
    BY <1>1, <1>4, <1>7
  <2>2. balances'[a] = balances[a]
    BY <1>1, <1>2, <1>3, <1>7, <2>1 DEF Plus
  <2> QED
    BY <1>2, <2>2
<1> QED
  BY <1>5, <1>6, <1>7

\* A delegated call uses up as much of the allowance as it takes.
LEMMA UseAllowanceTakes ==
  ASSUME TypeOK, NEW from \in Address, NEW s \in Address, NEW value \in Uint,
         UseAllowance(from, s, value)
  PROVE  allowed[from][s] - allowed'[from][s] = value
<1>1. allowed'[from][s] = allowed[from][s] - value
  BY DEF UseAllowance, TypeOK
<1>2. allowed[from][s] \in Nat /\ value \in Nat
  BY TokenAssumption DEF TypeOK, Uint
<1> QED
  BY <1>1, <1>2

\* A balance falls only by a call of its holder, or by one of a spender whose
\* allowance falls by the same amount.
THEOREM FallsAreAuthorised == Spec => FallIsAuthorised
<1>1. ASSUME Inv, NEW a \in Sender, balances'[a] < balances[a],
             NEW s \in Sender \ {a}, CallBy(s)
      PROVE  allowed[a][s] - allowed'[a][s] = balances[a] - balances'[a]
  <2>0. TypeOK /\ a \in Address /\ s \in Address /\ balances[a] \in Nat
    <3>1. TypeOK /\ a \in Address /\ s \in Address
      BY <1>1, AddressFacts DEF Inv
    <3>2. balances[a] \in Uint
      BY <3>1 DEF TypeOK
    <3> QED
      BY <3>1, <3>2, TokenAssumption DEF Uint
  <2>1. balances' # balances
    BY <1>1, <2>0
  <2>2. ASSUME NEW v \in Values, NEW b \in Address, transfer(s, b, v)
        PROVE  FALSE
    BY <1>1, <2>0, <2>2, MoveTakes, TokenAssumption DEF transfer
  <2>3. ASSUME NEW v \in Values, burn(s, v)
        PROVE  FALSE
    <3>1. balances'[a] = balances[a]
      BY <1>1, <2>0, <2>3 DEF burn, Debit, TypeOK
    <3> QED
      BY <1>1, <2>0, <3>1
  <2>4. ASSUME NEW v \in Values, NEW b \in Address, burnFrom(s, b, v)
        PROVE  allowed[a][s] - allowed'[a][s] = balances[a] - balances'[a]
    <3>1. v \in Uint /\ v \in Nat
      BY TokenAssumption DEF Uint
    <3>2. balances' = [balances EXCEPT ![b] = @ - v] /\ UseAllowance(b, s, v)
      BY <2>4 DEF burnFrom, Debit
    <3>3. b = a
      BY <1>1, <2>0, <3>2 DEF TypeOK
    <3>4. balances'[a] = balances[a] - v
      BY <2>0, <3>2, <3>3 DEF TypeOK
    <3> QED
      BY <2>0, <3>1, <3>2, <3>3, <3>4, UseAllowanceTakes
  <2>5. ASSUME NEW v \in Values, NEW b \in Address, NEW c \in Address,
               transferFrom(s, b, c, v)
        PROVE  allowed[a][s] - allowed'[a][s] = balances[a] - balances'[a]
    <3>1. v \in Uint
      BY TokenAssumption
    <3>2. b = a /\ balances[a] - balances'[a] = v
      BY <1>1, <2>0, <2>5, <3>1, MoveTakes DEF transferFrom
    <3> QED
      BY <2>0, <2>5, <3>1, <3>2, UseAllowanceTakes DEF transferFrom
  <2> QED
    BY <1>1, <2>1, <2>2, <2>3, <2>4, <2>5
       DEF CallBy, transferOwnership, approve, increaseApproval, decreaseApproval
<1>2. Inv /\ [Next]_vars =>
        [\A a \in Sender : balances'[a] < balances[a] =>
           \A s \in Sender \ {a} : CallBy(s) =>
             allowed[a][s] - allowed'[a][s] = balances[a] - balances'[a]]_vars
  BY <1>1
<1> QED
  BY <1>2, Invariance, PTL DEF Spec, FallIsAuthorised
=============================================================================
