--------------------------- MODULE MCWeb3Handler ---------------------------
(***************************************************************************)
(* Instances of Web3Handler for TLC.  A configuration chooses the members, *)
(* the events and their fields among the definitions below.                *)
(***************************************************************************)
EXTENDS Web3Handler

\* Every transaction is a direct call of the token's transfer.
Direct == [l \in Logs |-> "transfer"]

\* One deposit from outside.
OneLogs == {"d1"}
OneHash == [l \in OneLogs |-> "x1"]
OneSender == [l \in OneLogs |-> "u"]
OneReceiver == [l \in OneLogs |-> "m1"]
OneValue == [l \in OneLogs |-> 16]

\* A deposit of one member and a withdrawal to the other.
InOutLogs == {"d1", "w1"}
InOutHash == [d1 |-> "x1", w1 |-> "x2"]
InOutSender == [d1 |-> "u", w1 |-> "M"]
InOutReceiver == [d1 |-> "m1", w1 |-> "m2"]
InOutValue == [d1 |-> 16, w1 |-> 10]

\* A contract moves tokens to the manager and the manager's to itself: one wallet
\* is charged and drawn.
ByContract == [l \in Logs |-> "contract"]
ManagerLogs == {"d1", "p1"}
ManagerHash == [l \in ManagerLogs |-> "x1"]
ManagerSender == [d1 |-> "u", p1 |-> "M"]
ManagerReceiver == [l \in ManagerLogs |-> "M"]
ManagerValue == [d1 |-> 16, p1 |-> 24]

\* A payment of the manager to itself, the manager having a wallet.
SelfLogs == {"p1"}
SelfHash == [l \in SelfLogs |-> "x1"]
SelfSender == [l \in SelfLogs |-> "M"]
SelfReceiver == [l \in SelfLogs |-> "M"]
SelfValue == [l \in SelfLogs |-> 16]

\* Two deposits of one member.
TwoInLogs == {"d1", "d2"}
TwoInHash == [d1 |-> "x1", d2 |-> "x2"]
TwoInSender == [l \in TwoInLogs |-> "u"]
TwoInReceiver == [l \in TwoInLogs |-> "m1"]
TwoInValue == [d1 |-> 10, d2 |-> 20]

\* A payment of a member to the manager.
PaymentLogs == {"p1"}
PaymentHash == [l \in PaymentLogs |-> "x1"]
PaymentSender == [l \in PaymentLogs |-> "m1"]
PaymentReceiver == [l \in PaymentLogs |-> "M"]
PaymentValue == [l \in PaymentLogs |-> 10]
=============================================================================
