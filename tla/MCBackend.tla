----------------------------- MODULE MCBackend -----------------------------
(***************************************************************************)
(* An instance of Backend for TLC: the manager pays members 2 and 3, with  *)
(* tokens for one of the two payments only, and then member 2 passes its   *)
(* tokens on to the manager.                                               *)
(***************************************************************************)
EXTENDS Backend

MCVia ==
  [r1 |-> "sendtokenfromadmin", r2 |-> "sendtokenfromadmin",
   r3 |-> "sendtokenbymnemonic"]
MCRequests == DOMAIN MCVia
MCFrom == [r1 |-> 1, r2 |-> 1, r3 |-> 2]
MCTo == [r1 |-> 2, r2 |-> 3, r3 |-> 1]
MCAmount == [r \in MCRequests |-> 2]
MCAfter == [r1 |-> {}, r2 |-> {"r1"}, r3 |-> {"r1", "r2"}]
NoFee == [r \in MCRequests |-> 0]
NoEther == [a \in Addresses |-> 0]
=============================================================================
