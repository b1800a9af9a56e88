--------------------------- MODULE TransferIntake ---------------------------
(***************************************************************************)
(* What the intake promises of each transfer, without tasks, tables or     *)
(* faults: its outcome is stored once and never changes, and the very step *)
(* that stores it starts its accounting, which nothing else ever starts.   *)
(***************************************************************************)
CONSTANTS
  Transfers,
  Known         \* transfers saved before they were mined

VARIABLES
  state,        \* of each transfer: unknown, pending, confirmed or failed
  accounting    \* transfers whose accounting is under way

Init ==
  /\ state = [t \in Transfers |-> IF t \in Known THEN "pending" ELSE "unknown"]
  /\ accounting = {}

Store(t) ==
  /\ state[t] \in {"unknown", "pending"}
  /\ \E outcome \in {"confirmed", "failed"} :
       state' = [state EXCEPT ![t] = outcome]
  /\ accounting' = accounting \cup {t}

\* Accounting ends, one or (in a crash) any number at a time.
Stop(T) ==
  /\ T \subseteq accounting
  /\ accounting' = accounting \ T
  /\ UNCHANGED state

Next == (\E t \in Transfers : Store(t)) \/ (\E T \in SUBSET Transfers : Stop(T))

Spec == Init /\ [][Next]_<<state, accounting>>
=============================================================================
