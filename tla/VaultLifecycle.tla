---------------------------- MODULE VaultLifecycle ----------------------------
(***************************************************************************)
(* What the program promises about one vault per (user, pool): the stages  *)
(* it goes through, without tokens, fees or DEX accounts.                  *)
(*                                                                         *)
(*   absent --Create--> idle --Open--> active --Start--> pending           *)
(*                        ^              |                 |               *)
(*                        +----Close-----+                 |               *)
(*                        +----Cancel----------------------+               *)
(*                            active <------Finish---------+               *)
(*                                                                         *)
(* A rebalance that needs two transactions keeps its target from Start to  *)
(* Finish; a vault of InPlace moves its position in one.  Exit leads from  *)
(* every stage to absent.                                                  *)
(***************************************************************************)
CONSTANTS Vaults, Ranges, InPlace

VARIABLE lifecycle

Absent == [stage |-> "absent"]
Idle == [stage |-> "idle"]
ActiveIn(r) == [stage |-> "active", range |-> r]
PendingTo(r) == [stage |-> "pending", range |-> r]

Stages ==
    {Absent, Idle} \cup {ActiveIn(r) : r \in Ranges}
                   \cup {PendingTo(r) : r \in Ranges}

TypeInvariant == lifecycle \in [Vaults -> Stages]

Init == lifecycle = [v \in Vaults |-> Absent]

Goes(v, from, to) ==
    lifecycle[v] = from /\ lifecycle' = [lifecycle EXCEPT ![v] = to]

Create(v) == Goes(v, Absent, Idle)
Open(v, r) == Goes(v, Idle, ActiveIn(r))
Close(v, r) == Goes(v, ActiveIn(r), Idle)
Move(v, r, s) == v \in InPlace /\ Goes(v, ActiveIn(r), ActiveIn(s))
Start(v, r, s) == v \notin InPlace /\ Goes(v, ActiveIn(r), PendingTo(s))
Finish(v, s) == Goes(v, PendingTo(s), ActiveIn(s))
Cancel(v, s) == Goes(v, PendingTo(s), Idle)
Exit(v) ==
    /\ lifecycle[v] # Absent
    /\ lifecycle' = [lifecycle EXCEPT ![v] = Absent]

Next ==
    \E v \in Vaults :
        \/ Create(v) \/ Exit(v)
        \/ \E r \in Ranges : \/ Open(v, r) \/ Close(v, r)
                             \/ Finish(v, r) \/ Cancel(v, r)
        \/ \E r, s \in Ranges : Move(v, r, s) \/ Start(v, r, s)

Spec == Init /\ [][Next]_lifecycle
=============================================================================
