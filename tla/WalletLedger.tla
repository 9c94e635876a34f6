---------------------------- MODULE WalletLedger ----------------------------
(***************************************************************************)
(* What the wallet promises: a top-up request is decided once, and the     *)
(* decision and its credit are one step.  There are no workers, locks or   *)
(* transactions here.                                                      *)
(***************************************************************************)
EXTENDS Naturals

CONSTANTS Payments, Tenants, TenantOf

VARIABLES status, credits

ledger == <<status, credits>>

Init ==
    /\ status = [p \in Payments |-> "absent"]
    /\ credits = [t \in Tenants |-> [p \in Payments |-> 0]]

Request(p) ==
    /\ status[p] = "absent"
    /\ status' = [status EXCEPT ![p] = "pending"]
    /\ UNCHANGED credits

Confirm(p) ==
    /\ status[p] = "pending"
    /\ status' = [status EXCEPT ![p] = "confirmed"]
    /\ credits' = [credits EXCEPT ![TenantOf[p]][p] = @ + 1]

Cancel(p) ==
    /\ status[p] = "pending"
    /\ status' = [status EXCEPT ![p] = "cancelled"]
    /\ UNCHANGED credits

Next == \E p \in Payments : Request(p) \/ Confirm(p) \/ Cancel(p)

Spec == Init /\ [][Next]_ledger

=============================================================================
