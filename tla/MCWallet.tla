------------------------------ MODULE MCWallet ------------------------------
(***************************************************************************)
(* Wallet on a small instance: two requests that race for the first credit *)
(* of one tenant and one of another tenant, decided by three workers.      *)
(***************************************************************************)
EXTENDS Wallet, TLC

CONSTANTS p1, p2, p3, t1, t2

MCPayments == {p1, p2, p3}
MCTenants == {t1, t2}
MCTenantOf == (p1 :> t1) @@ (p2 :> t1) @@ (p3 :> t2)

=============================================================================
