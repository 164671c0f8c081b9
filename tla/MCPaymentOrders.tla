--------------------------- MODULE MCPaymentOrders ----------------------------
(***************************************************************************)
(* One payment order: orders share nothing that a step of another order    *)
(* reads.  Two attempts make a late and a duplicate transfer possible, two *)
(* requests and two approvals every overlap of refunds.                    *)
(***************************************************************************)
EXTENDS PaymentOrders

=============================================================================
