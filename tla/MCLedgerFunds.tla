--------------------------- MODULE MCLedgerFunds ----------------------------
(* The instance of Ledger checked against Funds. *)
EXTENDS LedgerFunds, MCLedger
=============================================================================
