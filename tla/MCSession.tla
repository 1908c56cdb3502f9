----------------------------- MODULE MCSession -----------------------------
(* A small instance of the session store for TLC. *)
EXTENDS Session

MCCustomers == {"alice", "bob"}
MCClasses == {"CLARIFICATION_REQUIRED", "BANKING_SERVICE"}
MCPending == {"CLARIFICATION_REQUIRED"}
=============================================================================
