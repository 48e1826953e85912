---------------------------- MODULE MCInvoicePayment ----------------------------
(* Small instances of InvoicePayment.                                        *)
EXTENDS InvoicePayment, TLC

CONSTANTS h1, h2

PayOSOnly  == {"link", "sync", "webhook"}
EveryCall  == {"link", "sync", "webhook", "manual", "drop", "end"}
Ending     == {"link", "sync", "webhook", "end"}

Symmetry == Permutations(Handlers)
==============================================================================
