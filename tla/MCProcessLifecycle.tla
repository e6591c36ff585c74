------------------------- MODULE MCProcessLifecycle -------------------------
(* Model values for ProcessLifecycle.                                      *)
EXTENDS ProcessLifecycle

\* Every failure point whose destroy finds NextProcess initialised.
MCCleanFailures ==
    {"none", "alloc", "header", "name", "cmdline", "retrieve_header", "mmu",
     "run"}

\* Failures of RfcInit and ExEventInit, before line 467.
MCEarlyFailures == {"none", "rfcinit", "event"}
=============================================================================
