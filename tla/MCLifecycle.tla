---------------------------- MODULE MCLifecycle ----------------------------
(***************************************************************************)
(* PE 0 has contexts of its own, PE 1 a progress thread.                   *)
(***************************************************************************)
EXTENDS Lifecycle

MCMaxContexts == [p \in PE |-> IF p = 0 THEN 2 ELSE 0]
MCMaxPuts == [p \in PE |-> IF p = 0 THEN 1 ELSE 0]
=============================================================================
