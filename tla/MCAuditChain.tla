--------------------------- MODULE MCAuditChain ---------------------------
(***************************************************************************)
(* Three transactions, one of which cannot read the log, over three clock  *)
(* values and three row ids.                                                *)
(***************************************************************************)
EXTENDS AuditChain, TLC

CONSTANTS t1, t2, t3

MCTxn == {t1, t2, t3}
MCReader == {t1, t2}
Symmetry == Permutations(MCReader)
=============================================================================
