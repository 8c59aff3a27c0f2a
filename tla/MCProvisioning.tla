--------------------------- MODULE MCProvisioning ---------------------------
(* Provisioning for TLC: the constants that a cfg cannot write.            *)
EXTENDS Provisioning, TLC

\* Workers are interchangeable; tenants are not, once one
\* of them is an orphan.
Symmetry == Permutations(Workers)

=============================================================================
