--------------------------- MODULE MCWanProvisioning ---------------------------
EXTENDS WanProvisioning

(* Every step but the one between the replacement of the equipment and the
   invalidation of what was applied to it.                                 *)
CrashesApart == Steps \ {"invalidate"}

=============================================================================
