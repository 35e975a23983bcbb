--------------------------- MODULE MCOnuRegistry ---------------------------
EXTENDS OnuRegistry, TLC

(* Requests that the code accepts and that make less sense: the restoration of
   a contract whose migration failed, the deletion of a row that waits.    *)
WithRestoration == Sensible \cup {<<"unblock", "ERROR">>}

WithWaiting == Sensible \cup {<<"delete", "UNCONFIGURED">>}

(* One equipment is brought by two migrations at once. *)
TwicePromised == Overlapping \ {{"migrate"}}

Anonymous == Permutations(Serials) \cup Permutations(Rows)
             \cup Permutations(Workers)

=============================================================================
