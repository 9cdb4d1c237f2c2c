--------------------------- MODULE MCRequestTable ---------------------------
(***************************************************************************)
(* Instances of RequestTable for TLC.  Calls that do not stream, and calls *)
(* that do, are interchangeable, and so are connections.                   *)
(***************************************************************************)
EXTENDS RequestTable, TLC

Symmetry ==
  Permutations(Streams) \cup Permutations(Requests \ Streams) \cup Permutations(Conns)

(* States that differ only in what no step and no invariant looks at any   *)
(* more: how a call was answered, and what is left of a call that is over. *)
View ==
  LET open == {r \in Requests : r \in table \/ pc[r] = "waiting"} IN
    <<pc, [r \in Requests |-> IF pc[r] \in {"prepared", "sending"} THEN conn[r] ELSE NoConn],
      table, [r \in Requests |-> IF r \in open THEN respChan[r] ELSE <<>>],
      respClosed, doneClosed, [r \in open |-> expired[r]],
      linkVars, remoteVars, sem, procVars>>

=============================================================================
