------------------------------- MODULE MCRelay -------------------------------
(***************************************************************************)
(* Relay for TLC.  The view leaves out what no later step and no property  *)
(* looks at: see MCRequestTable.                                           *)
(***************************************************************************)
EXTENDS Relay, TLC

View ==
  LET open == {r \in Requests : r \in table \/ pc[r] = "waiting"} IN
    <<pc, [r \in Requests |-> IF pc[r] \in {"prepared", "sending"} THEN conn[r] ELSE NoConn],
      [r \in Requests |-> IF outcome[r] \in {"none", "ended", "relayed", "failed"} THEN outcome[r] ELSE "other"],
      chunks, table, [r \in Requests |-> IF r \in open THEN respChan[r] ELSE <<>>],
      respClosed, doneClosed, [r \in open |-> expired[r]],
      link, sendChan, wire, fwd, sem, panic,
      job, recvChan, inHand, jobs,
      [r \in Requests |-> IF job[r] = "asking" THEN events[r] ELSE 0],
      [r \in Requests |-> IF job[r] = "sending" THEN answer[r] ELSE "error"],
      out, log, pumpVars>>

=============================================================================
