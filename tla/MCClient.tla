------------------------------ MODULE MCClient ------------------------------
(***************************************************************************)
(* The two modules of the client process in one run.  They share no        *)
(* variable, and a behaviour exercises one of them: the connection with no *)
(* request at hand, or the work on requests beside a connection whose own  *)
(* behaviour is over (Start has given up), so that its fairness and its    *)
(* properties ask nothing more of it.                                      *)
(***************************************************************************)
EXTENDS ClientLink, ClientWorker

VARIABLE part       \* "link" or "work"

clientVars == <<part, linkVars, vars>>

ClientInit ==
  /\ Init
  /\ \/ part = "link" /\ LinkInit
     \/ part = "work" /\ Unconnected /\ start = "failed"

ClientNext ==
  \/ part = "link" /\ LinkNext /\ UNCHANGED <<part, vars>>
  \/ part = "work" /\ Next /\ UNCHANGED <<part, linkVars>>

FairClientSpec ==
  ClientInit /\ [][ClientNext]_clientVars /\ LinkFairness /\ WorkFairness

=============================================================================
