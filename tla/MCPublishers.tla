----------------------------- MODULE MCPublishers -----------------------------
(* Model-checking instance of the two programs that publish a job's evidence *)
(* as EvidenceBlock promises it: the seed task of a BARN attempt, and the    *)
(* terminal chain with one job of each arm.  They share no state; a          *)
(* behaviour is one of them, chosen at the start.                            *)
EXTENDS SeedPublish, TerminalChain, TLC

VARIABLE publisher

CONSTANTS k1, k2

TwoJobs   == {k1, k2}
OneOfEach == (k1 :> "frontier") @@ (k2 :> "maxmc")

Interchangeable ==
  Permutations(Receipts) \cup Permutations(Dests) \cup Permutations(Fetchers) \cup Permutations(Finalizers)

PublishersInit ==
  /\ publisher \in {"seed", "chain"}
  /\ Init /\ ChainInit

PublishersNext ==
  \/ publisher = "seed"  /\ Next      /\ UNCHANGED <<publisher, chainVars>>
  \/ publisher = "chain" /\ ChainNext /\ UNCHANGED <<publisher, vars>>

PublishersSpec == PublishersInit /\ [][PublishersNext]_<<publisher, vars, chainVars>>
=============================================================================
