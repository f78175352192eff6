---------------------------- MODULE MCRunCommand ----------------------------
(* Instances of RunCommand: the job ids are the work tuples, and each       *)
(* experiment belongs to an investigation of its own or all to one.         *)
EXTENDS RunCommand, TLC

MCJob == [exp : Experiment, rep : Repetition, att : Attempt]
OneInvestigation == CHOOSE i \in Investigation : TRUE
AllInOne == [e \in Experiment |-> OneInvestigation]
OneEach  == CHOOSE f \in [Experiment -> Investigation] :
              \A e1, e2 \in Experiment : e1 # e2 => f[e1] # f[e2]
Symmetry == Permutations(Worker)
=============================================================================
