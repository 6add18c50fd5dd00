----------------------------- MODULE JobService -----------------------------
(***************************************************************************)
(* What the enrolment service of server/enrolment.py promises to those who *)
(* talk to it over the login routes: jobs run one at a time, a job has one *)
(* outcome that stands, and of the jobs that ended the latest are kept.    *)
(* Module EnrolmentJobs implements it, module LoginPane builds on it.      *)
(***************************************************************************)
EXTENDS Naturals, FiniteSets

CONSTANTS
  MaxJobs,  \* the jobs ever started
  History   \* _JOB_HISTORY

\* A history of none would keep them all: finished[:-0] is empty.
ASSUME ServiceAssumption == MaxJobs \in Nat \ {0} /\ History \in Nat \ {0}

VARIABLES
  known,  \* _jobs; its order is that of the numbers, which are given out in order
  state   \* state of each job, "new" before it is registered

serviceVars == <<known, state>>

Jobs == 1 .. MaxJobs
IsKnown(j) == j \in known
Running == {j \in Jobs : state[j] = "running"}

\* A job that ended is kept while fewer than History later ones ended.
Kept(j) == Cardinality({k \in known \ Running : k > j}) < History

\* A job is registered, while none runs.
Begin(j) ==
  /\ Running = {}
  /\ state[j] = "new" /\ \A k \in 1 .. (j - 1) : state[k] # "new"
  /\ known' = {k \in known : k \in Running \/ Kept(k)} \cup {j}
  /\ state' = [state EXCEPT ![j] = "running"]

End(j) ==
  /\ state[j] = "running"
  /\ \E outcome \in {"succeeded", "failed"} : state' = [state EXCEPT ![j] = outcome]
  /\ UNCHANGED known

ServiceInit == known = {} /\ state = [j \in Jobs |-> "new"]
ServiceNext == \E j \in Jobs : Begin(j) \/ End(j)
ServiceSpec == ServiceInit /\ [][ServiceNext]_serviceVars
=============================================================================
