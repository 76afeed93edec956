------------------------------ MODULE JobQueue ------------------------------
(***************************************************************************)
(* A BullMQ queue with the options the application leaves at their         *)
(* defaults: a job is tried once; a job whose consumer stopped renewing    *)
(* its lock is stalled and waits again, at most MAX_STALLED times.  The    *)
(* library is not part of the repository.                                  *)
(***************************************************************************)
EXTENDS Naturals

CONSTANTS Jobs,         \* ids of jobs: 1, 2, ... as Redis counts them (a bound)
          None,         \* null
          MAX_STALLED   \* maxStalledCount

ASSUME JobsAssumption ==
  /\ Jobs \subseteq Nat
  /\ MAX_STALLED \in Nat

VARIABLE job            \* per id: the state of the job, its data, its stalls

JobStates == {"free", "waiting", "active", "completed", "failed"}

JobsInit == job = [j \in Jobs |-> [state |-> "free", data |-> None, stalls |-> 0]]

JobsOf(data) == {j \in Jobs : job[j].state # "free" /\ job[j].data = data}

SetState(j, state) == job' = [job EXCEPT ![j].state = state]

Add(data) ==
  \E j \in Jobs :
    /\ job[j].state = "free"
    /\ \A i \in Jobs : i < j => job[i].state # "free"
    /\ job' = [job EXCEPT ![j] = [state |-> "waiting", data |-> data, stalls |-> 0]]

Take(j) == job[j].state = "waiting" /\ SetState(j, "active")

(* The processor returned or threw. *)
Settle(j, state) == SetState(j, state)

(* Nobody renews the job's lock any more. *)
Stall(j) ==
  /\ job[j].state = "active"
  /\ IF job[j].stalls < MAX_STALLED
       THEN job' = [job EXCEPT ![j] =
                      [state |-> "waiting", data |-> job[j].data, stalls |-> job[j].stalls + 1]]
       ELSE SetState(j, "failed")

JobsTypeOK(Data) ==
  job \in [Jobs -> [state : JobStates, data : Data \cup {None}, stalls : 0 .. MAX_STALLED]]

=============================================================================
