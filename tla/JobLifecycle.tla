----------------------------- MODULE JobLifecycle ----------------------------
(***************************************************************************)
(* What the queue promises about one job, whoever asks and whatever dies:  *)
(* a job is driven by at most one goroutine, only that goroutine (or, once *)
(* its process is dead, the rescue) moves it out of running, only a resume *)
(* moves it out of paused, and a finished job is never touched again but   *)
(* to be deleted.                                                          *)
(***************************************************************************)
CONSTANT Jobs

VARIABLES
    state,      \* the status column
    owned       \* a goroutine is driving the job

vars == <<state, owned>>

Finished == {"done", "failed", "stopped"}

Init ==
    /\ state = [j \in Jobs |-> "none"]
    /\ owned = [j \in Jobs |-> FALSE]

InState(s) == {j \in Jobs : state[j] = s}

Move(S, to) == state' = [j \in Jobs |-> IF j \in S THEN to ELSE state[j]]

\* A request queues jobs.
Queue(S)  == S \subseteq InState("none") /\ Move(S, "pending") /\ UNCHANGED owned

\* A goroutine is launched: for a queued job, or for a manual folder's new one.
Start(j) ==
    /\ state[j] \in {"none", "pending"}
    /\ ~owned[j]
    /\ Move({j}, "running")
    /\ owned' = [owned EXCEPT ![j] = TRUE]

\* The goroutine ends and says how; a job deleted under it stays deleted.
End(j, to) ==
    /\ owned[j]
    /\ to \in Finished \cup {"paused"}
    /\ owned' = [owned EXCEPT ![j] = FALSE]
    /\ \/ state[j] = "running" /\ Move({j}, to)
       \/ state[j] = "deleted" /\ UNCHANGED state

\* The goroutines of S are gone without a word.
Lose(S) ==
    /\ owned' = [j \in Jobs |-> owned[j] /\ j \notin S]
    /\ UNCHANGED state

Rescue(S, to) ==
    /\ S \subseteq InState("running")
    /\ \A j \in S : ~owned[j]
    /\ to \in {"paused", "stopped", "pending"}
    /\ Move(S, to)
    /\ UNCHANGED owned

PauseAll  == Move(InState("pending"), "paused") /\ UNCHANGED owned
ResumeAll == Move(InState("paused"), "pending") /\ UNCHANGED owned
Delete(j) == state[j] # "none" /\ Move({j}, "deleted") /\ UNCHANGED owned

Next ==
    \/ \E S \in SUBSET Jobs :
          \/ Queue(S) \/ Lose(S)
          \/ \E to \in {"paused", "stopped", "pending"} : Rescue(S, to)
    \/ \E j \in Jobs :
          \/ Start(j) \/ Delete(j)
          \/ \E to \in Finished \cup {"paused"} : End(j, to)
    \/ PauseAll \/ ResumeAll

Spec == Init /\ [][Next]_vars
=============================================================================
