-------------------------- MODULE MCOrchestration --------------------------
(* Two processes, two agents, one finding.  `{2}' with a count of two is   *)
(* the ensure whose filler name is taken.                                  *)
EXTENDS Orchestration, TLC
CONSTANTS p1, p2
MCProcs == {p1, p2}
MCSymmetry == Permutations(MCProcs)
MCPrograms ==
    {CompletionStatus, RunCoordinator(2, "f1", 2), HandleTimeout(1),
     <<Write({"found", "checkpoint"}, EmptyPad)>>,
     TaskgroupEnsure([a \in {2} |-> "pending"], 2), TaskgroupEnsure(<<"pending", "done">>, 2),
     CompletionTrack(2, "timeout"), TaskgroupUpdate(1, "running"), TaskgroupUpdate(1, "done")}

(* Agents that report with completion.track to a group that is made first. *)
MCReports ==
    {TaskgroupEnsure([a \in Agents |-> "pending"], MaxAgents)}
    \cup {CompletionTrack(a, "done") : a \in Agents}
=============================================================================
