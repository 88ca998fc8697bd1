---------------------------- MODULE MCDeployment ----------------------------
(* Small instances of Deployment for TLC. *)
EXTENDS Deployment, TLC

Symmetry == Permutations(Handlers)

Step(kind, skip) == [kind |-> kind, skip |-> skip]

(* The shape of the default pipeline: build, restart, propagate to the     *)
(* replicas, and a step that is switched off.                              *)
DefaultPipeline == <<Step("command", FALSE), Step("command", TRUE),
                     Step("restart", FALSE), Step("propagate", FALSE)>>

(* A command, which may have to be tried again, and the restart: every way *)
(* a run can end, be interrupted and be resumed.                           *)
ShortPipeline == <<Step("command", FALSE), Step("restart", FALSE)>>

(* A pipeline that goes on after the propagation, to a command. *)
CommandLast == <<Step("propagate", FALSE), Step("command", FALSE)>>
=============================================================================
