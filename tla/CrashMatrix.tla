---------------------------- MODULE CrashMatrix ----------------------------
(***************************************************************************)
(* The crash experiment around the sample agent: a driver launches an      *)
(* agent with faults injected and a crash armed, reads the target's commit *)
(* counter when that process has exited, launches the agent again on the   *)
(* same run without faults, and judges the run by the counter.  The agent  *)
(* is that of AgentLoop; what its processes do beyond the experiment voids *)
(* the driver's row and goes on all the same.                              *)
(***************************************************************************)
EXTENDS AgentLoop

VARIABLES driver,  \* what the driver is waiting for or has come to
          before   \* writes with a commit when the first process had exited

matrixVars == <<driver, before>>

MatrixTypeOK ==
  /\ driver \in {"launch", "crash-child", "restart", "resume-child", "judge", "void"}
  /\ before \subseteq Writes

MatrixInit ==
  /\ LoopInit
  /\ driver = "launch"
  /\ before = {}

-----------------------------------------------------------------------------

Committing == {e \in Writes : commits[e] > 0}

(* Where the crash simulator can be armed: before and after the phases of  *)
(* a step, not inside a tool call or a recovery pass.                      *)
SweepPoint ==
  /\ at \in {"step", "call", "called", "recovering"}
  /\ AllIdle /\ step = "idle"

(* The adapter of the first process loses one request or one response for  *)
(* good; nothing else goes wrong, and the target takes what it is sent.    *)
OnlyInjectedFaults ==
  /\ faults' # faults => driver = "crash-child" /\ faults = 0 /\ pc'[Agent] = "ambiguous"
  /\ late' = late
  /\ pc'[Agent] # "errored"

LaunchCrashChild ==
  /\ driver = "launch"
  /\ StartProcess
  /\ driver' = "crash-child"
  /\ UNCHANGED before

(* SimulatedCrash is caught and becomes the exit code the driver expects.  *)
CrashChildExits ==
  /\ driver = "crash-child"
  /\ SweepPoint
  /\ CrashBetweenCalls
  /\ Goes("down")
  /\ driver' = "restart"
  /\ before' = Committing

LaunchResumeChild ==
  /\ driver = "restart"
  /\ StartProcess
  /\ driver' = "resume-child"
  /\ UNCHANGED before

(* Exit code 0: the agent has returned its result.                         *)
ResumeChildExits ==
  /\ driver = "resume-child"
  /\ Finish /\ at' = "finished"
  /\ driver' = "judge"
  /\ UNCHANGED before

ChildWorks ==
  /\ driver \in {"crash-child", "resume-child"}
  /\ LoopStep /\ at' \notin {"down", "finished"}
  /\ OnlyInjectedFaults
  /\ UNCHANGED matrixVars

(* Another exit code, another fault, another process.                      *)
OutOfExperiment ==
  /\ LoopStep \/ Kill
  /\ driver' = "void"
  /\ UNCHANGED before

MatrixNext ==
  \/ LaunchCrashChild \/ CrashChildExits \/ LaunchResumeChild \/ ResumeChildExits
  \/ ChildWorks \/ OutOfExperiment
  \/ Outside /\ UNCHANGED matrixVars

MatrixSpec == MatrixInit /\ [][MatrixNext]_<<vars, loopVars, matrixVars>>

FairMatrixSpec == MatrixSpec /\ WF_<<vars, loopVars>>(LoopStep)

-----------------------------------------------------------------------------
(* Properties                                                              *)

(* The driver's verdict: wherever the crash was armed, and whichever       *)
(* request or response was lost before it, the restarted agent finishes    *)
(* with one commit per write; writes that had all been committed before    *)
(* the restart are reused and not sent again.                              *)
SweepPasses ==
  driver = "judge" =>
    /\ \A e \in Writes : commits[e] = 1
    /\ before = Writes => resent = {}
=============================================================================
