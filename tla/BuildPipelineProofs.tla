------------------------- MODULE BuildPipelineProofs -------------------------
(***************************************************************************)
(* What a build guarantees for any number of plugins, with replacements or *)
(* without, and for any number of failures, whatever ends its contexts and *)
(* whenever.                                                               *)
(***************************************************************************)
EXTENDS BuildPipeline, TLAPS

\* The calls and the containers are well typed (part of PipelineTypeOK).
SandboxType ==
    /\ call \in [Commands -> CallStages]
    /\ container \in [Commands -> ContainerStates]
    /\ exit \in [Commands -> {"none", "zero", "nonzero"}]
    /\ copier \in [Commands -> BOOLEAN]
    /\ faults \in 0 .. MaxFaults

\* How far a call has come agrees with what the daemon and the copying
\* goroutine have done for it.
CallAgrees(c) ==
    /\ call[c] \in {"none", "create"} => container[c] = "none"
    /\ call[c] \in {"attach", "start"} => container[c] = "created"
    /\ call[c] \in {"none", "create", "attach", "start"} => ~ copier[c]
    /\ container[c] \in {"none", "created", "running"} => exit[c] = "none"
    /\ call[c] = "drain" => exit[c] # "none"
    /\ call[c] \in {"finishing", "ok"} => exit[c] = "zero" /\ ~ copier[c]

\* The commands before the current one have succeeded, those after it have not
\* begun.
InOrder ==
    \A c \in Commands : /\ c < current => call[c] = "ok"
                        /\ c > current => call[c] = "none"

\* What is stored is the work of all commands.
AllDone ==
    stage \in {"store", "ok"} =>
        /\ \A c \in Commands : call[c] = "ok"
        /\ client = "closed"

PipelineInv ==
    /\ PipelineTypeOK
    /\ \A c \in Commands : CallAgrees(c)
    /\ InOrder
    /\ AllDone

-----------------------------------------------------------------------------
(* The sandbox: one command, whatever its context does.                    *)

\* A step of the call for c.
CallActs(c, done) == RunCommand(c) \/ CallStep(c, done)

(* A request that fails leaves the count of failures in its bounds, and    *)
(* without a context that is done it counts.                               *)
LEMMA FailsCounts ==
    ASSUME NEW done, faults \in 0 .. MaxFaults, Fails(done)
    PROVE  faults' \in 0 .. MaxFaults /\ (done \/ faults' > faults)
BY FaultsAssumption DEF Fails, Fault

(* A step of the call for c keeps the calls well typed and in agreement    *)
(* with the daemon, and does nothing to the other commands.                *)
LEMMA CallKeeps ==
    ASSUME NEW c \in Commands, NEW done, SandboxType,
           \A d \in Commands : CallAgrees(d),
           CallActs(c, done)
    PROVE  /\ SandboxType'
           /\ \A d \in Commands : CallAgrees(d)'
           /\ \A d \in Commands : d # c =>
                 /\ call'[d] = call[d] /\ container'[d] = container[d]
                 /\ exit'[d] = exit[d] /\ copier'[d] = copier[d]
<1> USE DEF SandboxType, CallAgrees, CallGoesTo, Becomes, MaybeBecomes
<1> USE DEF CallStages, ContainerStates
<1>1. CASE RunCommand(c)
  BY <1>1 DEF RunCommand
<1>2. CASE CreateContainer(c)
  BY <1>2 DEF CreateContainer
<1>3. CASE AttachContainer(c)
  BY <1>3 DEF AttachContainer
<1>4. CASE StartContainer(c)
  BY <1>4 DEF StartContainer
<1>5. CASE RegisterWait(c)
  BY <1>5 DEF RegisterWait
<1>6. CASE WaitTooLate(c)
  BY <1>6 DEF WaitTooLate
<1>7. CASE RemoveContainer(c)
  BY <1>7 DEF RemoveContainer, Returns
<1>8. CASE CreateFails(c, done)
  BY <1>8, FailsCounts DEF CreateFails
<1>9. CASE AttachFails(c, done)
  BY <1>9, FailsCounts DEF AttachFails
<1>10. CASE StartFails(c, done)
  BY <1>10, FailsCounts DEF StartFails
<1>11. CASE WaitFails(c, done)
  BY <1>11, FailsCounts DEF WaitFails
<1>12. CASE RemoveFails(c, done)
  BY <1>12, FailsCounts DEF RemoveFails, Returns
<1>13. CASE StatusArrives(c)
  BY <1>13 DEF StatusArrives
<1>14. CASE OutputComplete(c)
  BY <1>14 DEF OutputComplete
<1> QED
  BY <1>1, <1>2, <1>3, <1>4, <1>5, <1>6, <1>7, <1>8, <1>9, <1>10, <1>11, <1>12,
     <1>13, <1>14, Zenon DEF CallActs, CallStep

(* So does a step of the daemon or of the goroutine that copies, which     *)
(* moves no call.                                                          *)
LEMMA DaemonKeeps ==
    ASSUME NEW c \in Commands, SandboxType,
           \A d \in Commands : CallAgrees(d),
           DaemonStep(c)
    PROVE  SandboxType' /\ (\A d \in Commands : CallAgrees(d)') /\ call' = call
<1> USE DEF SandboxType, CallAgrees, Becomes, CallStages, ContainerStates
<1>1. CASE Exits(c)
  BY <1>1 DEF Exits
<1>2. CASE AutoRemove(c)
  BY <1>2 DEF AutoRemove
<1>3. CASE CopierEnds(c)
  BY <1>3 DEF CopierEnds
<1> QED
  BY <1>1, <1>2, <1>3, Zenon DEF DaemonStep

-----------------------------------------------------------------------------
(* The pipeline.                                                           *)

(* The commands are numbered, so that there is a first and a last one.     *)
LEMMA CommandNumbers ==
    /\ FirstGet \in Nat \ {0} /\ LastGet \in Nat /\ LastGet > FirstGet
    /\ Commands = 1 .. LastGet + 2
BY PipelineAssumption DEF FirstGet, LastGet

LEMMA InitInv == PipelineInit => PipelineInv
<1> SUFFICES ASSUME PipelineInit
             PROVE  PipelineInv
  OBVIOUS
<1> USE DEF PipelineInit, SandboxInit
<1>1. PipelineTypeOK
  <2>1. current \in Commands /\ faults \in 0 .. MaxFaults
    BY CommandNumbers, FaultsAssumption
  <2>2. copier \in [Commands -> BOOLEAN] /\ buildDir \in BOOLEAN
    OBVIOUS
  <2>3. /\ call \in [Commands -> CallStages]
        /\ container \in [Commands -> ContainerStates]
        /\ exit \in [Commands -> {"none", "zero", "nonzero"}]
    BY DEF CallStages, ContainerStates
  <2>4. stage \in Stages /\ ended \subseteq Endings /\ client \in {"none", "open", "closed"}
    BY DEF Stages
  <2> QED
    BY <2>1, <2>2, <2>3, <2>4 DEF PipelineTypeOK
<1>2. \A c \in Commands : CallAgrees(c)
  BY DEF CallAgrees
<1>3. InOrder
  BY CommandNumbers DEF InOrder
<1>4. AllDone
  BY DEF AllDone
<1> QED
  BY <1>1, <1>2, <1>3, <1>4 DEF PipelineInv

(* A step that moves no call, and leaves the number of the command alone,  *)
(* keeps the invariant if it keeps the types and what a stored build needs.*)
LEMMA SandboxAtRest ==
    ASSUME PipelineInv, UNCHANGED <<sandboxVars, current>>, PipelineTypeOK', AllDone'
    PROVE  PipelineInv'
BY DEF PipelineInv, CallAgrees, InOrder, sandboxVars

LEMMA StepInv == PipelineInv /\ [PipelineNext]_buildVars => PipelineInv'
<1> SUFFICES ASSUME PipelineInv, [PipelineNext]_buildVars
             PROVE  PipelineInv'
  OBVIOUS
<1> USE DEF PipelineInv
<1>0. PipelineTypeOK => SandboxType
  BY DEF PipelineTypeOK, SandboxType
<1>1. CASE Command
  <2>1. /\ current \in Commands /\ stage = "commands" /\ UNCHANGED pipelineVars
        /\ CallActs(current, Done(current))
    BY <1>1, Zenon DEF Command, CallActs, PipelineTypeOK
  <2>2. /\ SandboxType'
        /\ \A d \in Commands : CallAgrees(d)'
        /\ \A d \in Commands : d # current => call'[d] = call[d]
    BY <1>0, <2>1, CallKeeps
  <2>3. PipelineTypeOK'
    BY <2>1, <2>2 DEF PipelineTypeOK, SandboxType, pipelineVars
  <2>4. InOrder'
    BY <2>1, <2>2, CommandNumbers DEF InOrder, pipelineVars
  <2>5. AllDone'
    BY <2>1 DEF AllDone, pipelineVars
  <2> QED
    BY <2>2, <2>3, <2>4, <2>5
<1>2. CASE Daemon
  <2>1. PICK c \in Commands : DaemonStep(c)
    BY <1>2 DEF Daemon
  <2>2. SandboxType' /\ (\A d \in Commands : CallAgrees(d)') /\ call' = call
    BY <1>0, <2>1, DaemonKeeps
  <2>3. UNCHANGED pipelineVars
    BY <1>2 DEF Daemon
  <2>4. PipelineTypeOK'
    BY <2>2, <2>3 DEF PipelineTypeOK, SandboxType, pipelineVars
  <2>5. InOrder' /\ AllDone'
    BY <2>2, <2>3 DEF InOrder, AllDone, pipelineVars
  <2> QED
    BY <2>2, <2>4, <2>5
<1>3. CASE NextCommand
  <2>1. /\ current \in Commands /\ current' = current + 1 /\ current' \in Commands
        /\ call[current] = "ok" /\ stage = "commands"
        /\ UNCHANGED <<sandboxVars, stage, ended, buildDir, client, faults>>
    BY <1>3 DEF NextCommand, Succeeded, PipelineTypeOK
  <2>2. PipelineTypeOK'
    BY <2>1 DEF PipelineTypeOK, sandboxVars
  <2>3. InOrder'
    BY <2>1, CommandNumbers DEF InOrder, sandboxVars
  <2>4. \A c \in Commands : CallAgrees(c)'
    BY <2>1 DEF CallAgrees, sandboxVars
  <2>5. AllDone'
    BY <2>1 DEF AllDone
  <2> QED
    BY <2>2, <2>3, <2>4, <2>5
<1>4. CASE BinaryBuilt
  <2>1. \A c \in Commands : call[c] = "ok"
    BY <1>4, CommandNumbers DEF BinaryBuilt, Succeeded, InOrder, PipelineTypeOK
  <2>2. PipelineTypeOK'
    BY <1>4 DEF BinaryBuilt, StageGoesTo, PipelineTypeOK, sandboxVars, Stages
  <2>3. AllDone'
    BY <1>4, <2>1 DEF BinaryBuilt, StageGoesTo, AllDone, sandboxVars
  <2> QED
    BY <1>4, <2>2, <2>3, SandboxAtRest DEF BinaryBuilt
<1>5. CASE Store
  <2>1. PipelineTypeOK'
    BY <1>5 DEF Store, Leave, StageGoesTo, PipelineTypeOK, sandboxVars, Stages
  <2>2. AllDone'
    BY <1>5 DEF Store, Leave, StageGoesTo, AllDone, sandboxVars
  <2> QED
    BY <1>5, <2>1, <2>2, SandboxAtRest DEF Store
<1>6. CASE \/ Begin \/ MakeBuildDir \/ Rejected \/ PrepareEnvironment \/ EnvironmentFails
           \/ PullImage \/ PullFails \/ CommandFailed \/ StoreFails
  <2>0. faults \in 0 .. MaxFaults /\ buildDir \in BOOLEAN
    BY DEF PipelineTypeOK
  <2>2. faults' \in 0 .. MaxFaults
    <3>1. CASE PullFails
      BY <2>0, <3>1, FailsCounts DEF PullFails
    <3>2. CASE StoreFails
      BY <2>0, <3>2, FaultsAssumption DEF StoreFails, Fault
    <3>3. CASE ~ PullFails /\ ~ StoreFails
      <4>1. UNCHANGED faults
        BY <1>6, <3>3, Zenon
           DEF Begin, MakeBuildDir, Rejected, PrepareEnvironment, EnvironmentFails,
               PullImage, CommandFailed
      <4> QED
        BY <2>0, <4>1
    <3> QED
      BY <3>1, <3>2, <3>3
  <2>4. buildDir' \in BOOLEAN
    <3>1. ASSUME NEW result, Leave(result)
          PROVE  buildDir' \in BOOLEAN
      <4>1. buildDir' = FALSE \/ buildDir' = buildDir
        BY <3>1, Zenon DEF Leave
      <4> QED
        BY <2>0, <4>1
    <3> QED
      BY <1>6, <2>0, <3>1
         DEF Begin, MakeBuildDir, Rejected, PrepareEnvironment, EnvironmentFails,
             PullImage, PullFails, CommandFailed, StoreFails
  <2> USE DEF Begin, MakeBuildDir, Rejected, PrepareEnvironment, EnvironmentFails,
              PullImage, PullFails, CommandFailed, StoreFails, Leave, StageGoesTo
  <2>1. UNCHANGED <<sandboxVars, current, ended>> /\ stage' \notin {"store", "ok"}
    BY <1>6
  <2>3. PipelineTypeOK'
    BY <1>6, <2>1, <2>2, <2>4 DEF PipelineTypeOK, sandboxVars, Stages
  <2>5. AllDone'
    BY <2>1 DEF AllDone
  <2> QED
    BY <2>1, <2>3, <2>5, SandboxAtRest
<1>7. CASE TimerStep \/ Cancel
  <2>1. /\ UNCHANGED <<sandboxVars, stage, current, buildDir, client, faults>>
        /\ \E cause \in Endings : ended' = ended \cup {cause}
    BY <1>7 DEF TimerStep, BuildTimeout, GetTimeout, Cancel, Ends, Endings
  <2>2. PipelineTypeOK'
    BY <2>1 DEF PipelineTypeOK, sandboxVars
  <2>3. AllDone'
    BY <2>1 DEF AllDone, sandboxVars
  <2> QED
    BY <2>1, <2>2, <2>3, SandboxAtRest
<1>8. CASE UNCHANGED buildVars
  BY <1>8 DEF buildVars, sandboxVars, pipelineVars, PipelineTypeOK, CallAgrees, InOrder,
              AllDone
<1> QED
  BY <1>1, <1>2, <1>3, <1>4, <1>5, <1>6, <1>7, <1>8, Zenon DEF PipelineNext, PipelineStep

LEMMA InvHolds == PipelineSpec => []PipelineInv
BY InitInv, StepInv, PTL DEF PipelineSpec

-----------------------------------------------------------------------------
(* Type correctness of a build, its commands and their containers.         *)
THEOREM PipelineTypeCorrect == PipelineSpec => []PipelineTypeOK
<1>1. PipelineInv => PipelineTypeOK
  BY DEF PipelineInv
<1> QED
  BY <1>1, InvHolds, PTL

(* Two containers of one build never work in its directory at a time, nor  *)
(* do two goroutines write into its output buffer: only the current        *)
(* command can have either, as all before it have succeeded.               *)
THEOREM OneContainerHolds == PipelineSpec => []OneContainer
<1>1. PipelineInv => OneContainer
  <2> SUFFICES ASSUME PipelineInv, NEW c \in Commands, NEW d \in Commands, c # d
               PROVE  ~ (Lingers(c) /\ Lingers(d)) /\ ~ (copier[c] /\ copier[d])
    BY DEF OneContainer
  <2>1. \A e \in Commands : e # current => ~ Lingers(e) /\ ~ copier[e]
    <3> SUFFICES ASSUME NEW e \in Commands, e # current
                 PROVE  ~ Lingers(e) /\ ~ copier[e]
      OBVIOUS
    <3>1. call[e] \in {"none", "ok"}
      BY CommandNumbers DEF PipelineInv, PipelineTypeOK, InOrder
    <3> QED
      BY <3>1 DEF PipelineInv, CallAgrees, Lingers
  <2> QED
    BY <2>1
<1> QED
  BY <1>1, InvHolds, PTL

(* A build that succeeds has run every command to exit code 0 and leaves   *)
(* no container, copying goroutine or connection behind.                   *)
THEOREM SuccessIsCleanHolds == PipelineSpec => []SuccessIsClean
<1>1. PipelineInv => SuccessIsClean
  BY DEF PipelineInv, SuccessIsClean, AllDone, CallAgrees, Lingers
<1> QED
  BY <1>1, InvHolds, PTL

-----------------------------------------------------------------------------
(* A call gets on by steps of its own only, while the pipeline is at its   *)
(* command.                                                                *)
LEMMA StepOfCall ==
    ASSUME PipelineInv, [PipelineNext]_buildVars, NEW c \in Commands, call'[c] # call[c]
    PROVE  CallActs(c, Done(c)) /\ current = c
<1> USE DEF PipelineInv
<1>1. SandboxType
  BY DEF PipelineTypeOK, SandboxType
<1>2. Command
  <2>1. CASE Daemon
    BY <1>1, <2>1, DaemonKeeps DEF Daemon
  <2>2. CASE (PipelineStep /\ ~ Command) \/ TimerStep \/ Cancel \/ UNCHANGED buildVars
    <3>1. UNCHANGED sandboxVars
      BY <2>2 DEF PipelineStep, Begin, MakeBuildDir, Rejected, PrepareEnvironment,
                  EnvironmentFails, PullImage, PullFails, NextCommand, BinaryBuilt,
                  CommandFailed, Store, StoreFails, TimerStep, BuildTimeout, GetTimeout,
                  Cancel, Ends, buildVars
    <3> QED
      BY <3>1 DEF sandboxVars
  <2> QED
    BY <2>1, <2>2, Zenon DEF PipelineNext
<1>3. current \in Commands /\ CallActs(current, Done(current))
  BY <1>2, Zenon DEF Command, CallActs, PipelineTypeOK
<1> QED
  BY <1>1, <1>3, CallKeeps

(* A container begins to run by a step of the call for its command only.   *)
LEMMA StartOfContainer ==
    ASSUME PipelineInv, [PipelineNext]_buildVars, NEW c \in Commands,
           container[c] # "running", container'[c] = "running"
    PROVE  CallActs(c, Done(c)) /\ call'[c] # call[c]
<1> USE DEF PipelineInv
<1>1. SandboxType
  BY DEF PipelineTypeOK, SandboxType
<1>2. Command
  <2>1. CASE Daemon
    BY <1>1, <2>1
       DEF Daemon, DaemonStep, Exits, AutoRemove, CopierEnds, Becomes, SandboxType
  <2>2. CASE (PipelineStep /\ ~ Command) \/ TimerStep \/ Cancel \/ UNCHANGED buildVars
    <3>1. UNCHANGED sandboxVars
      BY <2>2 DEF PipelineStep, Begin, MakeBuildDir, Rejected, PrepareEnvironment,
                  EnvironmentFails, PullImage, PullFails, NextCommand, BinaryBuilt,
                  CommandFailed, Store, StoreFails, TimerStep, BuildTimeout, GetTimeout,
                  Cancel, Ends, buildVars
    <3> QED
      BY <3>1 DEF sandboxVars
  <2> QED
    BY <2>1, <2>2, Zenon DEF PipelineNext
<1>3. current \in Commands /\ CallActs(current, Done(current))
  BY <1>2, Zenon DEF Command, CallActs, PipelineTypeOK
<1>4. current = c
  BY <1>1, <1>3, CallKeeps
<1>5. StartContainer(c) \/ StartFails(c, Done(c))
  BY <1>1, <1>3, <1>4
     DEF CallActs, CallStep, RunCommand, CreateContainer, AttachContainer, RegisterWait,
         WaitTooLate, RemoveContainer, CreateFails, AttachFails, WaitFails, RemoveFails,
         StatusArrives, OutputComplete, Becomes, MaybeBecomes, SandboxType
<1> QED
  BY <1>1, <1>3, <1>4, <1>5 DEF StartContainer, StartFails, CallGoesTo, SandboxType

(* A job that is cancelled or out of time runs nothing more than the rest  *)
(* of its go get commands: a request to start a container is sent under a  *)
(* context that is not done, and one that was in flight leads to an error. *)
THEOREM CancelStopsBuildHolds == PipelineSpec => CancelStopsBuild
<1>1. PipelineInv /\ [PipelineNext]_buildVars =>
        [\A c \in Commands \ GetCommands :
            JobDone /\ container[c] # "running" /\ container'[c] = "running"
                => call'[c] = "failing"]_buildVars
  <2> SUFFICES ASSUME PipelineInv, [PipelineNext]_buildVars,
                      NEW c \in Commands \ GetCommands,
                      JobDone, container[c] # "running", container'[c] = "running"
               PROVE  call'[c] = "failing"
    OBVIOUS
  <2>1. CallActs(c, Done(c)) /\ Done(c)
    BY StartOfContainer DEF Done
  <2>2. SandboxType
    BY DEF PipelineInv, PipelineTypeOK, SandboxType
  <2> QED
    BY <2>1, <2>2
       DEF CallActs, CallStep, RunCommand, CreateFails, AttachFails, StartFails, WaitFails,
           RemoveFails, StatusArrives, OutputComplete, Becomes, MaybeBecomes, CallGoesTo,
           SandboxType
<1> QED
  BY <1>1, InvHolds, PTL DEF PipelineSpec, CancelStopsBuild

(* A command that exited with 0 is an error only when its context ended,   *)
(* the daemon failed, or its container was gone before the wait for it.    *)
THEOREM ZeroExitCountsHolds == PipelineSpec => ZeroExitCounts
<1>1. PipelineInv /\ [PipelineNext]_buildVars =>
        [\A c \in Commands :
            /\ call[c] # "failing" /\ call'[c] = "failing"
            /\ exit[c] = "zero"
            => \/ call[c] = "wait" /\ container[c] = "gone"
               \/ Done(c)
               \/ faults' > faults]_buildVars
  <2> SUFFICES ASSUME PipelineInv, [PipelineNext]_buildVars, NEW c \in Commands,
                      call[c] # "failing", call'[c] = "failing", exit[c] = "zero"
               PROVE  \/ call[c] = "wait" /\ container[c] = "gone"
                      \/ Done(c)
                      \/ faults' > faults
    OBVIOUS
  <2>1. CallActs(c, Done(c))
    BY StepOfCall
  <2>2. SandboxType
    BY DEF PipelineInv, PipelineTypeOK, SandboxType
  <2>3. Fails(Done(c)) => Done(c) \/ faults' > faults
    BY <2>2, FailsCounts DEF SandboxType
  <2> QED
    BY <2>1, <2>2, <2>3
       DEF CallActs, CallStep, RunCommand, CreateContainer, AttachContainer, StartContainer,
           RegisterWait, WaitTooLate, RemoveContainer, CreateFails, AttachFails, StartFails,
           WaitFails, RemoveFails, StatusArrives, OutputComplete, CallGoesTo, Returns,
           SandboxType
<1> QED
  BY <1>1, InvHolds, PTL DEF PipelineSpec, ZeroExitCounts

(* A container is left behind only by a request that failed, the one that  *)
(* created it or the one that removes it.                                  *)
THEOREM LeakExplainedHolds == PipelineSpec => LeakExplained
<1>1. PipelineInv /\ [PipelineNext]_buildVars =>
        [\A c \in Commands :
            /\ call[c] # call'[c] /\ call'[c] \in {"ok", "error"}
            /\ Lingers(c)'
            => /\ call[c] \in {"create", "failing", "finishing"}
               /\ Done(c) \/ faults' > faults]_buildVars
  <2> SUFFICES ASSUME PipelineInv, [PipelineNext]_buildVars, NEW c \in Commands,
                      call[c] # call'[c], call'[c] \in {"ok", "error"}, Lingers(c)'
               PROVE  /\ call[c] \in {"create", "failing", "finishing"}
                      /\ Done(c) \/ faults' > faults
    OBVIOUS
  <2>1. CallActs(c, Done(c))
    BY StepOfCall
  <2>2. SandboxType
    BY DEF PipelineInv, PipelineTypeOK, SandboxType
  <2>3. Fails(Done(c)) => Done(c) \/ faults' > faults
    BY <2>2, FailsCounts DEF SandboxType
  <2>4. CreateFails(c, Done(c)) \/ RemoveFails(c, Done(c))
    BY <2>1, <2>2
       DEF CallActs, CallStep, RunCommand, CreateContainer, AttachContainer, StartContainer,
           RegisterWait, WaitTooLate, RemoveContainer, AttachFails, StartFails, WaitFails,
           StatusArrives, OutputComplete, CallGoesTo, Becomes, Returns, Lingers, SandboxType
  <2> QED
    BY <2>3, <2>4 DEF CreateFails, RemoveFails
<1> QED
  BY <1>1, InvHolds, PTL DEF PipelineSpec, LeakExplained
=============================================================================
