---------------------------- MODULE BuildPipeline ----------------------------
(***************************************************************************)
(* One call of Builder.Build (pkg/builder): a temporary directory, the     *)
(* build environment of pkg/xcaddy (newEnvironment, Builder.Build), whose  *)
(* go commands run one after the other in the sandbox, and the storage of  *)
(* what they made.                                                         *)
(*                                                                         *)
(* The commands: go mod init; go mod edit, if there are replacements;      *)
(* go get for caddy, for every plugin, and without a module; go mod tidy;  *)
(* go build.  They run with the context of the job and the limit           *)
(* TimeoutBuild, except the go get commands, which have a context of their *)
(* own, made of context.Background() and the limit TimeoutGet.             *)
(***************************************************************************)
EXTENDS Sandbox

CONSTANTS
    Plugins,   \* how many plugins the job has
    Replacing  \* whether it has replacements

FirstGet == IF Replacing THEN 3 ELSE 2

LastGet == FirstGet + Plugins + 1

ASSUME PipelineAssumption ==
    /\ Plugins \in Nat
    /\ Replacing \in BOOLEAN
    /\ Commands = 1 .. LastGet + 2

VARIABLES
    stage,     \* where Builder.Build is
    current,   \* the command it has come to
    ended,     \* what has ended the contexts of this build
    buildDir,  \* the temporary directory exists
    client     \* the client of the Docker daemon

pipelineVars == <<stage, current, ended, buildDir, client>>
buildVars == <<sandboxVars, pipelineVars, faults>>

-----------------------------------------------------------------------------
Stages == {"idle", "parse", "environment", "pull", "commands", "store", "ok", "failed",
           "over"}

\* "timeout" is TimeoutBuild, "get timeout" TimeoutGet.
Endings == {"cancelled", "timeout", "get timeout"}

PipelineInit ==
    /\ stage = "idle"
    /\ current = 1
    /\ ended = {}
    /\ buildDir = FALSE
    /\ client = "none"
    /\ SandboxInit

GetCommands == FirstGet .. LastGet

JobDone == ended \cap {"cancelled", "timeout"} # {}

\* Mutant: the go get commands have no time limit of their own either.
GetNeverDone(c) == c \notin GetCommands /\ JobDone

\* Mutant: the context of the go get commands is kept for the rest.
DoneAfterGet(c) == IF c >= FirstGet THEN "get timeout" \in ended ELSE JobDone

\* The context of a command is done.
Done(c) == IF c \in GetCommands THEN "get timeout" \in ended ELSE JobDone

Underway == stage \notin {"idle", "ok", "failed", "over"}

StageGoesTo(s) == stage' = s

BuildReturned == stage \in {"ok", "failed"}

\* Builder.Build returns.  The deferred RemoveAll may fail, and nobody learns of it.
Leave(result) == StageGoesTo(result) /\ buildDir' \in {FALSE, buildDir}

-----------------------------------------------------------------------------
\* Builder.Build is called.
Begin ==
    /\ stage = "idle"
    /\ StageGoesTo("parse")
    /\ UNCHANGED <<sandboxVars, current, ended, buildDir, client, faults>>

\* parsePlugins, parseReplacements, MkdirTemp.
MakeBuildDir ==
    /\ stage = "parse"
    /\ buildDir' = TRUE
    /\ StageGoesTo("environment")
    /\ UNCHANGED <<sandboxVars, current, ended, client, faults>>

\* A replacement of a bad form, or no directory.
Rejected ==
    /\ stage = "parse"
    /\ StageGoesTo("failed")
    /\ UNCHANGED <<sandboxVars, current, ended, buildDir, client, faults>>

\* newEnvironment: module paths, main.go, the Docker client.
PrepareEnvironment ==
    /\ stage = "environment"
    /\ client' = "open"
    /\ StageGoesTo("pull")
    /\ UNCHANGED <<sandboxVars, current, ended, buildDir, faults>>

\* A version that does not fit its module path (versionedModulePath), or main.go
\* cannot be written.
EnvironmentFails ==
    /\ stage = "environment"
    /\ Leave("failed")
    /\ UNCHANGED <<sandboxVars, current, ended, client, faults>>

PullImage ==
    /\ stage = "pull"
    /\ ~ JobDone
    /\ StageGoesTo("commands")
    /\ UNCHANGED <<sandboxVars, current, ended, buildDir, client, faults>>

PullFails ==
    /\ stage = "pull"
    /\ Fails(JobDone)
    /\ Leave("failed")
    /\ UNCHANGED <<sandboxVars, current, ended, client>>

Command ==
    /\ stage = "commands"
    /\ RunCommand(current) \/ CallStep(current, Done(current))
    /\ UNCHANGED pipelineVars

\* The context of the go get commands is looked at after each of a plugin.
ChecksContext(c) == c \in FirstGet + 1 .. LastGet - 1

Succeeded(c) == call[c] = "ok" /\ ~ (ChecksContext(c) /\ Done(c))

\* Mutant: the error of go mod tidy is ignored.
TidyMayFail ==
    /\ stage = "commands"
    /\ \/ Succeeded(current)
       \/ current = LastGet + 1 /\ call[current] = "error"
    /\ current + 1 \in Commands
    /\ current' = current + 1
    /\ UNCHANGED <<sandboxVars, stage, ended, buildDir, client, faults>>

NextCommand ==
    /\ stage = "commands"
    /\ Succeeded(current)
    /\ current + 1 \in Commands
    /\ current' = current + 1
    /\ UNCHANGED <<sandboxVars, stage, ended, buildDir, client, faults>>

\* xcaddy's Build returns; its deferred Close closes the client.
BinaryBuilt ==
    /\ stage = "commands"
    /\ Succeeded(current)
    /\ current + 1 \notin Commands
    /\ client' = "closed"
    /\ StageGoesTo("store")
    /\ UNCHANGED <<sandboxVars, current, ended, buildDir, faults>>

\* An error in newEnvironment returns before there is a deferred Close.
CommandFailed ==
    /\ stage = "commands"
    /\ call[current] \in {"ok", "error"} /\ ~ Succeeded(current)
    /\ client' = IF current > LastGet THEN "closed" ELSE client
    /\ Leave("failed")
    /\ UNCHANGED <<sandboxVars, current, ended, faults>>

\* SignFile and Storage.Put, which do not look at the context and have no limit
\* of their own.
Store ==
    /\ stage = "store"
    /\ Leave("ok")
    /\ UNCHANGED <<sandboxVars, current, ended, client, faults>>

StoreFails ==
    /\ stage = "store"
    /\ Leave("failed")
    /\ Fault
    /\ UNCHANGED <<sandboxVars, current, ended, client>>

PipelineStep ==
    \/ Begin
    \/ MakeBuildDir
    \/ Rejected
    \/ PrepareEnvironment
    \/ EnvironmentFails
    \/ PullImage
    \/ PullFails
    \/ Command
    \/ NextCommand
    \/ BinaryBuilt
    \/ CommandFailed
    \/ Store
    \/ StoreFails

-----------------------------------------------------------------------------
(* What ends the contexts.                                                 *)

Ends(cause) ==
    /\ cause \notin ended
    /\ ended' = ended \cup {cause}
    /\ UNCHANGED <<sandboxVars, stage, current, buildDir, client, faults>>

\* (Later than a cancellation it ends nothing.)
BuildTimeout ==
    stage \in {"environment", "pull", "commands"} /\ ~ JobDone /\ Ends("timeout")

GetTimeout ==
    stage = "commands" /\ current \in GetCommands /\ Ends("get timeout")

TimerStep == BuildTimeout \/ GetTimeout

Cancel == Underway /\ ~ JobDone /\ Ends("cancelled")

\* Whoever called Builder.Build has its result, or the process has ended.  What
\* the build has left behind is not followed any further.
BuildIsOver ==
    /\ stage' = "over"
    /\ current' = 1
    /\ ended' = {}
    /\ buildDir' = FALSE
    /\ client' = "none"
    /\ call' = [c \in Commands |-> "none"]
    /\ container' = [c \in Commands |-> "none"]
    /\ exit' = [c \in Commands |-> "none"]
    /\ copier' = [c \in Commands |-> FALSE]

Daemon == (\E c \in Commands : DaemonStep(c)) /\ UNCHANGED pipelineVars

PipelineNext == PipelineStep \/ TimerStep \/ Cancel \/ Daemon

PipelineSpec == PipelineInit /\ [][PipelineNext]_buildVars

\* The goroutines run, the daemon answers and the timers fire; a command in a
\* container, or the upload of the binary, need not come to an end.
BuildFairness ==
    /\ WF_buildVars(PipelineStep /\ stage # "store")
    /\ WF_buildVars(BuildTimeout)
    /\ WF_buildVars(GetTimeout)
    /\ \A c \in Commands : WF_buildVars(CopierEnds(c) /\ UNCHANGED pipelineVars)

FairPipelineSpec == PipelineSpec /\ BuildFairness

-----------------------------------------------------------------------------
\* The container of a command is there and will not go away by itself.
Lingers(c) == container[c] \in {"created", "running"}

(* Type correctness of a build and its commands.                           *)
PipelineTypeOK ==
    /\ call \in [Commands -> CallStages]
    /\ container \in [Commands -> ContainerStates]
    /\ exit \in [Commands -> {"none", "zero", "nonzero"}]
    /\ copier \in [Commands -> BOOLEAN]
    /\ stage \in Stages
    /\ current \in Commands
    /\ ended \subseteq Endings
    /\ buildDir \in BOOLEAN
    /\ client \in {"none", "open", "closed"}
    /\ faults \in 0 .. MaxFaults

(* All commands work in the same mounted directory, and write into the     *)
(* same output buffer: there are never two containers of a build at work,  *)
(* nor two goroutines that copy output, however a call ended.              *)
OneContainer ==
    \A c, d \in Commands :
        c # d => /\ ~ (Lingers(c) /\ Lingers(d))
                 /\ ~ (copier[c] /\ copier[d])

(* A build that succeeds has run every command to exit code 0, and leaves  *)
(* no container, no goroutine that still copies into its buffer and no     *)
(* connection behind.                                                      *)
SuccessIsClean ==
    stage \in {"store", "ok"} =>
        /\ \A c \in Commands : exit[c] = "zero" /\ ~ Lingers(c) /\ ~ copier[c]
        /\ client = "closed"

(* A command that exits with 0 counts as done, unless its context ended or *)
(* the daemon failed, or it was so quick that its container was removed    *)
(* before the wait for its exit was registered.                            *)
ZeroExitCounts ==
    [][\A c \in Commands :
          /\ call[c] # "failing" /\ call'[c] = "failing"
          /\ exit[c] = "zero"
          => \/ call[c] = "wait" /\ container[c] = "gone"
             \/ Done(c)
             \/ faults' > faults]_buildVars

(* A call returns without its container removed only if the request that   *)
(* created it, or the one that removes it, failed, which a context that is *)
(* done makes it do: no early return in between skips the removal.         *)
LeakExplained ==
    [][\A c \in Commands :
          /\ call[c] # call'[c] /\ call'[c] \in {"ok", "error"}
          /\ Lingers(c)'
          => /\ call[c] \in {"create", "failing", "finishing"}
             /\ Done(c) \/ faults' > faults]_buildVars

(* A job that is cancelled, or out of time, does not run another command   *)
(* than the rest of its go get commands.                                   *)
CancelStopsBuild ==
    [][\A c \in Commands \ GetCommands :
          JobDone /\ container[c] # "running" /\ container'[c] = "running"
              => call'[c] = "failing"]_buildVars

(* Every build comes to an end or to the upload of its binary, although    *)
(* its commands need not end and the daemon may fail: one of the time      *)
(* limits ends each of its waits.  Nothing limits the upload.              *)
BuildEnds == stage # "idle" ~> stage \in {"store", "ok", "failed", "over"}
=============================================================================
