------------------------------- MODULE Sandbox -------------------------------
(***************************************************************************)
(* DockerSandbox.RunCommandWithNetwork (pkg/sandbox/docker.go): one go     *)
(* command in a container of its own.  The call creates the container,     *)
(* attaches to its output, starts it, copies the output in a goroutine and *)
(* waits for the exit; a deferred call removes the container.              *)
(*                                                                         *)
(* The Docker daemon is external.  Every request to it carries the context *)
(* of the command; `done` says whether that context is cancelled or has    *)
(* expired.  A request whose context is done is not sent, or was in flight *)
(* when it got done: it fails either way, and the daemon may have acted.   *)
(* The same goes for a request that fails by itself, which is a Fault.     *)
(***************************************************************************)
EXTENDS Faults

CONSTANT Commands  \* the commands of a build

VARIABLES
    call,       \* where the call for each command is
    container,  \* the container of each command, at the daemon
    exit,       \* its exit code
    copier      \* the goroutine that copies its output is running

sandboxVars == <<call, container, exit, copier>>

-----------------------------------------------------------------------------
\* "failing" and "finishing" are before the deferred removal, on the way to
\* "error" and "ok"; "drain" is <-outputErr.
CallStages == {"none", "create", "attach", "start", "wait", "waiting", "drain",
               "failing", "finishing", "error", "ok"}

\* A container that has exited is removed by the daemon (AutoRemove); one that
\* was never started is not.
ContainerStates == {"none", "created", "running", "exited", "gone"}

SandboxInit ==
    /\ call = [c \in Commands |-> "none"]
    /\ container = [c \in Commands |-> "none"]
    /\ exit = [c \in Commands |-> "none"]
    /\ copier = [c \in Commands |-> FALSE]
    /\ faults = 0

CallGoesTo(c, stage) == call' = [call EXCEPT ![c] = stage]

Becomes(c, state) == container' = [container EXCEPT ![c] = state]

\* Why a request to the daemon fails.
Fails(done) == IF done THEN UNCHANGED faults ELSE Fault

\* Whether the daemon has acted on a request that failed is not known.
MaybeBecomes(c, state) == Becomes(c, state) \/ UNCHANGED container

-----------------------------------------------------------------------------
RunCommand(c) ==
    /\ call[c] = "none"
    /\ CallGoesTo(c, "create")
    /\ UNCHANGED <<container, exit, copier, faults>>

CreateContainer(c) ==
    /\ call[c] = "create"
    /\ Becomes(c, "created")
    /\ CallGoesTo(c, "attach")
    /\ UNCHANGED <<exit, copier, faults>>

\* No deferred call yet: the id of the container is not known.
CreateFails(c, done) ==
    /\ call[c] = "create"
    /\ Fails(done)
    /\ MaybeBecomes(c, "created")
    /\ CallGoesTo(c, "error")
    /\ UNCHANGED <<exit, copier>>

AttachContainer(c) ==
    /\ call[c] = "attach"
    /\ CallGoesTo(c, "start")
    /\ UNCHANGED <<container, exit, copier, faults>>

\* Mutant: the removal is deferred only when the container is attached to.
AttachFailsAtOnce(c, done) ==
    /\ call[c] = "attach"
    /\ Fails(done)
    /\ CallGoesTo(c, "error")
    /\ UNCHANGED <<container, exit, copier>>

AttachFails(c, done) ==
    /\ call[c] = "attach"
    /\ Fails(done)
    /\ CallGoesTo(c, "failing")
    /\ UNCHANGED <<container, exit, copier>>

\* The goroutine that copies the output starts when the container has.
StartContainer(c) ==
    /\ call[c] = "start"
    /\ Becomes(c, "running")
    /\ copier' = [copier EXCEPT ![c] = TRUE]
    /\ CallGoesTo(c, "wait")
    /\ UNCHANGED <<exit, faults>>

StartFails(c, done) ==
    /\ call[c] = "start"
    /\ Fails(done)
    /\ MaybeBecomes(c, "running")
    /\ CallGoesTo(c, "failing")
    /\ UNCHANGED <<exit, copier>>

\* The wait reaches the daemon, which answers when the container has exited.
RegisterWait(c) ==
    /\ call[c] = "wait"
    /\ container[c] \in {"running", "exited"}
    /\ CallGoesTo(c, "waiting")
    /\ UNCHANGED <<container, exit, copier, faults>>

\* Mutant: the wait is for an exit to come (WaitConditionNextExit).
WaitForNextExit(c) ==
    /\ call[c] = "wait"
    /\ container[c] \in {"exited", "gone"}
    /\ CallGoesTo(c, "failing")
    /\ UNCHANGED <<container, exit, copier, faults>>

\* A command that was quicker than the wait: there is no such container.
WaitTooLate(c) ==
    /\ call[c] = "wait"
    /\ container[c] = "gone"
    /\ CallGoesTo(c, "failing")
    /\ UNCHANGED <<container, exit, copier, faults>>

WaitFails(c, done) ==
    /\ call[c] \in {"wait", "waiting"}
    /\ Fails(done)
    /\ CallGoesTo(c, "failing")
    /\ UNCHANGED <<container, exit, copier>>

StatusArrives(c) ==
    /\ call[c] = "waiting"
    /\ exit[c] # "none"
    /\ CallGoesTo(c, "drain")
    /\ UNCHANGED <<container, exit, copier, faults>>

\* Mutant: the call does not wait for the output.
OutputNotAwaited(c) ==
    /\ call[c] = "drain"
    /\ CallGoesTo(c, IF exit[c] = "zero" THEN "finishing" ELSE "failing")
    /\ UNCHANGED <<container, exit, copier, faults>>

OutputComplete(c) ==
    /\ call[c] = "drain"
    /\ ~ copier[c]
    /\ CallGoesTo(c, IF exit[c] = "zero" THEN "finishing" ELSE "failing")
    /\ UNCHANGED <<container, exit, copier, faults>>

Returns(c) == CallGoesTo(c, IF call[c] = "finishing" THEN "ok" ELSE "error")

\* The deferred ContainerRemove, by force and with the context of the command.
RemoveContainer(c) ==
    /\ call[c] \in {"failing", "finishing"}
    /\ Becomes(c, "gone")
    /\ Returns(c)
    /\ UNCHANGED <<exit, copier, faults>>

RemoveFails(c, done) ==  \* the error is ignored
    /\ call[c] \in {"failing", "finishing"}
    /\ Fails(done)
    /\ MaybeBecomes(c, "gone")
    /\ Returns(c)
    /\ UNCHANGED <<exit, copier>>

CallStep(c, done) ==
    \/ ~ done /\ \/ CreateContainer(c)
                 \/ AttachContainer(c)
                 \/ StartContainer(c)
                 \/ RegisterWait(c)
                 \/ WaitTooLate(c)
                 \/ RemoveContainer(c)
    \/ CreateFails(c, done)
    \/ AttachFails(c, done)
    \/ StartFails(c, done)
    \/ WaitFails(c, done)
    \/ RemoveFails(c, done)
    \/ StatusArrives(c)
    \/ OutputComplete(c)

-----------------------------------------------------------------------------
(* The daemon, and the goroutine that reads from it.                       *)

Exits(c) ==
    /\ container[c] = "running"
    /\ Becomes(c, "exited")
    /\ \E code \in {"zero", "nonzero"} : exit' = [exit EXCEPT ![c] = code]
    /\ UNCHANGED <<call, copier, faults>>

AutoRemove(c) ==
    /\ container[c] = "exited"
    /\ Becomes(c, "gone")
    /\ UNCHANGED <<call, exit, copier, faults>>

\* The output ends with the container, or with attachResp.Close(), which is
\* deferred and runs before the removal.
CopierEnds(c) ==
    /\ copier[c]
    /\ container[c] \in {"exited", "gone"} \/ call[c] \notin {"wait", "waiting", "drain"}
    /\ copier' = [copier EXCEPT ![c] = FALSE]
    /\ UNCHANGED <<call, container, exit, faults>>

DaemonStep(c) == Exits(c) \/ AutoRemove(c) \/ CopierEnds(c)
=============================================================================
