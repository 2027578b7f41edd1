--------------------------------- MODULE Api ---------------------------------
(***************************************************************************)
(* The request handlers of pkg/api/api.go that write to the queue: POST    *)
(* /api/build (handleBuildRequest, with or without force) and GET          *)
(* /api/compat (handleCompatDownload).  A request here is one whose        *)
(* parameters are valid and whose plugin versions resolved: its build key  *)
(* is known.  Every handler reads the job, decides, and acts on what it    *)
(* read while the queue goes on changing.                                  *)
(***************************************************************************)
EXTENDS BuildQueue, Faults

CONSTANTS
    BuildRequests,   \* requests to POST /api/build
    ForcedRequests,  \* those of them with "force": true
    CompatRequests   \* requests to GET /api/compat

ASSUME RequestsAssumption ==
    /\ ForcedRequests \subseteq BuildRequests
    /\ BuildRequests \cap CompatRequests = {}

VARIABLE req  \* per request: its job, where its handler is, what it replied

Requests == BuildRequests \cup CompatRequests

\* "unsent" is a reply to a client that waits for it, which the server can no longer
\* write to the connection.
Replies == {"none", "exists", "terminal", "accepted", "queued",
            "file", "failed", "timeout", "error", "unsent"}

\* "read" is before the SELECT of CreateBuild, "reset" before the call of
\* ResetBuildAttempts, "reread" before the SELECT that follows it, "poll" in
\* the polling loop of the compat handler, "late" there too, but after the
\* write deadline of its connection.
Request == [pc : {"new", "read", "reset", "reread", "poll", "late", "done"},
            key : Keys,
            reply : Replies,
            reset : BOOLEAN]  \* history: the request has reset its job

NewRequest(k) == [pc |-> "new", key |-> k, reply |-> "none", reset |-> FALSE]

ApiInit == req \in [Requests -> {NewRequest(k) : k \in Keys}]

Status(c) == jobs[req[c].key].status

\* build.Attempt >= build.MaxAttempts
Terminal(k) == jobs[k].status = "failed" /\ Len(attempts[k]) >= MaxAttempts

Reply(c, reply) ==
    req' = [req EXCEPT ![c].pc = "done",
                       ![c].reply = IF req[c].pc = "late" /\ reply # "timeout"
                                    THEN "unsent" ELSE reply]

GoTo(c, pc) == req' = [req EXCEPT ![c].pc = pc]

-----------------------------------------------------------------------------
\* CreateBuild, its INSERT.
Create(c) ==
    /\ req[c].pc = "new"
    /\ InsertJob(req[c].key)
    /\ GoTo(c, "read")
    /\ UNCHANGED faults

ArriveBuild(c) == c \in BuildRequests /\ Create(c)

ArriveCompat(c) == c \in CompatRequests /\ Create(c)

\* What handleBuildRequest answers to a job that is not completed.
Answer(c) ==
    Reply(c, IF Terminal(req[c].key) THEN "terminal"
             ELSE IF Status(c) = "completed" THEN "queued" ELSE "accepted")

ReadBuild(c) ==  \* CreateBuild, its SELECT, and what follows
    /\ c \in BuildRequests
    /\ req[c].pc = "read"
    /\ IF Status(c) = "completed" THEN Reply(c, "exists")
       ELSE IF c \in ForcedRequests /\ Status(c) = "failed" THEN GoTo(c, "reset")
       ELSE Answer(c)
    /\ UNCHANGED <<queueVars, faults>>

\* Mutant: the reset is repeated although it has succeeded.
ForceResetAgain(c) ==
    /\ req[c].pc = "reset"
    /\ ResetBuildAttempts(req[c].key)
    /\ \E pc \in {"reset", "reread"} :
          req' = [req EXCEPT ![c].pc = pc, ![c].reset = TRUE]
    /\ UNCHANGED faults

\* By now the job may have changed since it was read as failed.
ForceReset(c) ==
    /\ req[c].pc = "reset"
    /\ ResetBuildAttempts(req[c].key)
    /\ req' = [req EXCEPT ![c].pc = "reread", ![c].reset = TRUE]
    /\ UNCHANGED faults

Reread(c) ==
    /\ req[c].pc = "reread"
    /\ Answer(c)
    /\ UNCHANGED <<queueVars, faults>>

ReadCompat(c) ==
    /\ c \in CompatRequests
    /\ req[c].pc = "read"
    /\ IF Status(c) = "completed" THEN Reply(c, "file")
       ELSE IF Terminal(req[c].key) THEN Reply(c, "terminal")
       ELSE GoTo(c, "poll")
    /\ UNCHANGED <<queueVars, faults>>

Polling(c) == req[c].pc \in {"poll", "late"}

\* http.Server.WriteTimeout: 15 s after the request nothing can be written to
\* the connection any more.  The handler does not learn of it.
WriteDeadline(c) ==
    /\ req[c].pc = "poll"
    /\ GoTo(c, "late")
    /\ UNCHANGED <<queueVars, faults>>

\* Mutant: the poll treats a failed job like one in progress.
PollPastFailure(c) ==
    /\ Polling(c)
    /\ Status(c) = "completed"
    /\ Reply(c, "file")
    /\ UNCHANGED <<queueVars, faults>>

Poll(c) ==
    /\ Polling(c)
    /\ Status(c) \in {"completed", "failed"}
    /\ Reply(c, IF Status(c) = "completed" THEN "file" ELSE "failed")
    /\ UNCHANGED <<queueVars, faults>>

\* The client goes away, or thirty minutes have passed.
GiveUp(c) ==
    /\ Polling(c)
    /\ Reply(c, "timeout")
    /\ UNCHANGED <<queueVars, faults>>

\* A statement fails: the handler answers 500.
ApiFails(c) ==
    /\ req[c].pc # "done"
    /\ Reply(c, "error")
    /\ Fault
    /\ UNCHANGED queueVars

HandlerStep(c) ==
    \/ ReadBuild(c)
    \/ ForceReset(c)
    \/ Reread(c)
    \/ ReadCompat(c)
    \/ Poll(c)
    \/ ApiFails(c)

ApiStep == \E c \in Requests :
    ArriveBuild(c) \/ ArriveCompat(c) \/ HandlerStep(c) \/ WriteDeadline(c) \/ GiveUp(c)

(* Type correctness of the requests' state.                                *)
ApiTypeOK == req \in [Requests -> Request]
=============================================================================
