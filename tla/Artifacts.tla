------------------------------ MODULE Artifacts ------------------------------
(***************************************************************************)
(* The files the build server exists for: Builder.Build (pkg/builder)      *)
(* stores a detached signature and then the binary under one storage key,  *)
(* Storage.Put (pkg/storage) truncates a file and then writes it, and the  *)
(* download handlers (handleDownload, serveBuildFile) read the job and     *)
(* then the two files.  Nothing but the queue keeps two builders of a job, *)
(* or a builder and a reader, apart.                                       *)
(*                                                                         *)
(* The storage is a directory (storage type "local", or a mounted file     *)
(* system).  Files are identified by the attempt whose build wrote them:   *)
(* two builds of a job need not give the same bytes.                       *)
(***************************************************************************)
EXTENDS BuildServer, FiniteSetsExt

CONSTANTS
    Signing,    \* the workers' signing.enabled
    Downloads   \* requests to GET /api/download

ASSUME SigningAssumption == Signing \in BOOLEAN

VARIABLES
    store,     \* per key: the files builds/../<key> and builds/../<key>.asc
    upload,    \* per slot: how far Build has come, and its attempt
    download   \* per request: its job, where its handler is, what it sent

artifactVars == <<store, upload, download>>

-----------------------------------------------------------------------------
\* "mixed": two builders wrote the same file at the same time.
File == [state : {"absent", "partial", "whole", "mixed"}, attempt : Nat]
NoFile == [state |-> "absent", attempt |-> 0]

Stages == {"none", "compile", "signing", "signed", "storing", "stored"}
NoUpload == [stage |-> "none", attempt |-> 0]

Download == [pc : {"new", "binary", "signature", "copy", "rest", "done"},
             key : Keys, reply : {"none", "not_ready", "error", "file"},
             signature : File, binary : File]

ArtifactsInit ==
    /\ store = [k \in Keys |-> [binary |-> NoFile, signature |-> NoFile]]
    /\ upload = [w \in Workers |-> [s \in Slots |-> NoUpload]]
    /\ download \in [Downloads -> {[pc |-> "new", key |-> k, reply |-> "none",
                                    signature |-> NoFile, binary |-> NoFile] : k \in Keys}]

-----------------------------------------------------------------------------
(* Builder.Build, from the compiled binary on.  Storage.Put does not look  *)
(* at its context: a cancelled build goes on uploading.                    *)

\* fs.Create: the file is made, or truncated.
Created(a) == [state |-> "partial", attempt |-> a]

\* The copy has ended.
Written(file, a) ==
    IF file = Created(a) THEN [state |-> "whole", attempt |-> a]
    ELSE [state |-> "mixed", attempt |-> 0]

SetStage(w, s, stage) == upload' = [upload EXCEPT ![w][s].stage = stage]

CreateSignature(w, s) ==
    LET u == upload[w][s] IN
    /\ Signing
    /\ u.stage = "compile"
    /\ store' = [store EXCEPT ![run[w][s].key].signature = Created(u.attempt)]
    /\ SetStage(w, s, "signing")
    /\ UNCHANGED <<vars, download>>

WriteSignature(w, s) ==
    LET u == upload[w][s] IN
    /\ u.stage = "signing"
    /\ store' = [store EXCEPT ![run[w][s].key].signature = Written(@, u.attempt)]
    /\ SetStage(w, s, "signed")
    /\ UNCHANGED <<vars, download>>

CreateBinary(w, s) ==
    LET u == upload[w][s] IN
    /\ u.stage = IF Signing THEN "signed" ELSE "compile"
    /\ store' = [store EXCEPT ![run[w][s].key].binary = Created(u.attempt)]
    /\ SetStage(w, s, "storing")
    /\ UNCHANGED <<vars, download>>

WriteBinary(w, s) ==
    LET u == upload[w][s] IN
    /\ u.stage = "storing"
    /\ store' = [store EXCEPT ![run[w][s].key].binary = Written(@, u.attempt)]
    /\ SetStage(w, s, "stored")
    /\ UNCHANGED <<vars, download>>

\* Put closes the file without looking at the error: what could not be written
\* is missing, and Put succeeds.
CloseFails(w, s) ==
    LET u == upload[w][s] IN
    /\ u.stage \in {"signing", "storing"}
    /\ SetStage(w, s, IF u.stage = "signing" THEN "signed" ELSE "stored")
    /\ Fault
    /\ UNCHANGED <<queueVars, workerVars, rescue, req, store, download>>

UploadStep(w, s) ==
    \/ CreateSignature(w, s)
    \/ WriteSignature(w, s)
    \/ CreateBinary(w, s)
    \/ WriteBinary(w, s)
    \/ CloseFails(w, s)

\* Mutant: an error of the last Put is not returned.
FinishedHalfway(u) == u.stage \in {"storing", "stored"}

\* Mutant: Build returns when the signature is stored.
FinishedSigned(u) == u.stage \in {"signed", "stored"}

\* Build succeeds when everything is stored, and fails before that.
Finished(u) == u.stage = "stored"

\* build.Attempt of the job that w has claimed last.
AttemptOf(w, k) == Max({i \in DOMAIN attempts[k] : attempts[k][i].worker = w})

\* A step of the server: Build begins with its goroutine, and returns a result
\* to it that fits the upload.
ServerStep ==
    /\ Next
    /\ \A w \in Workers, s \in Slots :
          run[w][s].pc = "building" /\ run'[w][s].pc \in {"attempt", "remove"} =>
              (Finished(upload[w][s]) <=> run'[w][s].outcome = "completed")
    /\ upload' = [w \in Workers |-> [s \in Slots |->
          IF run'[w][s].pc # "building" THEN NoUpload
          ELSE IF run[w][s].pc = "building" THEN upload[w][s]
          ELSE [stage |-> "compile", attempt |-> AttemptOf(w, run'[w][s].key)]]]
    /\ UNCHANGED <<store, download>>

-----------------------------------------------------------------------------
(* handleDownload and serveBuildFile.  An open file shows what a builder   *)
(* writes into it later.                                                   *)

SetDownload(d, r) == download' = [download EXCEPT ![d] = r]

Refuse(d, reply) == SetDownload(d, [download[d] EXCEPT !.pc = "done", !.reply = reply])

DownloadGoesTo(d, pc) == SetDownload(d, [download[d] EXCEPT !.pc = pc])

\* Mutant: a job that is being built counts as ready.
ReadUnfinished(d) ==
    /\ download[d].pc = "new"
    /\ IF jobs[download[d].key].status \in {"building", "completed"}
       THEN DownloadGoesTo(d, "binary") ELSE Refuse(d, "not_ready")
    /\ UNCHANGED <<vars, store, upload>>

ReadStatus(d) ==  \* GetBuildByKey; no such job, failed, or in progress: refused
    /\ download[d].pc = "new"
    /\ IF jobs[download[d].key].status = "completed"
       THEN DownloadGoesTo(d, "binary") ELSE Refuse(d, "not_ready")
    /\ UNCHANGED <<vars, store, upload>>

OpenBinary(d) ==
    /\ download[d].pc = "binary"
    /\ IF store[download[d].key].binary.state = "absent" THEN Refuse(d, "error")
       ELSE DownloadGoesTo(d, IF Signing THEN "signature" ELSE "rest")
    /\ UNCHANGED <<vars, store, upload>>

OpenSignature(d) ==
    /\ download[d].pc = "signature"
    /\ IF store[download[d].key].signature.state = "absent" THEN Refuse(d, "error")
       ELSE DownloadGoesTo(d, "copy")
    /\ UNCHANGED <<vars, store, upload>>

CopySignature(d) ==
    /\ download[d].pc = "copy"
    /\ SetDownload(d, [download[d] EXCEPT !.pc = "rest",
                                          !.signature = store[download[d].key].signature])
    /\ UNCHANGED <<vars, store, upload>>

CopyBinary(d) ==
    /\ download[d].pc = "rest"
    /\ SetDownload(d, [download[d] EXCEPT !.pc = "done", !.reply = "file",
                                          !.binary = store[download[d].key].binary])
    /\ UNCHANGED <<vars, store, upload>>

DownloadStep(d) ==
    ReadStatus(d) \/ OpenBinary(d) \/ OpenSignature(d) \/ CopySignature(d) \/ CopyBinary(d)

-----------------------------------------------------------------------------
ArtifactsNext ==
    \/ ServerStep
    \/ \E w \in Workers, s \in Slots : UploadStep(w, s)
    \/ \E d \in Downloads : DownloadStep(d)

ArtifactsSpec == Init /\ ArtifactsInit /\ [][ArtifactsNext]_<<vars, artifactVars>>

\* A pair that verifies: both files whole, of one build.
Genuine(pair) ==
    /\ pair.binary.state = "whole"
    /\ Signing => pair.signature = pair.binary

(* A completed job that nothing disturbed has the two files its last       *)
(* attempt wrote, although failed attempts may have left parts of theirs.  *)
ArtifactsMatch ==
    \A k \in Keys :
        jobs[k].status = "completed" /\ Undisturbed(k) =>
            /\ Genuine(store[k])
            /\ store[k].binary.attempt = Len(attempts[k])

(* What a client downloads of an undisturbed job is such a pair, although  *)
(* the two files are read one after the other with no lock.                *)
DownloadIsGenuine ==
    \A d \in Downloads :
        download[d].reply = "file" /\ Undisturbed(download[d].key) => Genuine(download[d])

(* However a job was disturbed, a completed one has its files, so that a   *)
(* download never fails for want of them.                                  *)
CompletedHasFiles ==
    \A k \in Keys :
        jobs[k].status = "completed" =>
            /\ store[k].binary.state # "absent"
            /\ Signing => store[k].signature.state # "absent"
=============================================================================
