---------------------------- MODULE BuildRequest ----------------------------
(***************************************************************************)
(* From what a client asks for to the job that builds it.  A handler       *)
(* resolves the plugins of its request to exact versions, one goroutine    *)
(* for each (resolvePlugins, modversion.Resolver), and creates the job     *)
(* under the hash of the sorted configuration (db.BuildConfig), unless     *)
(* there is one.  The worker makes its go commands of the row of that job, *)
(* which is the configuration of whoever came first.                       *)
(*                                                                         *)
(* A module path is <<base, major>>, where major is that of a suffix "/vN" *)
(* and 1 without one; a version is <<major, minor>>.  The hash is taken to *)
(* be injective.  The version of Caddy, the system and the architecture    *)
(* are part of the configuration as they are asked for, and left out.      *)
(***************************************************************************)
EXTENDS Integers, Sequences, FiniteSets, SequencesExt

CONSTANTS
    Requests,  \* the clients' requests
    Proxies,   \* how many module proxies are configured
    Releases,  \* module path -> its versions in the order they are published
    Asks       \* what clients may ask for

Modules == DOMAIN Releases

Latest == << >>

\* A version, and a replacement <<old, new>>.
Version == Nat \X Nat
Replacement == Nat \X Nat

\* A client asks for a sequence of plugins, each with a full version or for the
\* latest, and for a sequence of replacements.
Plugins == Seq([module : Modules, query : {Latest} \cup Version])

ASSUME RequestAssumption ==
    /\ Proxies \in Nat \ {0}
    /\ Modules \subseteq Nat \X Nat
    /\ \A m \in Modules : Releases[m] \in Seq(Version)
    /\ Asks \subseteq [plugins : Plugins, replacements : Seq(Replacement)]

VARIABLES
    newest,  \* how many versions of a module each proxy has
    pc,      \* where the handler of each request is
    ask,     \* what the client asked for
    lookup,  \* the goroutine for each plugin of the request
    config,  \* the configuration the handler has made of it
    jobs     \* the rows of build_jobs

requestVars == <<newest, pc, ask, lookup, config, jobs>>

-----------------------------------------------------------------------------
(* The configuration and its key.                                          *)

\* A plugin is written <<base, path major, version major, minor>>, as the code
\* writes module@version.  Any total order serves for that of strings.
Before(p, q) ==
    \E i \in DOMAIN p : p[i] < q[i] /\ \A j \in 1 .. i - 1 : p[j] = q[j]

\* sort.Strings: a rearrangement in order.
Rearrangements(s) == {f \in [DOMAIN s -> DOMAIN s] : IsInjective(f)}

InOrder(s, f) == \A i, j \in DOMAIN s : i < j => ~ Before(s[f[j]], s[f[i]])

Sort(s) ==
    LET f == CHOOSE f \in Rearrangements(s) : InOrder(s, f)
    IN [i \in DOMAIN s |-> s[f[i]]]

\* Mutant: only the plugins are sorted.
NormalizePlugins(c) ==
    [plugins |-> Sort(c.plugins), replacements |-> c.replacements]

\* Mutant: the versions are cut off.
NormalizePaths(c) ==
    [plugins |-> Sort([i \in DOMAIN c.plugins |-> SubSeq(c.plugins[i], 1, 2)]),
     replacements |-> Sort(c.replacements)]

Normalize(c) == [plugins |-> Sort(c.plugins), replacements |-> Sort(c.replacements)]

BuildKey(c) == Normalize(c)

-----------------------------------------------------------------------------
NoConfig == [plugins |-> << >>, replacements |-> << >>]

RequestInit ==
    /\ newest = [p \in 1 .. Proxies |-> [m \in Modules |-> 0]]
    /\ pc = [r \in Requests |-> "idle"]
    /\ ask = [r \in Requests |-> NoConfig]
    /\ lookup = [r \in Requests |-> << >>]
    /\ config = [r \in Requests |-> NoConfig]
    /\ jobs = {}

Goes(r, to) == pc' = [pc EXCEPT ![r] = to]

\* toResolve: a map from module to version, where the last of a module stays.
Wanted(plugins) == {plugins[i].module : i \in DOMAIN plugins}

Query(plugins, m) ==
    LET i == CHOOSE i \in DOMAIN plugins :
                /\ plugins[i].module = m
                /\ \A j \in i + 1 .. Len(plugins) : plugins[j].module # m
    IN plugins[i].query

-----------------------------------------------------------------------------
\* The request is decoded, and ResolveVersions starts its goroutines.
Arrive(r) ==
    /\ pc[r] = "idle"
    /\ Goes(r, "resolving")
    /\ \E a \in Asks :
          /\ ask' = [ask EXCEPT ![r] = a]
          /\ lookup' = [lookup EXCEPT ![r] =
                          [m \in Wanted(a.plugins) |->
                             [result |-> "none", version |-> Latest, tried |-> 0]]]
    /\ UNCHANGED <<newest, config, jobs>>

Finds(r, m, version) ==
    lookup' = [lookup EXCEPT ![r][m].result = "found", ![r][m].version = version]

Looking(r, m) ==
    pc[r] = "resolving" /\ m \in DOMAIN lookup[r] /\ lookup[r][m].result = "none"

\* A full version is returned as it is, and no proxy is asked for it.
TakeVersion(r, m) ==
    /\ Looking(r, m)
    /\ Query(ask[r].plugins, m) # Latest
    /\ Finds(r, m, Query(ask[r].plugins, m))
    /\ UNCHANGED <<newest, pc, ask, config, jobs>>

AskProxy(r, m) ==
    LET p == lookup[r][m].tried + 1 IN
    /\ Looking(r, m)
    /\ Query(ask[r].plugins, m) = Latest
    /\ p <= Proxies
    /\ newest[p][m] > 0
    /\ Finds(r, m, Releases[m][newest[p][m]])
    /\ UNCHANGED <<newest, pc, ask, config, jobs>>

\* Mutant: a goroutine that has no proxy left sends no result.
NothingSent(r, m) ==
    /\ Looking(r, m)
    /\ Query(ask[r].plugins, m) = Latest
    /\ lookup[r][m].tried < Proxies
    /\ lookup' = [lookup EXCEPT ![r][m].tried = @ + 1]
    /\ UNCHANGED <<newest, pc, ask, config, jobs>>

\* The proxy does not have the module, or does not answer, or the client has
\* gone.  The error of the last proxy is the result.
ProxyFails(r, m) ==
    LET p == lookup[r][m].tried + 1 IN
    /\ Looking(r, m)
    /\ Query(ask[r].plugins, m) = Latest
    /\ lookup' = [lookup EXCEPT ![r][m].tried = p,
                                ![r][m].result = IF p = Proxies THEN "error" ELSE @]
    /\ UNCHANGED <<newest, pc, ask, config, jobs>>

Lookup(r, m) == TakeVersion(r, m) \/ AskProxy(r, m) \/ ProxyFails(r, m)

-----------------------------------------------------------------------------
Found(r) == {m \in DOMAIN lookup[r] : lookup[r][m].result = "found"}

Leaves(r, to) == Goes(r, to) /\ lookup' = [lookup EXCEPT ![r] = << >>]

Plugin(r, m) == m \o lookup[r][m].version

\* Every goroutine has sent its result.
Collected(r) ==
    pc[r] = "resolving" /\ \A m \in DOMAIN lookup[r] : lookup[r][m].result # "none"

\* Mutant: plugins that are not found are left out.
ResolvedInPart(r) ==
    /\ Collected(r)
    /\ \E plugins \in SetToSeqs({Plugin(r, m) : m \in Found(r)}) :
          config' = [config EXCEPT ![r] = [plugins |-> plugins,
                                           replacements |-> ask[r].replacements]]
    /\ Leaves(r, "create")
    /\ UNCHANGED <<newest, ask, jobs>>

\* The iteration order of the map decides that of the plugins.
Resolved(r) ==
    /\ Collected(r)
    /\ Found(r) = DOMAIN lookup[r]
    /\ \E plugins \in SetToSeqs({Plugin(r, m) : m \in Found(r)}) :
          config' = [config EXCEPT ![r] = [plugins |-> plugins,
                                           replacements |-> ask[r].replacements]]
    /\ Leaves(r, "create")
    /\ UNCHANGED <<newest, ask, jobs>>

\* The first error in the channel is the answer.
Unresolved(r) ==
    /\ Collected(r)
    /\ Found(r) # DOMAIN lookup[r]
    /\ Leaves(r, "refused")
    /\ UNCHANGED <<newest, ask, config, jobs>>

\* CreateBuild: ON CONFLICT DO NOTHING.
CreateBuild(r) ==
    LET key == BuildKey(config[r]) IN
    /\ pc[r] = "create"
    /\ jobs' = IF \E j \in jobs : j.key = key THEN jobs
               ELSE jobs \cup {[key |-> key, config |-> config[r]]}
    /\ Goes(r, "answered")
    /\ UNCHANGED <<newest, ask, lookup, config>>

CreateFails(r) ==
    /\ pc[r] = "create"
    /\ Goes(r, "refused")
    /\ UNCHANGED <<newest, ask, lookup, config, jobs>>

Handle(r) == Resolved(r) \/ Unresolved(r) \/ CreateBuild(r) \/ CreateFails(r)

\* A version is published, which the proxies learn of one by one.
Publish(p, m) ==
    /\ newest[p][m] < Len(Releases[m])
    /\ newest' = [newest EXCEPT ![p][m] = @ + 1]
    /\ UNCHANGED <<pc, ask, lookup, config, jobs>>

RequestNext ==
    \/ \E r \in Requests :
          Arrive(r) \/ Handle(r) \/ \E m \in Modules : Lookup(r, m)
    \/ \E p \in 1 .. Proxies, m \in Modules : Publish(p, m)

RequestSpec == RequestInit /\ [][RequestNext]_requestVars

\* The goroutines run, and every HTTP request ends (with a time limit of 30 s).
RequestFairness ==
    \A r \in Requests :
        /\ WF_requestVars(Handle(r))
        /\ \A m \in Modules : WF_requestVars(Lookup(r, m))

-----------------------------------------------------------------------------
Answered == {r \in Requests : pc[r] = "answered"}

JobOf(r) == CHOOSE j \in jobs : j.key = BuildKey(config[r])

SameElements(s, t) ==
    \A x \in Range(s) \cup Range(t) :
        Cardinality({i \in DOMAIN s : s[i] = x}) = Cardinality({i \in DOMAIN t : t[i] = x})

(* Two requests share a job exactly if they came to the same plugins and   *)
(* replacements, however ordered: nothing is built twice because of an     *)
(* order, and nobody is given the build of another configuration.          *)
SameJobForSameConfig ==
    \A r, s \in Answered :
        JobOf(r) = JobOf(s) <=>
            /\ SameElements(config[r].plugins, config[s].plugins)
            /\ SameElements(config[r].replacements, config[s].replacements)

\* The versions of a module that some proxy has.
Published(m) == {Releases[m][n] : n \in 1 .. Max({newest[p][m] : p \in 1 .. Proxies})}

(* A job is created for all of a request or not at all: every plugin asked *)
(* for is in it, once, in the version that was asked for last, or in one   *)
(* that some proxy has.                                                    *)
AllOfTheRequest ==
    \A r \in Answered :
        LET asked == ask[r].plugins
            built == JobOf(r).config.plugins
        IN
        /\ Len(built) = Cardinality({asked[i].module : i \in DOMAIN asked})
        /\ \A i \in DOMAIN asked :
              (\A j \in i + 1 .. Len(asked) : asked[j].module # asked[i].module)
              => \E v \in Published(asked[i].module) \cup {asked[i].query} :
                    /\ asked[i].query \in {Latest, v}
                    /\ asked[i].module \o v \in Range(built)

(* A request is answered, whatever the proxies do and in whatever order    *)
(* the goroutines send their results: the handler never waits for one that *)
(* does not come.                                                          *)
RequestEnds ==
    \A r \in Requests : pc[r] = "resolving" ~> pc[r] \in {"answered", "refused"}
=============================================================================
