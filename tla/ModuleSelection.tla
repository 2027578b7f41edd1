--------------------------- MODULE ModuleSelection ---------------------------
(***************************************************************************)
(* What a worker makes of the row of a job: newEnvironment (pkg/xcaddy)    *)
(* runs one go get per plugin, in the order of the row, and each of them   *)
(* may move what the ones before it have pinned.                           *)
(*                                                                         *)
(* What go get does is not code of this repository.  It is modelled after  *)
(* the minimal version selection of Go modules: a version of a module says *)
(* which version of another it needs at least.  Caddy, which every go get  *)
(* names once more, the replacements and the go mod tidy at the end, which *)
(* adds what is still missing, are left out; a go get they make impossible *)
(* fails.                                                                  *)
(***************************************************************************)
EXTENDS BuildRequest

\* module -> one of its releases -> any module -> the least version of it that
\* the release works with, by itself or through what it needs, or Absent.
CONSTANT Needs

Absent == <<0, 0>>

ReleasesOf(m) == Range(Releases[m])

NotNewer(v, w) == v = w \/ Before(v, w)

\* What a release needs exists, includes what that needs in turn, and is not a
\* newer release of itself.
ASSUME NeedsAssumption ==
    \A m \in Modules :
        /\ Absent \notin ReleasesOf(m)
        /\ \A v \in ReleasesOf(m) :
              /\ NotNewer(Needs[m][v][m], v)
              /\ \A n \in Modules :
                    /\ Needs[m][v][n] \in ReleasesOf(n) \cup {Absent}
                    /\ Needs[m][v][n] # Absent =>
                          \A o \in Modules :
                              NotNewer(Needs[n][Needs[m][v][n]][o], Needs[m][v][o])

VARIABLE env  \* the build environment of a job: its row, its go gets and its go.mod

NoEnv == [config |-> NoConfig, gets |-> 0, mod |-> << >>]

selectionVars == <<requestVars, env>>

-----------------------------------------------------------------------------
\* versionedModulePath
Diverges(p) == p[2] > 1 /\ p[2] # p[3]

VersionedPath(p) == <<p[1], IF p[3] > 1 THEN p[3] ELSE 1>>

VersionOf(p) == <<p[3], p[4]>>

Released(p) ==
    VersionedPath(p) \in Modules /\ VersionOf(p) \in ReleasesOf(VersionedPath(p))

NewestOf(S) == CHOOSE v \in S : \A w \in S : NotNewer(w, v)

\* What the version v of n needs.
NeededBy(n, v) == IF v = Absent THEN [o \in Modules |-> Absent] ELSE Needs[n][v]

\* The newest release of n, not newer than w, that works with version v of m.
LoweredFor(n, w, m, v) ==
    NewestOf({Absent} \cup {u \in ReleasesOf(n) :
                               NotNewer(u, w) /\ NotNewer(Needs[n][u][m], v)})

\* go get m@v: m gets the version v, what needs a newer one of m is lowered until
\* it does not, and what is needed is raised.
GoGot(mod, m, v) ==
    LET kept == [n \in Modules |->
                    IF n = m THEN v
                    ELSE IF mod[n] = Absent THEN Absent
                    ELSE LoweredFor(n, mod[n], m, v)]
    IN [n \in Modules |->
           IF n = m THEN v
           ELSE NewestOf({kept[n]} \cup {NeededBy(o, kept[o])[n] : o \in Modules})]

-----------------------------------------------------------------------------
\* A worker takes the row of a job.  A path that does not fit its version ends the
\* build before the first go get.
BuildBegins ==
    /\ env = NoEnv
    /\ \E j \in jobs :
          /\ \A i \in DOMAIN j.config.plugins : ~ Diverges(j.config.plugins[i])
          /\ env' = [config |-> j.config, gets |-> 0, mod |-> [m \in Modules |-> Absent]]

GetsLeft == env.gets < Len(env.config.plugins)

GoGet ==
    /\ env # NoEnv /\ GetsLeft
    /\ LET p == env.config.plugins[env.gets + 1] IN
       /\ Released(p)
       /\ env' = [env EXCEPT !.gets = @ + 1,
                             !.mod = GoGot(@, VersionedPath(p), VersionOf(p))]

\* The build fails, or has all that it needs.
BuildOver == env # NoEnv /\ env' = NoEnv

SelectionNext ==
    \/ RequestNext /\ UNCHANGED env
    \/ (BuildBegins \/ GoGet \/ BuildOver) /\ UNCHANGED requestVars

SelectionInit == RequestInit /\ env = NoEnv

SelectionSpec == SelectionInit /\ [][SelectionNext]_selectionVars

FairSelectionSpec == SelectionSpec /\ RequestFairness

-----------------------------------------------------------------------------
PathsOf(plugins) == [i \in DOMAIN plugins |-> VersionedPath(plugins[i])]

\* The plugins can be had, no two come to the same module, and none needs another
\* one in a newer version than that has.
Compatible(plugins) ==
    /\ \A p \in Range(plugins) : Released(p)
    /\ IsInjective(PathsOf(plugins))
    /\ \A p, q \in Range(plugins) :
          p # q => NotNewer(Needs[VersionedPath(p)][VersionOf(p)][VersionedPath(q)],
                            VersionOf(q))

(* Whoever came first, and in whatever order the goroutines, the maps and  *)
(* the clients had the plugins: the job a client is given ends up with     *)
(* every plugin in the version that the client's own request came to,      *)
(* although each go get may move what an earlier one has pinned.  The      *)
(* exception are plugins that are not compatible: for them the order may   *)
(* decide, and the key does not know it.                                   *)
JobBuildsRequest ==
    \A r \in Answered :
        /\ env # NoEnv /\ ~ GetsLeft
        /\ env.config = JobOf(r).config
        /\ Compatible(config[r].plugins)
        => \A p \in Range(config[r].plugins) : env.mod[VersionedPath(p)] = VersionOf(p)
=============================================================================
