------------------------------- MODULE MCSite -------------------------------
(***************************************************************************)
(* A discussion (Threads), the tiers that votes on such a discussion and a *)
(* dataset give (Community), and the pipeline that replaces all of it      *)
(* (Pipeline), checked side by side.  Each behaviour follows one of them,  *)
(* and the others keep their initial state.                                *)
(***************************************************************************)
EXTENDS MCThreads

CONSTANTS Members, Author, Bronze, Slow, MaxHidden, Sources, Broken, MaxReleases

VARIABLES
    followed,
    content, cache, tx, overlapped,
    tree, head, registry, cluster, releases, current, command, settled

community == <<content, cache, tx, overlapped>>
pipeline == <<tree, head, registry, cluster, releases, current, command, settled>>

C == INSTANCE Community WITH Users <- Members, Owner <- Author

\* The author of the topic also wrote the reply; a vote is enough for a medal.
MCAuthor == 1 :> "voter" @@ 2 :> "author" @@ 3 :> "voter" @@ 4 :> "author"

MCBronze == [i \in 1 .. 4 |-> 1]

P == INSTANCE Pipeline

\* A new runtime, then a new API and runtime.
MCSources ==
    LET Source(api, runtime) ==
        [c \in P!Components |-> CASE c = "api" -> api [] c = "runtime" -> runtime [] OTHER -> 1]
    IN <<Source(1, 1), Source(1, 2), Source(2, 1)>>

MCBroken == {<<"api", 2>>}

ASSUME SiteAssumption == C!CommunityAssumption /\ P!PipelineAssumption

SiteInit ==
    /\ followed \in {"threads", "community", "pipeline"}
    /\ MCInit /\ C!Init /\ P!Init
    /\ followed # "threads" => focus = "texts" /\ text[Topic] = "plain"

SiteNext ==
    /\ UNCHANGED followed
    /\ \/ followed = "threads" /\ MCNext /\ UNCHANGED <<community, pipeline>>
       \/ followed = "community" /\ C!Next /\ UNCHANGED <<focus, vars, pipeline>>
       \/ followed = "pipeline" /\ P!Next /\ UNCHANGED <<focus, vars, community>>

SiteSpec == SiteInit /\ [][SiteNext]_<<followed, focus, vars, community, pipeline>>

\* One vote and one item withheld, or both while no transaction is under way; tags that name
\* what they hold, as the pipeline asks only whether there is one.  What leads out of these
\* bounds is checked, and not followed.
Few ==
    /\ Cardinality(content.votes) <= 1 /\ Cardinality(content.withheld) <= 1
    /\ content.votes = {} \/ content.withheld = {} \/ C!UnderWay(Slow) = {}
    /\ P!TagsNameSources

-----------------------------------------------------------------------------
\* A user's tier and medals are those of the votes on what they own, unless transactions
\* that concern them overlapped (progression.py).
CacheFollows == C!TypeOK /\ C!CacheFollows

\* The current release serves (deploy/pipeline.py).
CurrentServes == P!TypeOK /\ P!CurrentServes

\* docs/community.md: the cache is recomputed with every change.  The program violates
\* it where two transactions that concern an owner overlap: a topic that is posted while
\* its dataset is made private.
CacheCurrent == C!CacheCurrent

\* pipeline.py: tags name the sources of their image.  The program violates it where the
\* tree moves while a run builds.
TagsNameSources == P!TagsNameSources

\* pipeline.py: a deployed release was verified.  The program violates it where a run is
\* repeated after a deploy that failed half-way.
DeployedWasVerified == P!DeployedWasVerified
=============================================================================
