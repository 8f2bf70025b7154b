----------------------------- MODULE MCRouting ------------------------------
(***************************************************************************)
(* Instances of Routing: a ChatGPT or Claude login (sub), a metered key on *)
(* the same wire (key) and a backend of the other family (alt).            *)
(***************************************************************************)
EXTENDS Routing, TLC

CONSTANTS sub, key, alt, opus, glm, t1, t2

BackendSet == {sub, key, alt}
NativeSet  == {sub, key}
ConsentSet == {sub}
TrustedSet == {key, alt}
CacheSet   == {alt}
PinSet     == {sub, alt}
NoPins     == {}

\* opus is the login's own; the key's provider has nothing of its tier.  glm is a
\* name only the key's provider lists, in a lower price tier than it asks for.
Models   == {opus, glm}
ListedOf == [m \in Models |-> IF m = glm THEN {key} ELSE {}]
FitOf    == [m \in Models |-> [b \in BackendSet |->
               CASE b = key -> "smaller"
                 [] b = sub -> IF m = opus THEN "full" ELSE "unlisted"
                 [] b = alt -> "full"]]
Ranks == [b \in BackendSet |-> CASE b = sub -> 1 [] b = key -> 3 [] b = alt -> 2]
CompactionRanks == [b \in BackendSet |-> CASE b = sub -> 1 [] b = key -> 4 [] b = alt -> 2]

Says(kinds, models, forces) == [kind : kinds, model : models, force : forces]

\* Every kind of request for either model.
Unpinned == Says(Kind, Models, {None})

\* A pin on each end of the ladder; what is long is asked of one model only.
Pinning == (Unpinned \ Says({"long"}, {glm}, {None})) \cup Says({"plain"}, {opus}, PinSet)

\* Every condition of the two ends of the ladder; the metered key is only up or
\* down.
AllLevels == [b \in BackendSet |-> IF b = key THEN {"free", "out"} ELSE Level]

\* Each agent has a conversation of its own, known by the agent's name.
Agents  == {t1, t2}
OwnKeys == [t \in Agents |-> t]

AgentSymmetry == Permutations(Agents)

Single  == [t \in {t1} |-> t]
=============================================================================
