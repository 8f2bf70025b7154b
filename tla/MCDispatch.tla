----------------------------- MODULE MCDispatch -----------------------------
(***************************************************************************)
(* Instances of Dispatch: a login (sub) and a backend of the other family  *)
(* (alt) that is always within its quota, or is not.                       *)
(***************************************************************************)
EXTENDS Dispatch, TLC

CONSTANTS sub, alt, opus, s1, s2, k1

BackendSet == {sub, alt}
NativeSet  == {sub}
ConsentSet == {sub}
TrustedSet == {alt}
AllSlots   == {s1, s2}
NoBackend  == {}

\* One model, which both serve in full: rungs do not matter here.
Models   == {opus}
FitOf    == [m \in Models |-> [b \in BackendSet |-> "full"]]
ListedOf == [m \in Models |-> NoBackend]
Ranks == [b \in BackendSet |-> IF b = sub THEN 1 ELSE 2]

Plain  == [kind |-> "plain", mid |-> FALSE, model |-> opus]
Looped == [Plain EXCEPT !.mid = TRUE]

Says(r, force, opaque) == [r |-> r, force |-> force, opaque |-> opaque]

\* A body that translates and one that does not leave the client's wire.
TwoBodies == {Says(Plain, None, FALSE), Says(Plain, None, TRUE)}

\* Those, one in the middle of a tool loop, and one that names each backend.
AllTurns == TwoBodies \cup {Says(Looped, None, FALSE)}
            \cup {Says(Plain, b, FALSE) : b \in BackendSet}

NoLevels == [b \in BackendSet |-> {}]
AltIsUp == [b \in BackendSet |-> IF b = sub THEN {"free"} ELSE {}]

OneKey  == [s \in AllSlots |-> k1]
Single  == [s \in {s1} |-> k1]

SlotSymmetry == Permutations(AllSlots)
=============================================================================
