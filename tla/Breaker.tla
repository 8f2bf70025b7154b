------------------------------ MODULE Breaker -------------------------------
(***************************************************************************)
(* One backend's circuit, ironwire_upstream::breaker::Breaker, and what the *)
(* board does to it.  `opened_at` is kept as an age that stops growing at  *)
(* the recovery timeout, `consecutive_failures` stops counting at the      *)
(* threshold, and the probes of a circuit that closed are not kept: no     *)
(* rule tells the values beyond apart.                                     *)
(***************************************************************************)
EXTENDS Naturals

CONSTANTS
    FailureThreshold,  \* failures in a row that open a circuit
    ProbesNeeded,      \* half-open successes that close it
    RecoveryTimeout,   \* 30 s
    NeverOpened        \* `opened_at` of a circuit that is closed

ASSUME BreakerAssumption ==
    /\ FailureThreshold \in Nat \ {0}
    /\ ProbesNeeded \in Nat \ {0}
    /\ RecoveryTimeout \in Nat
    /\ NeverOpened \notin Nat

Circuit == [state    : {"closed", "open", "half"},
            failures : 0 .. FailureThreshold,
            opened   : (0 .. RecoveryTimeout) \cup {NeverOpened},
            probes   : 0 .. ProbesNeeded - 1]

Closed == [state |-> "closed", failures |-> 0, opened |-> NeverOpened, probes |-> 0]

\* An open circuit that has waited out its timeout turns half-open on the way past.
Ready(c) == c.state = "open" /\ c.opened >= RecoveryTimeout

Allowed(c) == c.state # "open" \/ Ready(c)

\* Mutant: nothing ever turns half-open.
NotScanned(c) == c

Scanned(c) == IF Ready(c) THEN [c EXCEPT !.state = "half", !.probes = 0] ELSE c

\* A success while the circuit is open (its request was sent before, or as a last
\* resort) closes it outright; half-open it takes ProbesNeeded of them.
Succeeded(c) ==
    IF c.state = "half" /\ c.probes + 1 < ProbesNeeded
    THEN [c EXCEPT !.failures = 0, !.probes = @ + 1]
    ELSE Closed

Counted(n) == IF n < FailureThreshold THEN n + 1 ELSE n

\* A failed probe opens the circuit at once; a late failure starts the wait of an
\* open one again, unless its count was reset by a probe before it.
Failed(c) ==
    IF c.state # "half" /\ Counted(c.failures) < FailureThreshold
    THEN [c EXCEPT !.failures = Counted(@)]
    ELSE [state |-> "open", failures |-> Counted(c.failures), opened |-> 0, probes |-> 0]

Waited(c) ==
    IF c.opened = NeverOpened \/ c.opened >= RecoveryTimeout THEN c
    ELSE [c EXCEPT !.opened = @ + 1]
=============================================================================
