---------------------------- MODULE AdapterFaults ----------------------------
(***************************************************************************)
(* The certification against an adapter that gets things wrong: of a       *)
(* well-formed snapshot it loses an element, writes one twice, resolves a  *)
(* reference to the wrong object, or never saw a row.  Whatever passes the *)
(* certification must still be a closed graph with the counts discovered.  *)
(***************************************************************************)
EXTENDS Certification

CONSTANTS
    WellFormed,     \* a valid snapshot
    Target,         \* keys a wrong reference may have
    MaxFaults       \* bound on the adapter's errors

ASSUME FaultAssumption ==
    /\ IsSnapshot(WellFormed)
    /\ validate_canonical_schema_snapshot(WellFormed)
    /\ MaxFaults \in Nat

VARIABLE faults     \* errors so far

vars == <<snapshot, discovered, stage, graph, faults>>

CountsOf(s) == [objects |-> emitted_object_counts(s),
                relationships |-> emitted_relationship_counts(s)]

FaultsInit ==
    /\ PipelineInit("map")
    /\ faults = 0

(* The mapping succeeds; the errors follow before the snapshot is handed   *)
(* over.                                                                   *)
MapRows ==
    /\ stage = "map"
    /\ snapshot' = WellFormed
    /\ discovered' = CountsOf(WellFormed)
    /\ stage' = "mapped"
    /\ UNCHANGED <<graph, faults>>

Fault(next) ==
    /\ stage = "mapped"
    /\ faults < MaxFaults
    /\ faults' = faults + 1
    /\ snapshot' = next
    /\ UNCHANGED <<stage, graph>>

Replace(c, old, new) == [snapshot EXCEPT ![c] = (@ \ {old}) \cup {new}]

LoseElement ==
    \E c \in Collection : \E e \in snapshot[c] :
        /\ Fault([snapshot EXCEPT ![c] = @ \ {e}])
        /\ UNCHANGED discovered

WriteTwice ==
    \E c \in Collection : \E e \in snapshot[c] :
        /\ Fault([snapshot EXCEPT
                     ![c] = @ \cup {[e EXCEPT !.row = <<"again", e.row>>]}])
        /\ UNCHANGED discovered

(* The row was hidden from the read: it is neither mapped nor counted.     *)
HiddenRow ==
    \E c \in Collection : \E e \in snapshot[c] :
        LET rest == [snapshot EXCEPT ![c] = @ \ {e}]
            before == CountsOf(snapshot)
            after == CountsOf(rest)
            fewer(part) == [k \in DOMAIN discovered[part] |->
                IF discovered[part][k] + after[part][k] < before[part][k]
                THEN 0
                ELSE discovered[part][k] + after[part][k] - before[part][k]]
        IN /\ Fault(rest)
           /\ discovered' = [objects |-> fewer("objects"),
                             relationships |-> fewer("relationships")]

WrongOwner ==
    \E c \in Collection \ {"annotation", "relationship"}, k \in Target :
        \E e \in snapshot[c] :
            /\ Fault(Replace(c, e, [e EXCEPT !.owner = k]))
            /\ UNCHANGED discovered

WrongReference ==
    \E k \in Target :
        /\ \/ \E r \in snapshot.relationship :
                 Fault(Replace("relationship", r, [r EXCEPT !.to = k]))
           \/ \E c \in {"constraint", "index"} :
                 \E x \in snapshot[c] : \E i \in DOMAIN x.columns :
                    Fault(Replace(c, x, [x EXCEPT !.columns[i] = k]))
           \/ \E c \in {"view", "routine"} :
                 \E v \in snapshot[c] : \E d \in v.depends_on :
                    Fault(Replace(c, v, [v EXCEPT !.depends_on =
                                            (@ \ {d}) \cup {k}]))
           \/ \E x \in snapshot.constraint : \E i \in DOMAIN x.referenced :
                 Fault(Replace("constraint", x,
                               [x EXCEPT !.referenced[i] = k]))
        /\ UNCHANGED discovered

HandOver ==
    /\ stage = "mapped"
    /\ stage' = "certify"
    /\ UNCHANGED <<snapshot, discovered, graph, faults>>

Done == Ended /\ UNCHANGED vars

FaultsNext ==
    \/ MapRows
    \/ LoseElement
    \/ WriteTwice
    \/ HiddenRow
    \/ WrongOwner
    \/ WrongReference
    \/ HandOver
    \/ Certify /\ UNCHANGED faults
    \/ Store /\ UNCHANGED faults
    \/ Done

FaultsSpec == FaultsInit /\ [][FaultsNext]_vars

-----------------------------------------------------------------------------

(* Types, and that a projection that did not succeed leaves no row behind.  *)
FaultsTypeOK ==
    /\ PipelineTypeOK
    /\ stage \in LateStage \cup {"map", "mapped"}
    /\ faults \in 0 .. MaxFaults

=============================================================================
