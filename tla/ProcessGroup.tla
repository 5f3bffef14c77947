---------------------------- MODULE ProcessGroup ----------------------------
(***************************************************************************)
(* The Group Index of supervisord: ProcessGroup (src/unnamed/part_000),    *)
(* the map from program name to group name that the configuration loader   *)
(* fills from the [group:x] sections and back-fills lazily for ungrouped   *)
(* programs.  Its Sub operation diffs two snapshots into the added,        *)
(* changed and removed group lists that a reload reports.                  *)
(*                                                                         *)
(* The map is a TLA+ function whose domain is the set of programs present  *)
(* in the Go map.  Go map iteration order is random, so the lists that     *)
(* GetAllGroup, GetAllProcess and Sub return are modelled as sets.         *)
(***************************************************************************)
EXTENDS FiniteSets, Functions, TLC

CONSTANTS
    Procs,      \* program names that may appear in the map
    Groups      \* group names

ASSUME Procs # {} /\ Groups # {}

VARIABLES
    processGroup,   \* ProcessGroup.processGroup: program name -> group name
    snapshot        \* a Clone() of processGroup taken before a change

vars == <<processGroup, snapshot>>

\* The empty map of NewProcessGroup().
NewProcessGroup == [p \in {} |-> p]

-----------------------------------------------------------------------------
(* Queries (pure).                                                         *)

\* GetAllGroup: every group some program is mapped to.
GetAllGroup(pg) == Range(pg)

\* GetAllProcess: every program mapped to group g.
GetAllProcess(pg, g) == {p \in DOMAIN pg : pg[p] = g}

\* InGroup: the program is in the map and mapped to g.
InGroup(pg, p, g) == p \in DOMAIN pg /\ pg[p] = g

\* util.IsSameStringArray is not under src/: the spec (3, Group Index) says
\* memberships are compared as unordered sets of program names.
IsSameStringArray(a, b) == a = b

\* Mutant: Sub without the len(proc2) > 0 test, so a group present only in
\* this snapshot is also reported as changed.
SubNoPresenceTest(pg, other) ==
    [added   |-> GetAllGroup(pg) \ GetAllGroup(other),
     changed |-> {g \in GetAllGroup(pg) :
                    ~IsSameStringArray(GetAllProcess(pg, g), GetAllProcess(other, g))},
     removed |-> GetAllGroup(other) \ GetAllGroup(pg)]

\* Sub: added = this - other, removed = other - this, and changed = every
\* group of this whose programs in other are non-empty and not the same.
Sub(pg, other) ==
    [added   |-> GetAllGroup(pg) \ GetAllGroup(other),
     changed |-> {g \in GetAllGroup(pg) :
                    /\ GetAllProcess(other, g) # {}
                    /\ ~IsSameStringArray(GetAllProcess(pg, g), GetAllProcess(other, g))},
     removed |-> GetAllGroup(other) \ GetAllGroup(pg)]

-----------------------------------------------------------------------------
(* Operations that change the map.                                         *)

\* Mutant: Add with its two arguments swapped at the map write.
AddSwapped(group, procName) ==
    /\ processGroup' = (group :> procName) @@ processGroup
    /\ UNCHANGED snapshot

\* Add: map procName to group, replacing any earlier group.
Add(group, procName) ==
    /\ processGroup' = (procName :> group) @@ processGroup
    /\ UNCHANGED snapshot

\* Remove: delete procName from the map.
Remove(procName) ==
    /\ procName \in DOMAIN processGroup
    /\ processGroup' = Restrict(processGroup, DOMAIN processGroup \ {procName})
    /\ UNCHANGED snapshot

\* GetGroup is a query that writes: an unmapped program is mapped to
\* defGroup.  GroupOf is the value it returns, GetGroupWrite its effect.
GroupOf(pg, procName, defGroup) ==
    IF procName \in DOMAIN pg THEN pg[procName] ELSE defGroup

GetGroupWrite(pg, procName, defGroup) ==
    IF procName \in DOMAIN pg THEN pg ELSE (procName :> defGroup) @@ pg

GetGroup(procName, defGroup) ==
    /\ processGroup' = GetGroupWrite(processGroup, procName, defGroup)
    /\ UNCHANGED snapshot

\* Clone: a copy of the map, used as the "before" side of a Sub.
Clone ==
    /\ snapshot' = processGroup
    /\ UNCHANGED processGroup

-----------------------------------------------------------------------------
Init ==
    /\ processGroup = NewProcessGroup
    /\ snapshot = NewProcessGroup

Next ==
    \/ \E g \in Groups, p \in Procs : Add(g, p)
    \/ \E p \in Procs : Remove(p)
    \/ \E p \in Procs, g \in Groups : GetGroup(p, g)
    \/ Clone

Spec == Init /\ [][Next]_vars

-----------------------------------------------------------------------------
(* Properties.                                                             *)

TypeOK ==
    /\ DOMAIN processGroup \subseteq Procs
    /\ processGroup \in [DOMAIN processGroup -> Groups]
    /\ DOMAIN snapshot \subseteq Procs
    /\ snapshot \in [DOMAIN snapshot -> Groups]

\* The group diff of the spec (3, Group Index): added groups are only in the
\* new snapshot, removed only in the old one, changed are in both with a
\* different membership.  Stated over the program sets directly.
GroupDiff(new, old) ==
    LET Members(pg, g) == {p \in DOMAIN pg : pg[p] = g}
        NewGroups == {g \in Groups : Members(new, g) # {}}
        OldGroups == {g \in Groups : Members(old, g) # {}}
    IN [added   |-> NewGroups \ OldGroups,
        changed |-> {g \in NewGroups \cap OldGroups : Members(new, g) # Members(old, g)},
        removed |-> OldGroups \ NewGroups]

\* Sub of the current map against any earlier Clone is exactly the group
\* diff of the spec, and so its three lists are pairwise disjoint and every
\* group of either snapshot is added, removed, changed or unchanged.  This
\* is about the len(proc2) > 0 test in ProcessGroup.Sub: a group only in the
\* new map has no programs in the old one and must be "added" only.
SubIsGroupDiff ==
    LET d == Sub(processGroup, snapshot)
    IN /\ d = GroupDiff(processGroup, snapshot)
       /\ d.added \cap d.changed = {}

=============================================================================
