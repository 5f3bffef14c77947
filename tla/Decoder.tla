------------------------------- MODULE Decoder -------------------------------
(***************************************************************************)
(* The reply decoder of the client's ReloadConfig                          *)
(* (src/xmlrpcclient/xmlrpc-client.go): two callbacks registered with an   *)
(* XMLProcessorManager, a boundary callback on the ".../array/data"        *)
(* element and a leaf callback on ".../array/data/value", that share the   *)
(* index i and the flag hasValue and append every string leaf to the       *)
(* added, changed or removed list that i selects.                          *)
(*                                                                         *)
(* The reply is the wire form of spec 4.5: one array holding three arrays  *)
(* of group names, [added, changed, removed].  XMLProcessorManager is not  *)
(* under src/; spec 9 describes it as a push parser that calls a leaf      *)
(* callback for text content and a boundary callback at an element's open *)
(* or close, and says its exact event order is not recoverable.  The       *)
(* order is therefore a choice fixed in Init: the boundary callback fires  *)
(* at a data element's open, its close, or both, and for the outer data    *)
(* element only or for the three inner ones as well.  Every string leaf    *)
(* reaches the leaf callback, in document order.                           *)
(***************************************************************************)
EXTENDS Integers, Sequences, SequencesExt

CONSTANTS
    GroupNames,     \* group names a reply may carry
    MaxNames,       \* longest list of the reply
    Orders          \* the event orders XMLProcessorManager may have

VARIABLES
    sent,           \* the reply: <<added, changed, removed>> as sent
    events,         \* the events XMLProcessorManager has yet to deliver
    i,              \* the decoder's index, -1 before the first list
    hasValue,       \* the decoder's flag: a leaf was seen since a boundary
    groups          \* <<AddedGroup, ChangedGroup, RemovedGroup>> so far

vars == <<sent, events, i, hasValue, groups>>

-----------------------------------------------------------------------------
(* The event stream (spec 4.5 and 9).                                      *)

\* Where the boundary callback fires: at: "open", "close" or "both";
\* nested: also on the data element of each inner array.
Semantics == [at : {"open", "close", "both"}, nested : BOOLEAN]

ASSUME Orders \subseteq Semantics /\ Orders # {}

Boundary == [kind |-> "boundary"]

\* The boundary events of one matched data element around its content.
AroundData(sem, content) ==
    (IF sem.at \in {"open", "both"} THEN <<Boundary>> ELSE <<>>)
    \o content
    \o (IF sem.at \in {"close", "both"} THEN <<Boundary>> ELSE <<>>)

\* A leaf event carries a string's text.
Leaf(v) == [kind |-> "leaf", text |-> v]

\* The events of one inner array: a leaf event per name.
InnerArray(sem, names) ==
    LET leaves == [k \in DOMAIN names |-> Leaf(names[k])]
    IN IF sem.nested THEN AroundData(sem, leaves) ELSE leaves

\* The events of the whole reply.
Events(sem, reply) ==
    AroundData(sem, FlattenSeq([k \in 1..3 |-> InnerArray(sem, reply[k])]))

\* A reply Sub can produce: three lists of distinct names, pairwise
\* disjoint (spec 3, Group Index).
Replies ==
    LET Lists == {s \in SeqOf(GroupNames, MaxNames) : IsInjective(s)}
    IN {r \in Lists \X Lists \X Lists :
          \A a, b \in 1..3 : a # b => Range(r[a]) \cap Range(r[b]) = {}}

-----------------------------------------------------------------------------
\* ReloadConfig's set-up: three empty lists, i = -1, hasValue = false; the
\* reply arrives (post called back with no error) and ProcessXML runs.
Init ==
    /\ sent \in Replies
    /\ \E sem \in Orders : events = Events(sem, sent)
    /\ i = -1
    /\ hasValue = FALSE
    /\ groups = <<<<>>, <<>>, <<>>>>

\* The boundary callback: a boundary after a leaf clears the flag, any
\* other one moves to the next list.
OnBoundary ==
    /\ events # <<>> /\ Head(events) = Boundary
    /\ IF hasValue THEN hasValue' = FALSE /\ i' = i
                   ELSE hasValue' = hasValue /\ i' = i + 1
    /\ events' = Tail(events)
    /\ UNCHANGED <<sent, groups>>

\* The leaf callback: set the flag, advance i, and append the value to the
\* list i selects (case 0, 1, 2); any other i drops it.
OnLeaf ==
    /\ events # <<>> /\ Head(events).kind = "leaf"
    /\ hasValue' = TRUE
    /\ i' = i + 1
    /\ groups' = IF i + 1 \in 0..2
                 THEN [groups EXCEPT ![i + 2] = Append(@, Head(events).text)]
                 ELSE groups
    /\ events' = Tail(events)
    /\ UNCHANGED sent

Next == OnBoundary \/ OnLeaf

Spec == Init /\ [][Next]_vars

-----------------------------------------------------------------------------
TypeOK ==
    /\ i \in -1..(3 * MaxNames + 8)
    /\ hasValue \in BOOLEAN
    /\ groups \in SeqOf(GroupNames, 3 * MaxNames) \X SeqOf(GroupNames, 3 * MaxNames)
                                                 \X SeqOf(GroupNames, 3 * MaxNames)

\* Once the reply is decoded, ReloadConfig returns the three lists that
\* were sent, each name in its own list and order (spec 8: the round trip
\* of added=["g1"], changed=[], removed=["g2","g3"]).  This is about the
\* index i that both callbacks advance: the leaf callback moves it on
\* every string, the boundary callback only when no leaf came before it.
RoundTrip == events = <<>> => groups = sent

=============================================================================
