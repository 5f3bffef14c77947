---------------------------- MODULE EntryGetters ----------------------------
(***************************************************************************)
(* ConfigEntry.GetEnv (the config.go part of src/xmlrpc-client.go): the    *)
(* hand-written scanner that splits an "environment" value such as         *)
(*     A="env 1",B=plain                                                   *)
(* into KEY="VALUE" strings.  It is a pure function of the raw value, so   *)
(* the state is one raw value, the encoding of a pair list chosen among    *)
(* every bounded list of pairs; the check compares the scanner with the    *)
(* format it is meant to read.                                             *)
(*                                                                         *)
(* A value is a sequence of one-character strings, indexed from 1; At(v,i) *)
(* is the code's value[i] (0-based).  The scanner's output string          *)
(* KEY="VALUE" is kept as the pair <<KEY, VALUE>>: the Sprintf layout      *)
(* adds nothing a property reads.  The alphabet has no '%', so the         *)
(* StringExpression pass over each output string substitutes nothing and  *)
(* drops nothing.                                                          *)
(***************************************************************************)
EXTENDS Integers, Sequences, FiniteSets

CONSTANTS
    Chars,      \* the characters a raw value is made of
    Keys,       \* keys of the pair lists enumerated (character sequences)
    QuotedVals, \* values written between double quotes
    PlainVals,  \* values written without quotes
    MaxPairs    \* longest pair list enumerated

ASSUME {"=", "\"", ","} \subseteq Chars

VARIABLES
    value,      \* the raw string c.keyValues["environment"]
    written     \* the pair list value was written from

vars == <<value, written>>

\* value[i] of the code, 0-based.
At(v, i) == v[i + 1]

\* The inner "for i = from; i < n && value[i] != c; i++" loops: the first
\* index at or after from holding c, or n.
ScanTo(v, from, c) ==
    LET hits == {j \in from..Len(v) : j = Len(v) \/ At(v, j) = c}
    IN CHOOSE j \in hits : \A k \in hits : j <= k

\* value[lo:hi] of the code.
Slice(v, lo, hi) == SubSeq(v, lo + 1, hi)

\* Mutant: the quoted branch resumes one character early, at the comma.
RECURSIVE EnvLoopComma(_, _, _)
EnvLoopComma(v, start, env) ==
    LET n   == Len(v)
        i   == ScanTo(v, start, "=")
        key == Slice(v, start, i)
        s   == i + 1
    IN IF s >= n THEN [panic |-> TRUE, env |-> env]
       ELSE IF At(v, s) = "\""
       THEN LET j    == ScanTo(v, s + 1, "\"")
                env1 == IF j < n THEN Append(env, <<key, Slice(v, s + 1, j)>>) ELSE env
            IN IF j + 1 < n /\ At(v, j + 1) = ","
               THEN EnvLoopComma(v, j + 1, env1)
               ELSE [panic |-> FALSE, env |-> env1]
       ELSE LET j == ScanTo(v, s, ",")
            IN IF j < n
               THEN EnvLoopComma(v, j + 1, Append(env, <<key, Slice(v, s, j)>>))
               ELSE [panic |-> FALSE, env |-> Append(env, <<key, Slice(v, s, n)>>)]

\* The outer "for" loop of GetEnv from index start with the pairs found so
\* far.  value[start] after the '=' is read without a bounds check: when
\* the '=' is missing or is the last character the Go program panics
\* (index out of range), recorded as panic = TRUE.
RECURSIVE EnvLoop(_, _, _)
EnvLoop(v, start, env) ==
    LET n   == Len(v)
        i   == ScanTo(v, start, "=")
        key == Slice(v, start, i)
        s   == i + 1
    IN IF s >= n THEN [panic |-> TRUE, env |-> env]
       ELSE IF At(v, s) = "\""
       THEN LET j    == ScanTo(v, s + 1, "\"")
                env1 == IF j < n THEN Append(env, <<key, Slice(v, s + 1, j)>>) ELSE env
            IN IF j + 1 < n /\ At(v, j + 1) = ","
               THEN EnvLoop(v, j + 2, env1)
               ELSE [panic |-> FALSE, env |-> env1]
       ELSE LET j == ScanTo(v, s, ",")
            IN IF j < n
               THEN EnvLoop(v, j + 1, Append(env, <<key, Slice(v, s, j)>>))
               ELSE [panic |-> FALSE, env |-> Append(env, <<key, Slice(v, s, n)>>)]

\* GetEnv of a present key (an absent key yields the empty list).
GetEnv(v) == EnvLoop(v, 0, <<>>)

-----------------------------------------------------------------------------
(* The format the scanner reads: comma-separated KEY=VALUE, the value      *)
(* either in double quotes or plain.                                       *)

Pair == [key : Keys, val : QuotedVals \cup PlainVals, quoted : BOOLEAN]

WritePair(p) ==
    p.key \o <<"=">> \o (IF p.quoted THEN <<"\"">> \o p.val \o <<"\"">> ELSE p.val)

RECURSIVE WriteEnv(_)
WriteEnv(ps) ==
    IF Len(ps) = 1 THEN WritePair(ps[1])
    ELSE WritePair(ps[1]) \o <<",">> \o WriteEnv(Tail(ps))

\* A pair list the format can express: a quoted value holds no quote, a
\* plain one no comma.
Writable(ps) ==
    \A k \in DOMAIN ps :
        /\ ps[k].quoted => ps[k].val \in QuotedVals
        /\ ~ps[k].quoted => ps[k].val \in PlainVals

PairLists == UNION {[1..m -> Pair] : m \in 1..MaxPairs}

-----------------------------------------------------------------------------
\* The value is the written form of a pair list.
InitWritten ==
    /\ written \in {ps \in PairLists : Writable(ps)}
    /\ value = WriteEnv(written)

\* GetEnv is a pure read: a step leaves the value as it is.
Next == UNCHANGED vars

SpecWritten == InitWritten /\ [][Next]_vars

-----------------------------------------------------------------------------
(* Properties.                                                             *)

TypeOK == value \in Seq(Chars) /\ written \in Seq(Pair)

\* Reading back a written pair list yields the pairs: keys and values in
\* order, quotes stripped, commas inside quotes kept.  This is about the
\* index arithmetic of GetEnv's quoted and plain branches and where each
\* resumes after a comma.
GetEnvReadsWritten ==
    /\ ~GetEnv(value).panic
    /\ GetEnv(value).env = [k \in DOMAIN written |-> <<written[k].key, written[k].val>>]

=============================================================================
