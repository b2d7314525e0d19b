------------------------------ MODULE MCStartup ------------------------------
(* An instance of Startup for TLC. *)
EXTENDS StartupProperties

CONSTANTS a, b, d, v1, v2, v3, bad, p1, p2

\* The names a and b have one schema.
MCSchemaOf == [n \in {a, b, d} |-> IF n = d THEN "d" ELSE "ab"]
MCRankOf   == [n \in {a, b, d} |-> IF n = a THEN 1 ELSE IF n = b THEN 2 ELSE 3]

FileWith(o, x) == [order |-> o, place |-> "inside", sql |-> x]

Plugin(n, f) ==
    [valid |-> TRUE, name |-> n, scenarios |-> {n}, fits |-> TRUE,
     checksum |-> TRUE, code |-> {n}, file |-> f]

\* Three releases of two plugins; the last one changes a file and forgets the order.
Releases ==
    {<<Plugin(a, FileWith(1, v1)), Plugin(d, FileWith(1, v1))>>,
     <<Plugin(a, FileWith(2, v2)), Plugin(d, FileWith(1, v1))>>,
     <<Plugin(a, FileWith(2, v3)), Plugin(d, NoFile)>>}

\* One plugin in any shape, next to one that is in order.
Shapes ==
    [valid : BOOLEAN, name : Name, scenarios : {{a}, {b}}, fits : BOOLEAN,
     checksum : BOOLEAN, code : {{a}, {b}},
     file : {NoFile, FileWith(1, v1), FileWith(1, bad)} \cup
            {[order |-> 1, place |-> x, sql |-> v1] : x \in {"outside", "missing", "directory"}}]

Trees == {<<m, Plugin(b, FileWith(2, v2))>> : m \in Shapes} \cup {<<>>}

\* The commands of p1 and of the others.
Commands ==
    {<<"run", "run">>, <<"run", "skip">>, <<"run", "plugins">>, <<"run", "create">>,
     <<"core", "plugins">>, <<"plugins", "create">>}

Deploy(s, t, c) ==
    [p \in Process |-> IF p = p1 THEN [tree |-> s, command |-> c[1]]
                       ELSE [tree |-> t, command |-> c[2]]]

\* An empty database, and one on which the first release ran.
MCInstalled ==
    {[n \in Name |-> NoEntry],
     [n \in Name |-> IF n = b THEN NoEntry ELSE [order |-> 1, sql |-> v1]]}

MCDeployments ==
    {Deploy(s, t, c) : s \in Releases, t \in Releases, c \in Commands} \cup
    {Deploy(t, t, <<"run", "skip">>) : t \in Trees}
=============================================================================
