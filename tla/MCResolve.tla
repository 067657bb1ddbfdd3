------------------------------ MODULE MCResolve -------------------------------
EXTENDS Resolve

P(abs, comps) == [abs |-> abs, comps |-> comps]

(* /a/b/x and /f are files, /l, /a/m and /a/b/n links.                     *)
Kind == [r |-> "dir", a |-> "dir", b |-> "dir", x |-> "file", f |-> "file",
         l |-> "link", m |-> "link", n |-> "link"]
Entry == [r |-> (".." :> "r" @@ "a" :> "a" @@ "f" :> "f" @@ "l" :> "l"),
          a |-> (".." :> "r" @@ "b" :> "b" @@ "m" :> "m"),
          b |-> (".." :> "a" @@ "x" :> "x" @@ "n" :> "n")]
TreesWith(Targets, Deepest) ==
    {[root |-> "r", kind |-> Kind, entry |-> Entry, target |-> [l |-> t, m |-> u, n |-> v]] :
       t \in Targets, u \in Targets, v \in Deepest}

(* Targets with ".." only in front.                                        *)
Straight ==
    {P(abs, c) : abs \in BOOLEAN, c \in {<<"a">>, <<"a", "m">>, <<"l">>}}
    \cup {P(FALSE, c) : c \in {<<"..">>, <<"..", "l">>, <<"b", ".", "n">>, <<"b">>,
                               <<"..", "..", "f">>, <<"m", "b">>, <<"none">>}}
    \cup {P(TRUE, <<>>)}
Third == {P(FALSE, <<"..", "m">>), P(FALSE, <<"x">>), P(TRUE, <<"a", "b">>)}
StraightTrees == TreesWith(Straight, Third)
MCPaths ==
    {P(abs, c) : abs \in BOOLEAN, c \in {<<>>, <<"l">>, <<"a", "b", "n">>}}
    \cup {P(FALSE, c) : c \in {<<"..", "a", "m">>, <<"l", "m">>, <<"l", "b", "x">>, <<"a", "m", "n">>,
                               <<"l", "l", "a">>, <<"a", "m", "l">>, <<"f", "x">>, <<".", "l", "none">>}}
===============================================================================
