----------------------------- MODULE MCServices -----------------------------
(* A small instance of Services: two sessions, two names besides the empty   *)
(* one, and room for three nodes besides the root.  The raw paths contain    *)
(* well-formed ones of every depth the room allows, one with a final slash,  *)
(* one outside the root, and malformed ones.                                 *)
EXTENDS Services, TLC

CONSTANTS e, a, b

MCData == {<<>>, <<"x">>}
MCDummyData == <<"d", "u", "m", "m", "y">>
MCRootData == <<"r", "o", "o", "t">>

MCRawPaths ==
    {<<e>>, <<e, e>>, <<e, e, a>>, <<e, a>>, <<e, b>>, <<e, a, a>>,
     <<e, a, b>>, <<e, a, b, e>>, <<e, a, a, b>>, <<a>>}

\* The latest answer enables nothing, so it does not tell states apart; TLC still
\* checks the answer of every step it generates against the store.
Graph == <<live, children, node, sessionMap>>

Symmetry == Permutations(Nodes \ {Dummy, RootNode}) \cup Permutations(Sessions)
=============================================================================
