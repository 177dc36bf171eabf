-------------------------- MODULE MCResolutionPass --------------------------
EXTENDS ResolutionPass
CONSTANTS p, q, r, s
MCChain == <<<<p, q, r>>, <<p, q, r>>, <<q, r>>>>
\* q and r are two vaults of one account.
MCScope == [x \in {p, q, r} |-> IF x = p THEN None ELSE s]
MCPolicy == <<"generate", "default", "generate">>
MCStores == {<<{}, {}, {}>>, <<{q, r}, {p}, {r}>>, <<{r}, {q, r}, {q}>>}
=============================================================================
