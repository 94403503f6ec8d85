----------------------------- MODULE MCRunLoop -----------------------------
EXTENDS RunLoop

CONSTANTS a, b

MCNames == {a, b}
MCPlans == {<<a, b>>}
MCContracts == {<<>>, <<World, a>>}
MCRequests == {<<"instruction", <<World>>>>, <<"approval", <<>>>>}
MCTypes == {"plan", "done"}
=============================================================================
