----------------------------- MODULE MCSelection -----------------------------
EXTENDS Selection

CONSTANTS short, long, typed

MCTexts == {short, long, typed}

\* The short text occurs in the long one.
MCWithin == {<<t, t>> : t \in MCTexts} \cup {<<short, long>>}

\* For the long text its head is tried first; it stands there twice.
MCCandidates == [q \in MCTexts |-> IF q = long THEN <<short, long>> ELSE <<q>>]
MCStops ==
    [ct \in MCTexts \X MCTexts |-> IF ct = <<short, long>> THEN 2 ELSE IF ct[1] = ct[2] THEN 1 ELSE 0]
MCAnchors == {<<short, long>>}
=============================================================================
