--------------------------- MODULE MCRepairSession --------------------------
\* A session over a ring of two parcels around a gap with an island in it.
EXTENDS RepairSession, TLC

CONSTANTS west, east, lake, isle, pit, strip, out

MCFaces == {west, east, lake, isle, pit, strip}

\* west and east form the ring, lake is the gap in it, isle a ring-shaped island
\* in the lake, pit the hole in the isle, strip a sliver on the far side of east.
Lengths == (<<west, east>> :> 2) @@ (<<west, out>> :> 3) @@ (<<east, out>> :> 2)
    @@ (<<west, lake>> :> 2) @@ (<<east, lake>> :> 1) @@ (<<lake, isle>> :> 1) @@ (<<isle, pit>> :> 1)
    @@ (<<east, strip>> :> 1) @@ (<<strip, out>> :> 1)

MCBorder == [e \in (MCFaces \cup {out}) \X (MCFaces \cup {out}) |->
    IF e \in DOMAIN Lengths THEN Lengths[e]
    ELSE IF <<e[2], e[1]>> \in DOMAIN Lengths THEN Lengths[<<e[2], e[1]>>] ELSE 0]

MCArea == (west :> 8) @@ (east :> 6) @@ (lake :> 2) @@ (isle :> 1) @@ (pit :> 1) @@ (strip :> 1)
MCSlivers == {{strip}}

Of(faces, kind) == [faces |-> faces, kind |-> kind]

Shapes ==
    {Of(S, "polygon") : S \in {{west}, {east}, {isle}, {west, isle}, {west, east},
                               {west, strip}, {east, strip}, {west, east, lake}}}
    \cup {Of({west}, "repeated"), Of({east}, "selftouch"), Of({}, "collapsed"),
          Of({east}, "broken"), Of({}, "line")}

MCCoverages == UNION {[1..n -> Shapes] : n \in 1..3}

Config(resolve, gap, budget) ==
    [mend |-> TRUE, slivers |-> TRUE, resolve |-> resolve, fill |-> TRUE,
     gap |-> gap, budget |-> budget]

\* The defaults with a gap threshold above and below the gap, a change budget,
\* and a run that keeps overlaps.
MCConfigs == {Config(TRUE, 5, None), Config(TRUE, 2, 10), Config(TRUE, 5, 50),
              Config(FALSE, 5, None)}
=============================================================================
