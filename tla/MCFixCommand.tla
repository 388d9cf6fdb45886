---------------------------- MODULE MCFixCommand ----------------------------
\* geoqc fix over one layer of up to three features, or two small layers, on a
\* ring of two parcels around a gap with an island in it.
EXTENDS FixCommand, TLC

CONSTANTS west, east, lake, isle, strip, out

MCFaces == {west, east, lake, isle, strip}

Lengths == (<<west, east>> :> 2) @@ (<<west, out>> :> 3) @@ (<<east, out>> :> 2)
    @@ (<<west, lake>> :> 2) @@ (<<east, lake>> :> 1) @@ (<<lake, isle>> :> 1)
    @@ (<<east, strip>> :> 1) @@ (<<strip, out>> :> 1)

MCBorder == [e \in (MCFaces \cup {out}) \X (MCFaces \cup {out}) |->
    IF e \in DOMAIN Lengths THEN Lengths[e]
    ELSE IF <<e[2], e[1]>> \in DOMAIN Lengths THEN Lengths[<<e[2], e[1]>>] ELSE 0]

MCArea == (west :> 8) @@ (east :> 6) @@ (lake :> 2) @@ (isle :> 1) @@ (strip :> 1)
MCSlivers == {{strip}}

Of(faces, kind) == [faces |-> faces, kind |-> kind]

Shapes ==
    {Of(S, "polygon") : S \in {{west}, {east}, {isle}, {west, east}, {west, strip}, {east, strip}}}
    \cup {Of({west}, "repeated"), Of({east}, "selftouch"), Of({}, "collapsed"), Of({east}, "broken")}

Layer(features, badLines) == [opens |-> TRUE, features |-> features, badLines |-> badLines]
Unreadable == [opens |-> FALSE, features |-> <<>>, badLines |-> 0]

\* A second layer of lines only, of one parcel, or one that cannot be read.
SecondLayers == {Layer(<<>>, 1), Layer(<<Of({west}, "polygon")>>, 0), Unreadable}

MCSources ==
    {<<Layer(f, 0)>> : f \in UNION {[1..n -> Shapes] : n \in 1..3}}
    \cup {<<Layer(f, 1), second>> : f \in [1..2 -> Shapes], second \in SecondLayers}
=============================================================================
