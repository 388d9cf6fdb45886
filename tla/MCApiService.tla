---------------------------- MODULE MCApiService ----------------------------
\* Two clients of an API that asks for credentials, or of an open one behind a
\* proxy: two standard requests and an expensive one per window of two seconds,
\* read from a clock that ticks every half second.
EXTENDS ApiService, TLC

CONSTANTS k1, k2, a1, a2, h1, h2

MCLimit == [standard |-> 2, expensive |-> 1]

Deployment(production, keys, tokens, trusted) ==
    [production |-> production, authentication |-> keys # {}, keys |-> keys, tokens |-> tokens,
     secrets |-> "strong", trusting |-> trusted # {}, trusted |-> trusted]

\* The last two do not start.
MCDeployments ==
    {Deployment(TRUE, {k1}, {k2}, {}), Deployment(FALSE, {}, {}, {a1}), Deployment(TRUE, {}, {}, {a1}),
     [Deployment(TRUE, {k1}, {k2}, {}) EXCEPT !.secrets = "short"]}

Call(path, key, token, forwarded) ==
    [path |-> path, key |-> key, token |-> token, host |-> a1, forwarded |-> forwarded,
     length |-> "within", body |-> "within"]

\* The first client shows a key, the second a token, and once a wrong key too.
MCCalls ==
    {Call(p, k1, None, None) : p \in {"validate", "repair", "job", "status"}}
    \cup {Call("validate", None, k2, a2)}
    \cup {Call("status", "wrong", k2, a2), Call("status", None, None, None), Call("status", "wrong", None, None)}
    \cup {[Call("validate", k1, None, None) EXCEPT !.length = l] : l \in {"malformed", "over"}}
    \cup {[Call("validate", k1, None, None) EXCEPT !.body = "over"]}

File(stem, suffix, bytes) == [stem |-> stem, suffix |-> suffix, safe |-> TRUE, clean |-> TRUE, bytes |-> bytes]
Upload(files, layer) == [files |-> files, layer |-> layer]

\* Up to three small files of two stems, a complete Shapefile with a fourth file,
\* and files that cannot be decoded.
Parts == {File(stem, suffix, 1) : stem \in {"a", "b"}, suffix \in {"shp", "shx", "dbf", "gpkg"}}
MCUploads ==
    {Upload(<<f>>, l) : f \in Parts \ {File("b", "gpkg", 1)}, l \in {None, "roads"}}
    \cup {Upload(files, None) : files \in [1..2 -> Parts]}
    \cup {Upload(<<File("a", "shp", 1), File(stem, "shx", 1), f>>, l) :
              stem \in {"a", "b"}, f \in Parts, l \in {None, "roads"}}
    \cup {Upload(<<File("a", "shp", 1), File("a", "shx", 1), File("a", "dbf", 1), f>>, None) :
              f \in Parts \cup {File("a", "prj", 13), File("b", "prj", 1)}}
    \cup {Upload(<<[File("a", "gpkg", n) EXCEPT !.safe = s, !.clean = c]>>, None) : n \in {1, 14}, s, c \in BOOLEAN}

Dataset(driver, layers, counted, features) ==
    [driver |-> driver, layers |-> layers, counted |-> counted, geometry |-> TRUE, features |-> features]

\* Up to three features, more than the limits of two and, for a repair, one.
MCDatasets ==
    {Dataset("GPKG", {"roads"}, TRUE, f) : f \in {<<"invalid">>, <<"invalid", "invalid">>}}
    \cup {Dataset("GPKG", {"roads"}, c, <<"valid", "valid", "valid">>) : c \in BOOLEAN}
    \cup {Dataset("ESRI Shapefile", {"a"}, TRUE, <<"invalid">>), Dataset("GPKG", {}, TRUE, <<>>),
          Dataset("GPKG", {"roads", "lots"}, TRUE, <<"valid">>), Dataset("CSV", {"roads"}, TRUE, <<"valid">>),
          [Dataset("GPKG", {"roads"}, TRUE, <<>>) EXCEPT !.geometry = FALSE]}

Symmetry == Permutations(Slots)
=============================================================================
