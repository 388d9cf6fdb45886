--------------------------- MODULE MCAuditCommand ----------------------------
\* A folder with a Shapefile; below it a GeoPackage of two layers and an unreadable
\* one; another folder; files that are not audited; and a dataset of the user's
\* with the name of issue layers.  Commands on the folders,
\* with and without what is below them, and on files, after checks of the datasets
\* and of issue layers that a check wrote.
EXTENDS AuditCommand

File(dir, stem, suffix, names) ==
    [dir |-> dir, stem |-> stem, suffix |-> suffix, link |-> FALSE, layers |-> names, written |-> FALSE]

MCDatasets ==
    {File(<<"data">>, <<"roads">>, "shp", {"roads"}), File(<<"data">>, <<"roads">>, "dbf", {}),
     File(<<"data">>, <<"zones">>, "json", {"zones"}),
     File(<<"data">>, <<"known", "issues">>, "gpkg", {"known"}), File(<<"data", "docs">>, <<"notes">>, "txt", {}),
     File(<<"more">>, <<"lost">>, "fgb", {}),
     File(<<"data", "old">>, <<"roads">>, "gpkg", {"lines", "points"}), File(<<"data", "old">>, <<"torn">>, "gpkg", {}),
     [File(<<"data">>, <<"linked">>, "shp", {}) EXCEPT !.link = TRUE]}

Request(command, named, folders, recursive) ==
    [command |-> command, named |-> named, folders |-> folders, recursive |-> recursive]

Roads == <<<<"data">>, <<"roads">>, "shp">>
IssueLayers == <<<<"data", OutputDir>>, <<"roads", "issues">>, "gpkg">>

MCRequests ==
    {Request("audit", {}, {<<"data">>}, r) : r \in BOOLEAN}
    \cup {Request("audit", {}, {<<"data">>, <<"data", OutputDir>>}, FALSE)}
    \cup {Request("audit", {}, {<<"data">>, <<"more">>}, TRUE)}
    \cup {Request("batch", {}, {<<"data">>}, r) : r \in BOOLEAN}
    \cup {Request("audit", {Roads, IssueLayers}, {<<"data">>}, FALSE), Request("audit", {}, {<<"elsewhere">>}, TRUE),
          Request("audit", {<<<<"data", "docs">>, <<"notes">>, "txt">>}, {}, FALSE),
          Request("batch", {<<<<"data">>, <<"linked">>, "shp">>}, {}, FALSE), Request("batch", {}, {<<"data", "docs">>}, FALSE)}
=============================================================================
