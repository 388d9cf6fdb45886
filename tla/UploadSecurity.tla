--------------------------- MODULE UploadSecurity ---------------------------
(***************************************************************************)
(* What the API accepts as an upload: the bounded decoding of its files,   *)
(* the choice of the one dataset they make up, and the checks on the       *)
(* staged dataset before it is read (interfaces/api/upload_security.py).   *)
(*                                                                         *)
(* A file is [stem, suffix, safe, clean, bytes]: its case-folded name,     *)
(* whether _validate_filename takes it, whether its base64 is well formed, *)
(* and its decoded length.  An upload is [files, layer].  A dataset is     *)
(* what GDAL finds in the staged files: [driver, layers, opens, counted,   *)
(* geometry, features], counted when the driver knows the number of        *)
(* features without reading them.  A check gives the HTTP status of its    *)
(* refusal, or OK.                                                         *)
(***************************************************************************)
EXTENDS Integers, Sequences, FiniteSets, FiniteSetsExt, SequencesExt

CONSTANTS
    None,               \* absent value
    MaxUploadBytes,     \* max_upload_bytes
    MaxFeatures,        \* max_features
    AllowedExtensions,  \* allowed_extensions
    AllowedDrivers      \* allowed_drivers

OK == 200

\* SINGLE_FILE_DRIVERS.
SingleFileDrivers ==
    [geojson |-> {"GeoJSON"}, json |-> {"GeoJSON"}, gpkg |-> {"GPKG"}, fgb |-> {"FlatGeobuf"},
     parquet |-> {"GeoParquet"}]
RequiredShapefileSuffixes == {"shp", "shx", "dbf"}
AllowedShapefileSuffixes == RequiredShapefileSuffixes \cup {"prj", "cpg"}

Names(files) == {<<f.stem, f.suffix>> : f \in Range(files)}
FileSuffixes(files) == {f.suffix : f \in Range(files)}
Stems(files) == {f.stem : f \in Range(files)}

DecodedBytes(files) == FoldSeq(LAMBDA f, n : f.bytes + n, 0, files)

\* Base64 takes four characters for three bytes, and pads every file.
EncodedChars(bytes) == ((bytes + 2) \div 3) * 4

\* _decode_components, one file: the earlier files are decoded.
FileRefused(files, k) ==
    LET f == files[k] IN
    IF ~f.safe \/ <<f.stem, f.suffix>> \in Names(SubSeq(files, 1, k - 1)) \/ ~f.clean THEN 400
    ELSE IF DecodedBytes(SubSeq(files, 1, k)) > MaxUploadBytes THEN 413
    ELSE OK

\* _decode_components: the first file that is refused decides.
DecodeComponents(files) ==
    LET refused == {k \in DOMAIN files : FileRefused(files, k) # OK}
    IN IF FoldSeq(LAMBDA f, n : EncodedChars(f.bytes) + n, 0, files) > EncodedChars(MaxUploadBytes) THEN 413
       ELSE IF refused = {} THEN OK ELSE FileRefused(files, Min(refused))

ComponentsOfAnyStem(upload) ==
    LET suffixes == FileSuffixes(upload.files)
        primary == suffixes \cap (DOMAIN SingleFileDrivers \cup {"shp"})
    IN /\ primary \subseteq AllowedExtensions
       /\ IF "shp" \in suffixes \/ Len(upload.files) > 1
          THEN /\ RequiredShapefileSuffixes \subseteq suffixes
               /\ suffixes \subseteq AllowedShapefileSuffixes
               /\ upload.layer = None
          ELSE suffixes \subseteq DOMAIN SingleFileDrivers

\* _validate_component_set: a complete Shapefile with one base name and no
\* layer, or a single file of another format.
ComponentSetAccepted(upload) ==
    LET suffixes == FileSuffixes(upload.files)
        primary == suffixes \cap (DOMAIN SingleFileDrivers \cup {"shp"})
    IN /\ primary \subseteq AllowedExtensions
       /\ IF "shp" \in suffixes \/ Len(upload.files) > 1
          THEN /\ RequiredShapefileSuffixes \subseteq suffixes
               /\ suffixes \subseteq AllowedShapefileSuffixes
               /\ Cardinality(Stems(upload.files)) = 1
               /\ upload.layer = None
          ELSE suffixes \subseteq DOMAIN SingleFileDrivers

\* What a handler answers before it stages anything.
UploadRefused(upload) ==
    IF DecodeComponents(upload.files) # OK THEN DecodeComponents(upload.files)
    ELSE IF ComponentSetAccepted(upload) THEN OK ELSE 400

\* The suffix of the selected file.
Selected(files) == IF Len(files) > 1 THEN "shp" ELSE files[1].suffix

\* _resolve_layer: only a GeoPackage has layers, and one of several must be named.
LayerRefused(suffix, layer, dataset) ==
    IF suffix # "gpkg" THEN (IF layer = None THEN OK ELSE 400)
    ELSE IF layer # None THEN (IF layer \in dataset.layers THEN OK ELSE 400)
    ELSE IF Cardinality(dataset.layers) = 1 THEN OK ELSE 400

\* _verify_dataset: the driver GDAL detects, the number of features when it is
\* known, and the geometry column.
DatasetRefused(suffix, dataset) ==
    LET expected == IF suffix = "shp" THEN {"ESRI Shapefile"} ELSE SingleFileDrivers[suffix]
    IN IF dataset.driver \notin expected \cap AllowedDrivers THEN 422
       ELSE IF dataset.counted /\ Len(dataset.features) > MaxFeatures THEN 413
       ELSE IF dataset.geometry THEN OK ELSE 422
=============================================================================
