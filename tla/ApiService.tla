----------------------------- MODULE ApiService -----------------------------
(***************************************************************************)
(* A request on its way through the HTTP API.  The middleware checks the   *)
(* credential and the declared length and charges the rate limiter, all    *)
(* before the first await; then handlers run in threads of their own: they *)
(* decode the upload, stage it in a temporary directory, let the geometry  *)
(* engines or the coverage repairer work on it, and leave the directory.   *)
(*                                                                         *)
(* A call is [path, key, token, host, forwarded, length, body]: what the   *)
(* request shows of itself (a peer without a usable address has the host   *)
(* "unknown"); length and body tell whether its declared and its streamed  *)
(* size are within max_request_bytes.                                      *)
(***************************************************************************)
EXTENDS RateLimiter, UploadSecurity

CONSTANTS
    Slots,              \* requests that are handled at a time, at most
    Calls,              \* what may arrive
    Uploads,            \* what a body may carry
    Datasets,           \* what staged files may turn out to be
    Deployments,        \* configurations: [production, authentication, keys, tokens, secrets,
                        \* trusting, trusted], the secrets "strong", "short" or "empty"
    MaxReported,        \* max_reported_features
    MaxRepairFeatures   \* max_repair_features

ASSUME ApiAssumption ==
    /\ \A d \in Deployments : d.keys \cup d.tokens \subseteq Identities
    /\ \A c \in Calls : c.host \in Identities /\ c.forwarded \in Identities \cup {None}
    /\ \A u \in Uploads : u.files \in Seq(Range(u.files)) \ {<<>>}
    /\ \A d \in Datasets : d.features \in Seq(Range(d.features))
    /\ \A u \in Uploads, c \in Calls : None # [phase |-> "staged", path |-> c.path, layer |-> u.layer]

VARIABLES
    settings,   \* the deployment
    handling,   \* handling[s]: the request in slot s, None when there is none
    staged      \* staged[s]: the files in its temporary directory, <<>> without one

apiVars == <<settings, handling, staged>>
vars == <<limiterVars, apiVars>>

-----------------------------------------------------------------------------
(* settings.py, authentication.py and operations.py *)

SafeExtensions == (DOMAIN SingleFileDrivers \ {"parquet"}) \cup {"shp"}
SafeDrivers == {"ESRI Shapefile", "FlatGeobuf", "GeoJSON", "GPKG"}

\* What ApiSettings asks of a configuration before the service starts.
Startable(d) ==
    /\ {MaxUploadBytes, MaxFeatures, MaxReported, MaxRepairFeatures} \subseteq Nat \ {0}
    /\ AllowedExtensions # {} /\ AllowedExtensions \subseteq SafeExtensions
    /\ AllowedDrivers # {} /\ AllowedDrivers \subseteq SafeDrivers
    /\ d.secrets # "empty"
    /\ d.production =>
        /\ d.authentication
        /\ d.keys \cup d.tokens # {}
        /\ d.secrets = "strong"
        /\ d.trusting => d.trusted # {}

Presented(c) == c.key # None \/ c.token # None

\* The credential a call is accepted with; a valid key goes before a token.
Credential(c) ==
    IF c.key \in settings.keys THEN c.key
    ELSE IF c.token \in settings.tokens THEN c.token ELSE None

Authenticated(c) == ~settings.authentication \/ Credential(c) # None

\* _client_identity: the address a trusted proxy forwards for, or the peer's.
ClientIdentity(c) ==
    IF settings.trusting /\ c.host \in settings.trusted /\ c.forwarded # None THEN c.forwarded ELSE c.host

Identity(c) ==
    IF settings.authentication /\ Credential(c) # None THEN Credential(c) ELSE ClientIdentity(c)

Expensive == {"validate", "repair", "job"}
Bucket(c) == IF c.path \in Expensive THEN "expensive" ELSE "standard"

\* What the middleware answers without asking the limiter.
TurnedAway(c) ==
    IF ~Authenticated(c) THEN (IF Presented(c) THEN 403 ELSE 401)
    ELSE IF c.length = "malformed" THEN 400
    ELSE IF c.length = "over" THEN 413
    ELSE OK

Idle(s) == handling[s] = None

Called(c) == [phase |-> "called", path |-> c.path, body |-> c.body]

RefuseCall ==
    /\ requests < MaxRequests
    /\ \E c \in Calls : TurnedAway(c) # OK
    /\ requests' = requests + 1
    /\ UNCHANGED <<windows, now, told, comeBack, admitted, apiVars>>

\* 429 with Retry-After.
RefuseCharged ==
    /\ \E c \in Calls : TurnedAway(c) = OK /\ Refuse(<<Identity(c), Bucket(c)>>)
    /\ UNCHANGED apiVars

Dispatch(s) ==
    /\ Idle(s)
    /\ \E c \in Calls :
           /\ TurnedAway(c) = OK
           /\ Admit(<<Identity(c), Bucket(c)>>)
           /\ handling' = [handling EXCEPT ![s] = Called(c)]
    /\ UNCHANGED <<settings, staged>>

-----------------------------------------------------------------------------
(* The handlers *)

Handled(s, phase) == handling[s] # None /\ handling[s].phase = phase

\* An answer without a report: all that is kept of its status is whether it refuses.
Reply(s, status) == handling' = [handling EXCEPT ![s] = [phase |-> "reply", refused |-> status >= 400]]

\* The streamed body passes max_request_bytes: RequestSizeLimitMiddleware raises
\* inside the framework, which answers 400 unless it lets the error pass to the
\* middleware's 413; or the request model refuses the body.
BodyFails(s) ==
    /\ Handled(s, "called")
    /\ \/ handling[s].body = "over" /\ \E status \in {400, 413} : Reply(s, status)
       \/ handling[s].body = "within" /\ Reply(s, 422)
    /\ UNCHANGED <<limiterVars, settings, staged>>

\* The routes without an upload.
Serve(s) ==
    /\ Handled(s, "called")
    /\ handling[s].path \notin Expensive
    /\ handling[s].body = "within"
    /\ \E status \in {OK, 404} : Reply(s, status)
    /\ UNCHANGED <<limiterVars, settings, staged>>

\* What the handlers make of the uploads before they stage anything.
Accepted == {u \in Uploads : UploadRefused(u) = OK}
Refusals == {UploadRefused(u) : u \in Uploads} \ {OK}

Uploading(s) ==
    /\ Handled(s, "called")
    /\ handling[s].path \in Expensive
    /\ handling[s].body = "within"

UploadFails(s) ==
    /\ Uploading(s)
    /\ \E status \in Refusals : Reply(s, status)
    /\ UNCHANGED <<limiterVars, settings, staged>>

\* create_validation_job stages the files for the job manager (JobManager), which
\* takes the job, has no room for it, or is shut down.
HandOver(s) ==
    /\ Uploading(s)
    /\ handling[s].path = "job"
    /\ Accepted # {}
    /\ \E status \in {202, 429, 500} : Reply(s, status)
    /\ UNCHANGED <<limiterVars, settings, staged>>

Stage(s) ==
    /\ Uploading(s)
    /\ handling[s].path # "job"
    /\ \E u \in Accepted :
           /\ staged' = [staged EXCEPT ![s] = u.files]
           /\ handling' = [handling EXCEPT ![s] = [phase |-> "staged", path |-> @.path, layer |-> u.layer]]
    /\ UNCHANGED <<limiterVars, settings>>

\* The with statement removes the directory on every way out.
Leave(s) == staged' = [staged EXCEPT ![s] = <<>>]

\* An error of a reader, an engine or a file is answered with 422, one that the
\* handler does not expect with 500.
HandlerRaises(s) ==
    /\ Handled(s, "staged")
    /\ Leave(s)
    /\ \E status \in {422, 500} : Reply(s, status)
    /\ UNCHANGED <<limiterVars, settings>>

DatasetFails(s, d) ==
    LET suffix == Selected(staged[s])
        layer == LayerRefused(suffix, handling[s].layer, d)
    IN IF layer # OK THEN layer ELSE DatasetRefused(suffix, d)

TrustsDeclaredCount(path, d) == path = "repair" /\ Len(d.features) > MaxRepairFeatures

\* What is read has the last word on the number of features.
TooManyFeatures(path, d) ==
    Len(d.features) > (IF path = "repair" THEN MaxRepairFeatures ELSE MaxFeatures)

RefuseDataset(s) ==
    /\ Handled(s, "staged")
    /\ \E d \in Datasets :
           \/ DatasetFails(s, d) # OK /\ Reply(s, DatasetFails(s, d))
           \/ DatasetFails(s, d) = OK /\ TooManyFeatures(handling[s].path, d) /\ Reply(s, 413)
    /\ Leave(s)
    /\ UNCHANGED <<limiterVars, settings>>

Smaller(a, b) == IF a <= b THEN a ELSE b

\* Findings are listed in order as far as the limit goes.
Report(s, d, flawed) ==
    handling' = [handling EXCEPT ![s] =
        [phase |-> "report", path |-> @.path, layer |-> @.layer, dataset |-> d,
         total |-> Len(d.features), flawed |-> flawed, listed |-> Smaller(flawed, MaxReported),
         truncated |-> flawed > MaxReported]]

Counted(d, kind) == Cardinality({k \in DOMAIN d.features : d.features[k] = kind})

\* validate_payload: every feature is audited, whichever engine is chosen.
Validate(s) ==
    /\ Handled(s, "staged")
    /\ handling[s].path = "validate"
    /\ \E d \in Datasets :
           /\ DatasetFails(s, d) = OK
           /\ ~TooManyFeatures("validate", d)
           /\ Report(s, d, Counted(d, "invalid"))
    /\ Leave(s)
    /\ UNCHANGED <<limiterVars, settings>>

\* repair_geospatial: an invalid feature may be mended, given up as failed or
\* found unchanged, and only the mended ones are listed.
Repair(s) ==
    /\ Handled(s, "staged")
    /\ handling[s].path = "repair"
    /\ \E d \in Datasets : \E mended \in 0..Counted(d, "invalid") :
           /\ DatasetFails(s, d) = OK
           /\ ~TooManyFeatures("repair", d)
           /\ Report(s, d, mended)
    /\ Leave(s)
    /\ UNCHANGED <<limiterVars, settings>>

\* The middleware sends the response.
Answer(s) ==
    /\ Handled(s, "reply") \/ Handled(s, "report")
    /\ handling' = [handling EXCEPT ![s] = None]
    /\ UNCHANGED <<limiterVars, settings, staged>>

ClockTicks == Tick /\ UNCHANGED apiVars

Init ==
    /\ LimiterInit
    /\ settings \in {d \in Deployments : Startable(d)}
    /\ handling = [s \in Slots |-> None]
    /\ staged = [s \in Slots |-> <<>>]

Next ==
    \/ RefuseCall \/ RefuseCharged \/ ClockTicks
    \/ \E s \in Slots :
           \/ Dispatch(s) \/ BodyFails(s) \/ Serve(s) \/ UploadFails(s) \/ HandOver(s) \/ Stage(s)
           \/ HandlerRaises(s) \/ RefuseDataset(s) \/ Validate(s) \/ Repair(s) \/ Answer(s)

Spec == Init /\ [][Next]_vars

-----------------------------------------------------------------------------
(* Properties *)

\* The files GDAL can open on their own: single-file formats, and a Shapefile
\* with its index and attributes beside it.
Openable(files) ==
    {f \in Range(files) :
        \/ f.suffix \in DOMAIN SingleFileDrivers
        \/ f.suffix = "shp" /\ \A x \in RequiredShapefileSuffixes : <<f.stem, x>> \in Names(files)}

\* A directory exists only while its handler is at work, and what is in it is
\* exactly one dataset, all files of which belong to it and fit the limit.
StagedIsOneDataset ==
    \A s \in Slots : staged[s] # <<>> =>
        /\ Handled(s, "staged")
        /\ Cardinality(Openable(staged[s])) = 1
        /\ \A f \in Openable(staged[s]) : Stems(staged[s]) = {f.stem}
        /\ Cardinality(Names(staged[s])) = Len(staged[s])
        /\ ~(DecodedBytes(staged[s]) > MaxUploadBytes)

\* A successful answer about a dataset is the truth about all of it, within the
\* limits of the deployment: no more features than allowed even when the driver
\* did not know their number, every feature accounted for, and the flag that says
\* so set exactly when findings were left out.
RepliesHonest ==
    \A s \in Slots : Handled(s, "report") =>
        LET r == handling[s]
            d == r.dataset
        IN /\ r.total = Len(d.features)
           /\ r.total <= (IF r.path = "repair" THEN MaxRepairFeatures ELSE MaxFeatures)
           /\ r.listed <= MaxReported
           /\ r.path = "validate" => r.flawed = Counted(d, "invalid")
           /\ r.truncated <=> r.listed < r.flawed
           /\ d.driver \in AllowedDrivers /\ d.geometry
           /\ r.layer = None => d.driver # "GPKG" \/ Cardinality(d.layers) = 1
=============================================================================
