---------------------------- MODULE VersionPolicy ----------------------------
(***************************************************************************)
(* Which PostgreSQL versions and images there are (config.go), which of    *)
(* them a migration gets (service.go:35-63, 288-331) and which client its  *)
(* scripts name (client.go:560-570).                                       *)
(*                                                                         *)
(* A version is the text of one list entry, without the blanks around it,  *)
(* which every parser here trims.  An image is a pair of what precedes the *)
(* version in its name and the version.                                    *)
(***************************************************************************)
EXTENDS Naturals, Sequences, SequencesExt

CONSTANTS
    Version,        \* texts an entry may have
    Blank,          \* the empty text, and the value of an unset variable
    Release,        \* the PostgreSQL release a version stands for
    Major,          \* what Atoi makes of a version: its release, or 0
    BuiltIn,        \* "13,14,15,16,17", in config.go and in MigrationForm.tsx
    BuiltInDefault  \* "16", in both

Text == Version \cup {Blank}

ASSUME MajorAssumption ==
    /\ Release \in [Text -> Nat] /\ Major \in [Text -> Nat]
    /\ \A v \in Text: Major[v] \in {0, Release[v]}
ASSUME BlankAssumption == Blank \notin Version
ASSUME BuiltInAssumption == BuiltIn \in Seq(Version) /\ BuiltInDefault \in ToSet(BuiltIn)

-----------------------------------------------------------------------------
(* config.Load.  env.versions and env.images are the variables, split at   *)
(* the commas (and, for images, at the first "="); <<>> is an unset one.   *)

\* Entries that are blank or have no "=" are skipped without a word.
ParseImagePairs(pairs) ==
    LET kept == SelectSeq(pairs, LAMBDA parts: Len(parts) = 2)
    IN  [i \in DOMAIN kept |-> [version |-> kept[i][1], image |-> kept[i][2]]]

ParsePostgresVersions(env) ==
    IF env.images # <<>> THEN ParseImagePairs(env.images)
    ELSE LET raw == IF env.versions = <<>> THEN BuiltIn ELSE env.versions
             kept == SelectSeq(raw, LAMBDA v: v # Blank)
         IN  [i \in DOMAIN kept |-> [version |-> kept[i],
                                     image |-> <<env.prefix, kept[i]>>]]

EnvOr(value, fallback) == IF value = Blank THEN fallback ELSE value

\* The default is the last of the list, whatever it is, or "16" without a list.
Load(env) ==
    LET versions == ParsePostgresVersions(env)
        default == IF versions = <<>> THEN BuiltInDefault ELSE Last(versions).version
    IN  [versions |-> versions,
         source |-> EnvOr(env.source, default),
         target |-> EnvOr(env.target, default)]

Supports(config, v) == \E i \in DOMAIN config.versions: config.versions[i].version = v

\* The first entry of a version wins.
ImageForVersion(config, v) ==
    LET first == CHOOSE i \in DOMAIN config.versions:
                    /\ config.versions[i].version = v
                    /\ \A j \in 1..(i - 1): config.versions[j].version # v
    IN  config.versions[first].image

\* What the page gets to know.
PublicConfig(config) ==
    [versions |-> [i \in DOMAIN config.versions |-> config.versions[i].version],
     source |-> config.source, target |-> config.target]

-----------------------------------------------------------------------------
(* Service.Create, up to the id.  whole: name, hosts, users, databases and *)
(* cluster are given as validateRequest wants them.                        *)

\* Mutation: the older version is chosen.
OlderVersion(a, b) == IF Major[a] <= Major[b] THEN a ELSE b

NewerVersion(a, b) == IF Major[a] >= Major[b] THEN a ELSE b

\* Mutation: what is not supported is replaced by the default.
CompletedFreely(config, req) ==
    [req EXCEPT !.source = IF Supports(config, @) THEN @ ELSE config.source,
                !.target = IF Supports(config, @) THEN @ ELSE config.target]

Completed(config, req) ==
    [req EXCEPT !.source = EnvOr(@, config.source), !.target = EnvOr(@, config.target)]

\* Mutation: a version must be an integer.
ValidIfInteger(config, req) ==
    /\ req.whole /\ Supports(config, req.source) /\ Supports(config, req.target)
    /\ Major[req.source] > 0 /\ Major[req.target] > 0

Valid(config, req) ==
    req.whole /\ Supports(config, req.source) /\ Supports(config, req.target)

\* What of a valid request the Job is made from: the init container's image, the
\* main container's, and the three versions of the record.
JobOf(config, req) ==
    LET client == NewerVersion(req.source, req.target)
    IN  [source |-> req.source, target |-> req.target, client |-> client,
         dumpImage |-> ImageForVersion(config, req.source),
         restoreImage |-> ImageForVersion(config, client)]

\* resolveRestoreClientVersion, for the text of the scripts.
ScriptClient(job) ==
    IF job.client # Blank THEN job.client ELSE NewerVersion(job.source, job.target)

\* The image of a verification, chosen anew when it starts (verify.go:42).
VerifyImage(config, job) == ImageForVersion(config, NewerVersion(job.source, job.target))
=============================================================================
