----------------------------- MODULE CreateForm -----------------------------
(***************************************************************************)
(* How a migration gets its PostgreSQL versions: the form of               *)
(* MigrationForm.tsx, the POST it sends, and the server of VersionPolicy,  *)
(* which may be replaced by one with another configuration at any time.    *)
(***************************************************************************)
EXTENDS VersionPolicy

CONSTANT Environment    \* the environments the server may be deployed with

\* A parsed list is a slice, and a default is a text like those in the list.
ASSUME EnvironmentAssumption ==
    \A env \in Environment:
        LET versions == ParsePostgresVersions(env)
        IN  /\ versions \in Seq(ToSet(versions))
            /\ \A e \in ToSet(versions): e.version \in Text
            /\ env.source \in Text /\ env.target \in Text

VARIABLES
    config,     \* the configuration of the running server
    form,       \* "closed", "loading" (getConfig is under way), "ready", "posting"
    page,       \* the form's state `config`
    choice,     \* its options: source_version and target_version
    post        \* the POST under way, and the Job it made

vars == <<config, form, page, choice, post>>

Choice == [source : Text, target : Text]
NoJob == [source |-> Blank, target |-> Blank, client |-> Blank,
          dumpImage |-> <<>>, restoreImage |-> <<>>]

\* The hard-coded answer for a getConfig that failed.
Fallback == [versions |-> BuiltIn, source |-> BuiltInDefault, target |-> BuiltInDefault]
\* What the form starts with: no list, and "16" as `?? '16'`.
Unconfigured == [Fallback EXCEPT !.versions = <<>>]

DefaultsOf(p) == [source |-> p.source, target |-> p.target]

NoPost == [by |-> "nobody", whole |-> FALSE, seen |-> DefaultsOf(Unconfigured),
           page |-> Unconfigured, sent |-> DefaultsOf(Unconfigured),
           answer |-> "none", job |-> NoJob]

TypeOK ==
    /\ config \in {Load(env) : env \in Environment}
    /\ form \in {"closed", "loading", "ready", "posting"}
    /\ page \in {Unconfigured, Fallback} \cup {PublicConfig(Load(env)) : env \in Environment}
    /\ choice \in Choice
    /\ post.by \in {"nobody", "form", "script"}
    /\ post.sent \in Choice
    /\ post.answer \in {"none", "created", "refused"}

Init ==
    /\ config \in {Load(env) : env \in Environment}
    /\ form = "loading"
    /\ page = Unconfigured
    /\ choice = DefaultsOf(Unconfigured)
    /\ post = NoPost

-----------------------------------------------------------------------------
(* The form                                                                *)

\* A select whose value is none of its options shows the first one.
Displayed(versions, v) ==
    IF v \in ToSet(versions) THEN v ELSE IF versions = <<>> THEN Blank ELSE Head(versions)

Seen == [source |-> Displayed(page.versions, choice.source),
         target |-> Displayed(page.versions, choice.target)]

Opens ==
    /\ form = "closed"
    /\ form' = "loading"
    /\ page' = Unconfigured
    /\ choice' = DefaultsOf(Unconfigured)
    /\ UNCHANGED <<config, post>>

Closes ==
    /\ form # "closed"
    /\ form' = "closed"
    /\ UNCHANGED <<config, page, choice, post>>

\* Mutation: the form shows the built-in list and keeps the server's defaults.
ConfigIsGuessed ==
    /\ form = "loading"
    /\ page' = [PublicConfig(config) EXCEPT !.versions = BuiltIn]
    /\ choice' = DefaultsOf(page')
    /\ form' = "ready"
    /\ UNCHANGED <<config, post>>

ConfigArrives ==
    /\ form = "loading"
    /\ page' = PublicConfig(config)
    /\ choice' = DefaultsOf(page')
    /\ form' = "ready"
    /\ UNCHANGED <<config, post>>

ConfigFails ==
    /\ form = "loading"
    /\ page' = Fallback
    /\ form' = "ready"
    /\ UNCHANGED <<config, choice, post>>

Chooses ==
    /\ form \in {"ready", "posting"}
    /\ \E v \in ToSet(page.versions):
            choice' \in {[choice EXCEPT !.source = v], [choice EXCEPT !.target = v]}
    /\ UNCHANGED <<config, form, page, post>>

\* The browser insists on the required fields.
Submits ==
    /\ form = "ready" /\ post = NoPost
    /\ form' = "posting"
    /\ post' = [NoPost EXCEPT !.by = "form", !.whole = TRUE, !.seen = Seen,
                              !.page = page, !.sent = choice]
    /\ UNCHANGED <<config, page, choice>>

\* A client without a form may leave anything out.
IsScripted ==
    /\ post = NoPost
    /\ \E sent \in Choice, whole \in BOOLEAN:
            post' = [NoPost EXCEPT !.by = "script", !.whole = whole,
                                   !.seen = sent, !.sent = sent]
    /\ UNCHANGED <<config, form, page, choice>>

-----------------------------------------------------------------------------
(* The server                                                              *)

Creates ==
    /\ post.by # "nobody" /\ post.answer = "none"
    /\ LET req == Completed(config, [whole |-> post.whole, source |-> post.sent.source,
                                     target |-> post.sent.target])
       IN  post' = IF Valid(config, req)
                   THEN [post EXCEPT !.answer = "created", !.job = JobOf(config, req)]
                   ELSE [post EXCEPT !.answer = "refused"]
    /\ UNCHANGED <<config, form, page, choice>>

\* handleCreated leaves the form; an error, a lost request or a lost answer
\* leaves it as it is, ready to be sent again.
Answered ==
    /\ post.by # "nobody"
    /\ \E created \in {FALSE, post.answer = "created"}:
            form' = IF post.by = "form" /\ created THEN "closed"
                    ELSE IF form = "posting" /\ post.by = "form" THEN "ready" ELSE form
    /\ post' = NoPost
    /\ UNCHANGED <<config, page, choice>>

\* A rollout with other values of the chart.
Redeploys ==
    /\ config' \in {Load(env) : env \in Environment} \ {config}
    /\ UNCHANGED <<form, page, choice, post>>

Next ==
    \/ Opens \/ Closes \/ ConfigArrives \/ ConfigFails \/ Chooses \/ Submits
    \/ IsScripted \/ Creates \/ Answered \/ Redeploys

Spec == Init /\ [][Next]_vars

-----------------------------------------------------------------------------
\* An entry "=image" of POSTGRES_IMAGES offers a version without a name, which a
\* POST cannot ask for: it means the default.
AllNamed(p) == Blank \notin ToSet(p.versions)

Gets(answer) == post.answer = "none" /\ post'.answer = answer

\* A migration that is created uses the versions the form showed when it was
\* sent, although a select shows its first option for a value it does not have
\* and sends that value: such a value is refused, never replaced.  Only a rollout
\* between the form's getConfig and its POST may make it acceptable
\* (MigrationForm.tsx:50-68, service.go:44-63).
ShownIsUsed ==
    [][Gets("created") /\ post.by = "form" /\ AllNamed(post.page)
            /\ post.page \in {PublicConfig(config), Fallback} =>
        [source |-> post'.job.source, target |-> post'.job.target] = post.seen]_vars

\* What the form offers, the server accepts: after its own answer to getConfig,
\* only a default that is not in the list is refused, and it is not what the
\* form shows (config.go:31-81, service.go:324-329).
OfferedIsAccepted ==
    [][Gets("refused") /\ post.by = "form" /\ AllNamed(post.page)
            /\ post.page = PublicConfig(config) =>
        post.sent # post.seen]_vars

\* A version Atoi reads.
IsInteger(v) == Major[v] = Release[v]

\* The versions of a Job fit together and its images are the server's.
Serves(c, job) ==
    LET entry(v, image) == [version |-> v, image |-> image] \in ToSet(c.versions)
    IN  /\ job.client \in {job.source, job.target}
        /\ IsInteger(job.source) /\ IsInteger(job.target) =>
                /\ Release[job.client] >= Release[job.source]
                /\ Release[job.client] >= Release[job.target]
        /\ ScriptClient(job) = job.client
        /\ entry(job.source, job.dumpImage)
        /\ entry(job.client, job.restoreImage)
        /\ VerifyImage(c, job) = job.restoreImage

\* The restore client is one of the two versions and not older than either, as
\* long as both are integers, which README calls them ("Major versions in the
\* UI"); the scripts and a later verification use the same client, and all images
\* are entries of the server's list (service.go:54-63, 296-306, client.go:560-570,
\* verify.go:42).
ClientServesBoth == [][Gets("created") => Serves(config, post'.job)]_vars
=============================================================================
