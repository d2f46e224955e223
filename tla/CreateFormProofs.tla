-------------------------- MODULE CreateFormProofs --------------------------
(***************************************************************************)
(* The properties of CreateForm, for every set of versions, whatever Atoi  *)
(* makes of them, and every set of environments.                           *)
(***************************************************************************)
EXTENDS CreateForm, SequenceTheorems, WellFoundedInduction, TLAPS

\* What a form holds and sends is a default of its page or an option of it.
Offers(p, c) ==
    /\ c.source \in {p.source} \cup ToSet(p.versions)
    /\ c.target \in {p.target} \cup ToSet(p.versions)

Inv ==
    /\ \E env \in Environment: config = Load(env)
    /\ form = "loading" => choice = DefaultsOf(Fallback)
    /\ choice = [source |-> choice.source, target |-> choice.target]
    /\ Offers(page, choice)
    /\ post = NoPost \/ post.by # "nobody"
    /\ post.by = "form" =>
        /\ post.whole
        /\ post.sent = [source |-> post.sent.source, target |-> post.sent.target]
        /\ Offers(post.page, post.sent)
        /\ post.seen = [source |-> Displayed(post.page.versions, post.sent.source),
                        target |-> Displayed(post.page.versions, post.sent.target)]

\* A page starts with the defaults it has built in (MigrationForm.tsx:45-46).
LEMMA InitInv == Init => Inv
  BY DEF Init, Inv, Offers, Unconfigured, Fallback, DefaultsOf, NoPost

\* Options come from the page, requests from the options
\* (MigrationForm.tsx:50-96).
LEMMA StepInv == Inv /\ [Next]_vars => Inv'
<1> SUFFICES ASSUME Inv, [Next]_vars PROVE Inv'
  OBVIOUS
<1> USE DEF Inv, Offers
<1>1. CASE Opens
  BY <1>1 DEF Opens, Unconfigured, Fallback, DefaultsOf
<1>2. CASE Closes
  BY <1>2 DEF Closes
<1>3. CASE ConfigArrives
  BY <1>3 DEF ConfigArrives, DefaultsOf
<1>4. CASE ConfigFails
  BY <1>4 DEF ConfigFails, Fallback, DefaultsOf
<1>5. CASE Chooses
  BY <1>5 DEF Chooses
<1>6. CASE Submits
  BY <1>6 DEF Submits, Seen, NoPost
<1>7. CASE IsScripted
  BY <1>7 DEF IsScripted, NoPost
<1>8. CASE Creates
  BY <1>8 DEF Creates
<1>9. CASE Answered
  BY <1>9 DEF Answered, NoPost
<1>10. CASE Redeploys
  BY <1>10 DEF Redeploys
<1>11. CASE UNCHANGED vars
  BY <1>11 DEF vars
<1> QED
  BY <1>1, <1>2, <1>3, <1>4, <1>5, <1>6, <1>7, <1>8, <1>9, <1>10, <1>11 DEF Next

-----------------------------------------------------------------------------
\* The server supports what its answer to getConfig lists (config.go:66-81).
LEMMA ListedIsSupported ==
    ASSUME NEW c, NEW v
    PROVE  v \in ToSet(PublicConfig(c).versions) <=> Supports(c, v)
  BY DEF PublicConfig, Supports, ToSet

\* A select shows the value it has, if that is one of its options.
LEMMA ListedIsDisplayed ==
    ASSUME NEW list, NEW v \in ToSet(list)
    PROVE  Displayed(list, v) = v
  BY DEF Displayed

\* What the server takes for the value of a select is what the select shows, if
\* it is in the list (service.go:44-49).
LEMMA UsedIsDisplayed ==
    ASSUME NEW list, Blank \notin ToSet(list), NEW sent, NEW default,
           \/ sent \in ToSet(list)
           \/ sent = default /\ EnvOr(sent, default) \in ToSet(list)
    PROVE  EnvOr(sent, default) = Displayed(list, sent)
<1>1. sent \in ToSet(list) /\ EnvOr(sent, default) = sent
  BY DEF EnvOr
<1> QED
  BY <1>1, ListedIsDisplayed

\* The built-in list has the built-in default, and no blank.
LEMMA FallbackIsSound ==
    /\ AllNamed(Fallback)
    /\ BuiltInDefault \in ToSet(BuiltIn)
<1>1. ToSet(BuiltIn) \subseteq Version
  BY BuiltInAssumption, ElementOfSeq DEF ToSet
<1> QED
  BY <1>1, BuiltInAssumption, BlankAssumption DEF AllNamed, Fallback

\* The invariant holds throughout.
LEMMA Invariance == Spec => []Inv
  BY InitInv, StepInv, PTL DEF Spec

\* A created migration has the versions its form showed (MigrationForm.tsx:83-96,
\* service.go:44-63).
LEMMA ShownStep ==
    ASSUME Inv, Creates, Gets("created"), post.by = "form", AllNamed(post.page),
           post.page \in {PublicConfig(config), Fallback}
    PROVE  [source |-> post'.job.source, target |-> post'.job.target] = post.seen
<1> DEFINE list == post.page.versions
           source == EnvOr(post.sent.source, config.source)
           target == EnvOr(post.sent.target, config.target)
<1>1. /\ post'.job.source = source /\ post'.job.target = target
      /\ Supports(config, source) /\ Supports(config, target)
  BY DEF Creates, Gets, Completed, Valid, JobOf, Inv
<1>2. Offers(post.page, post.sent)
  BY DEF Inv
<1>3. CASE post.page = PublicConfig(config)
  <2>1. source \in ToSet(list) /\ target \in ToSet(list)
    BY <1>1, <1>3, ListedIsSupported
  <2>2. post.page.source = config.source /\ post.page.target = config.target
    BY <1>3 DEF PublicConfig
  <2>3. source = Displayed(list, post.sent.source)
    BY <1>2, <2>1, <2>2, UsedIsDisplayed DEF Offers, AllNamed
  <2>4. target = Displayed(list, post.sent.target)
    BY <1>2, <2>1, <2>2, UsedIsDisplayed DEF Offers, AllNamed
  <2> QED
    BY <1>1, <2>3, <2>4 DEF Inv
<1>4. CASE post.page = Fallback
  <2>1. list = BuiltIn /\ post.page.source = BuiltInDefault /\ post.page.target = BuiltInDefault
    BY <1>4 DEF Fallback
  <2>2. post.sent.source \in ToSet(list) /\ post.sent.target \in ToSet(list)
    BY <1>2, <2>1, FallbackIsSound DEF Offers
  <2>3. source = Displayed(list, post.sent.source)
    BY <2>2, UsedIsDisplayed DEF AllNamed
  <2>4. target = Displayed(list, post.sent.target)
    BY <2>2, UsedIsDisplayed DEF AllNamed
  <2> QED
    BY <1>1, <2>3, <2>4 DEF Inv
<1> QED
  BY <1>3, <1>4

\* Only the server answers a POST (service.go:34-63).
LEMMA OnlyCreatesAnswers ==
    ASSUME Inv, [Next]_vars, NEW answer \in {"created", "refused"}, Gets(answer)
    PROVE  Creates
<1> USE DEF Gets
<1>1. CASE Opens \/ Closes \/ ConfigArrives \/ ConfigFails \/ Chooses \/ Redeploys
  BY <1>1 DEF Opens, Closes, ConfigArrives, ConfigFails, Chooses, Redeploys
<1>2. CASE Submits
  BY <1>2 DEF Submits, NoPost
<1>3. CASE IsScripted
  BY <1>3 DEF IsScripted, NoPost
<1>4. CASE Answered
  BY <1>4 DEF Answered, NoPost
<1>5. CASE UNCHANGED vars
  BY <1>5 DEF vars
<1> QED
  BY <1>1, <1>2, <1>3, <1>4, <1>5 DEF Next

\* No migration has other versions than the form showed, whatever defaults,
\* lists and rollouts there are (MigrationForm.tsx:50-96, service.go:44-63).
THEOREM Shown == Spec => ShownIsUsed
<1>1. Inv /\ [Next]_vars =>
        (Gets("created") /\ post.by = "form" /\ AllNamed(post.page)
            /\ post.page \in {PublicConfig(config), Fallback} =>
         [source |-> post'.job.source, target |-> post'.job.target] = post.seen)
  BY OnlyCreatesAnswers, ShownStep
<1> QED
  BY <1>1, Invariance, PTL DEF Spec, ShownIsUsed

-----------------------------------------------------------------------------
\* A list that is not empty has a first entry, and without a list or a setting
\* the default is the built-in one (config.go:45-57).
LEMMA DefaultIsNamed ==
    ASSUME NEW env \in Environment, NEW p, p = PublicConfig(Load(env)), AllNamed(p)
    PROVE  /\ p.versions # <<>> => Head(p.versions) \in ToSet(p.versions)
           /\ p.source # Blank /\ p.target # Blank
<1> DEFINE versions == ParsePostgresVersions(env)
<1>1. versions \in Seq(ToSet(versions))
  BY EnvironmentAssumption
<1>2. versions # <<>> => 1 \in DOMAIN versions /\ Len(versions) \in DOMAIN versions
  BY <1>1, LenProperties, EmptySeq
<1>3. /\ p.versions = [i \in DOMAIN versions |-> versions[i].version]
      /\ p.source = EnvOr(env.source, IF versions = <<>> THEN BuiltInDefault
                                                         ELSE Last(versions).version)
      /\ p.target = EnvOr(env.target, IF versions = <<>> THEN BuiltInDefault
                                                         ELSE Last(versions).version)
  BY DEF PublicConfig, Load
<1>4. p.versions # <<>> => versions # <<>>
  BY <1>1, <1>3
<1>5. p.versions # <<>> => Head(p.versions) \in ToSet(p.versions)
  BY <1>2, <1>3, <1>4 DEF ToSet
<1>6. versions # <<>> => Last(versions).version # Blank
  BY <1>2, <1>3 DEF AllNamed, ToSet, Last
<1>7. BuiltInDefault # Blank
  BY BuiltInAssumption, FallbackIsSound DEF AllNamed, Fallback
<1> QED
  BY <1>3, <1>5, <1>6, <1>7 DEF EnvOr

\* A select that shows the value it has shows one of its options.
LEMMA DisplayedIsListed ==
    ASSUME NEW list, NEW sent, sent # Blank \/ sent \in ToSet(list),
           list # <<>> => Head(list) \in ToSet(list),
           Displayed(list, sent) = sent
    PROVE  sent \in ToSet(list)
  BY DEF Displayed

\* The form's required fields are filled in and its versions are listed, so
\* validateRequest has nothing to refuse (service.go:308-331).
LEMMA OfferedStep ==
    ASSUME Inv, Creates, Gets("refused"), post.by = "form", AllNamed(post.page),
           post.page = PublicConfig(config)
    PROVE  post.sent # post.seen
<1> SUFFICES ASSUME post.sent = post.seen PROVE FALSE
  OBVIOUS
<1> DEFINE list == post.page.versions
<1>1. /\ list # <<>> => Head(list) \in ToSet(list)
      /\ post.page.source # Blank /\ post.page.target # Blank
  BY DefaultIsNamed DEF Inv
<1>2. /\ Displayed(list, post.sent.source) = post.sent.source
      /\ Displayed(list, post.sent.target) = post.sent.target
  BY DEF Inv
<1>3. post.sent.source \in ToSet(list) /\ post.sent.target \in ToSet(list)
  BY <1>1, <1>2, DisplayedIsListed DEF Inv, Offers
<1>4. /\ EnvOr(post.sent.source, config.source) = post.sent.source
      /\ EnvOr(post.sent.target, config.target) = post.sent.target
  BY <1>3 DEF EnvOr, AllNamed
<1>5. Supports(config, post.sent.source) /\ Supports(config, post.sent.target)
  BY <1>3, ListedIsSupported
<1>6. post.whole
  BY DEF Inv
<1> QED
  BY <1>4, <1>5, <1>6 DEF Creates, Gets, Completed, Valid

\* Whatever a form that knows its server's configuration offers is accepted
\* (config.go:31-81, service.go:324-329).
THEOREM Offered == Spec => OfferedIsAccepted
<1>1. Inv /\ [Next]_vars =>
        (Gets("refused") /\ post.by = "form" /\ AllNamed(post.page)
            /\ post.page = PublicConfig(config) => post.sent # post.seen)
  BY OnlyCreatesAnswers, OfferedStep
<1> QED
  BY <1>1, Invariance, PTL DEF Spec, OfferedIsAccepted

-----------------------------------------------------------------------------
\* There is a first entry of a version that has entries.
LEMMA FirstEntry ==
    ASSUME NEW T \in SUBSET Nat, T # {}
    PROVE  \E i \in T: \A j \in T: ~(j < i)
<1>1. PICK i \in T: \A j \in T: ~(<<j, i>> \in OpToRel(<, Nat))
  BY NatLessThanWellFounded, WFMin
<1> QED
  BY <1>1 DEF OpToRel

\* Every list entry is a version and an image (config.go:86-127).
LEMMA EntriesArePairs ==
    ASSUME NEW env, NEW i \in DOMAIN ParsePostgresVersions(env)
    PROVE  LET e == ParsePostgresVersions(env)[i]
           IN  e = [version |-> e.version, image |-> e.image]
<1>1. CASE env.images # <<>>
  <2> DEFINE kept == SelectSeq(env.images, LAMBDA parts: Len(parts) = 2)
  <2>1. ParsePostgresVersions(env) =
            [k \in DOMAIN kept |-> [version |-> kept[k][1], image |-> kept[k][2]]]
    BY <1>1 DEF ParsePostgresVersions, ParseImagePairs
  <2> HIDE DEF kept
  <2> QED
    BY <2>1
<1>2. CASE env.images = <<>>
  <2> DEFINE raw == IF env.versions = <<>> THEN BuiltIn ELSE env.versions
             kept == SelectSeq(raw, LAMBDA v: v # Blank)
  <2>1. ParsePostgresVersions(env) =
            [k \in DOMAIN kept |-> [version |-> kept[k], image |-> <<env.prefix, kept[k]>>]]
    BY <1>2 DEF ParsePostgresVersions
  <2> HIDE DEF kept
  <2> QED
    BY <2>1
<1> QED
  BY <1>1, <1>2

\* The image of a supported version is that of an entry (config.go:66-73).
LEMMA ImageIsListed ==
    ASSUME NEW env \in Environment, NEW v, Supports(Load(env), v)
    PROVE  [version |-> v, image |-> ImageForVersion(Load(env), v)]
                \in ToSet(Load(env).versions)
<1> DEFINE versions == ParsePostgresVersions(env)
           First(i) == /\ versions[i].version = v
                       /\ \A j \in 1..(i - 1): versions[j].version # v
           first == CHOOSE i \in DOMAIN versions: First(i)
<1>1. Load(env).versions = versions
  BY DEF Load
<1>2. Len(versions) \in Nat /\ DOMAIN versions = 1..Len(versions)
  BY EnvironmentAssumption, LenProperties
<1>3. \E i \in DOMAIN versions: First(i)
  <2> DEFINE T == {i \in DOMAIN versions: versions[i].version = v}
  <2>1. T \in SUBSET Nat /\ T # {}
    BY <1>1, <1>2 DEF Supports
  <2>2. PICK i \in T: \A j \in T: ~(j < i)
    BY <2>1, FirstEntry
  <2> QED
    BY <1>2, <2>2
<1>4. first \in DOMAIN versions /\ versions[first].version = v
  BY <1>3
<1>5. ImageForVersion(Load(env), v) = versions[first].image
  BY <1>1 DEF ImageForVersion
<1>6. [version |-> v, image |-> ImageForVersion(Load(env), v)] = versions[first]
  BY <1>4, <1>5, EntriesArePairs
<1> QED
  BY <1>1, <1>4, <1>6 DEF ToSet

\* newerPostgresVersion (service.go:296-301).
LEMMA NewerServesBoth ==
    ASSUME NEW a \in Text, NEW b \in Text
    PROVE  /\ NewerVersion(a, b) \in {a, b}
           /\ IsInteger(a) /\ IsInteger(b) =>
                /\ Release[NewerVersion(a, b)] >= Release[a]
                /\ Release[NewerVersion(a, b)] >= Release[b]
  BY MajorAssumption DEF NewerVersion, IsInteger

\* What Create makes of a request it accepts (service.go:54-63, verify.go:42).
LEMMA ClientStep ==
    ASSUME Inv, Creates, Gets("created")
    PROVE  Serves(config, post'.job)
<1> DEFINE job == post'.job
<1>1. PICK env \in Environment: config = Load(env)
  BY DEF Inv
<1>2. /\ job.client = NewerVersion(job.source, job.target)
      /\ job.dumpImage = ImageForVersion(config, job.source)
      /\ job.restoreImage = ImageForVersion(config, job.client)
      /\ Supports(config, job.source) /\ Supports(config, job.target)
  BY DEF Creates, Gets, Valid, JobOf, Inv
<1>3. ASSUME NEW v, Supports(config, v) PROVE v \in Text
  BY <1>1, <1>3, EnvironmentAssumption DEF Supports, Load, ToSet
<1>4. /\ job.client \in {job.source, job.target}
      /\ IsInteger(job.source) /\ IsInteger(job.target) =>
            /\ Release[job.client] >= Release[job.source]
            /\ Release[job.client] >= Release[job.target]
  BY <1>2, <1>3, NewerServesBoth
<1>5. ScriptClient(job) = job.client
  BY <1>2 DEF ScriptClient
<1>6. [version |-> job.source, image |-> job.dumpImage] \in ToSet(config.versions)
  BY <1>1, <1>2, ImageIsListed
<1>7. [version |-> job.client, image |-> job.restoreImage] \in ToSet(config.versions)
  BY <1>1, <1>2, <1>4, ImageIsListed
<1>8. VerifyImage(config, job) = job.restoreImage
  BY <1>2 DEF VerifyImage
<1> QED
  BY <1>4, <1>5, <1>6, <1>7, <1>8 DEF Serves

\* The restore client serves both servers, and every image is one the server
\* was configured with (service.go:54-63, client.go:560-570).
THEOREM Client == Spec => ClientServesBoth
<1>1. Inv /\ [Next]_vars => (Gets("created") => Serves(config, post'.job))
  BY OnlyCreatesAnswers, ClientStep
<1> QED
  BY <1>1, Invariance, PTL DEF Spec, ClientServesBoth

-----------------------------------------------------------------------------
(* Types.                                                                  *)

\* The fields a POST has, whatever becomes of it.
PostIsWhole ==
    DOMAIN post = {"by", "whole", "seen", "page", "sent", "answer", "job"}

\* The lists and defaults of a page are texts.
Texts(p) ==
    /\ ToSet(p.versions) \subseteq Text
    /\ p.source \in Text /\ p.target \in Text

\* Also those of a configuration, whatever variables are set (config.go:31-81).
LEMMA LoadedTexts ==
    ASSUME NEW env \in Environment
    PROVE  Texts(PublicConfig(Load(env)))
<1> DEFINE versions == ParsePostgresVersions(env)
           default == IF versions = <<>> THEN BuiltInDefault ELSE Last(versions).version
           c == Load(env)
           p == PublicConfig(c)
<1>1. /\ versions \in Seq(ToSet(versions))
      /\ \A e \in ToSet(versions): e.version \in Text
      /\ env.source \in Text /\ env.target \in Text
  BY EnvironmentAssumption
<1>2. BuiltInDefault \in Text
  BY BuiltInAssumption, ElementOfSeq DEF ToSet, Text
<1>3. default \in Text
  <2> HIDE DEF versions
  <2>1. CASE versions = <<>>
    BY <1>2, <2>1
  <2>2. CASE versions # <<>>
    <3>1. Len(versions) \in DOMAIN versions /\ Last(versions) = versions[Len(versions)]
      BY <1>1, <2>2 DEF Last
    <3>2. Last(versions) \in ToSet(versions)
      BY <3>1 DEF ToSet
    <3> QED
      BY <1>1, <2>2, <3>2
  <2> QED
    BY <2>1, <2>2
<1>4. c.versions = versions /\ c.source \in Text /\ c.target \in Text
  <2>1. /\ c.versions = versions
        /\ c.source = EnvOr(env.source, default) /\ c.target = EnvOr(env.target, default)
    BY DEF Load
  <2> HIDE DEF default, versions, c
  <2> QED
    BY <1>1, <1>3, <2>1 DEF EnvOr
<1>5. ASSUME NEW v \in ToSet(p.versions) PROVE v \in Text
  <2>1. PICK i \in DOMAIN c.versions: c.versions[i].version = v
    BY ListedIsSupported DEF Supports
  <2>2. c.versions[i] \in ToSet(versions)
    BY <1>4, <2>1 DEF ToSet
  <2> QED
    BY <1>1, <2>1, <2>2
<1>6. p.source = c.source /\ p.target = c.target
  BY DEF PublicConfig
<1> HIDE DEF p, c
<1> QED
  BY <1>4, <1>5, <1>6 DEF Texts, p, c

\* And those a page has without the server (MigrationForm.tsx:45-68).
LEMMA BuiltInTexts ==
    Texts(Unconfigured) /\ Texts(Fallback)
<1>1. ToSet(BuiltIn) \subseteq Text /\ BuiltInDefault \in Text
  BY BuiltInAssumption, ElementOfSeq DEF ToSet, Text
<1>2. ToSet(<<>>) = {}
  BY DEF ToSet
<1> QED
  BY <1>1, <1>2 DEF Texts, Unconfigured, Fallback

LEMMA PageTexts == TypeOK => Texts(page)
  BY LoadedTexts, BuiltInTexts DEF TypeOK

LEMMA DefaultTypes ==
    ASSUME NEW p, Texts(p)
    PROVE  DefaultsOf(p) \in Choice
  BY DEF Texts, DefaultsOf, Choice

LEMMA NoPostTypes ==
    /\ NoPost.by = "nobody" /\ NoPost.sent \in Choice /\ NoPost.answer = "none"
    /\ DOMAIN NoPost = {"by", "whole", "seen", "page", "sent", "answer", "job"}
  BY BuiltInTexts, DefaultTypes DEF NoPost

LEMMA InitTypes == Init => TypeOK /\ PostIsWhole
  BY BuiltInTexts, DefaultTypes, NoPostTypes DEF Init, TypeOK, PostIsWhole

\* The form's part (MigrationForm.tsx:44-96).
LEMMA FormTypes ==
    ASSUME TypeOK, PostIsWhole,
           \/ Opens \/ Closes \/ ConfigArrives \/ ConfigFails \/ Chooses
           \/ Submits \/ IsScripted
    PROVE  (TypeOK /\ PostIsWhole)'
<1> USE DEF TypeOK, PostIsWhole
<1>1. CASE Opens
  BY <1>1, BuiltInTexts, DefaultTypes DEF Opens
<1>2. CASE Closes
  BY <1>2 DEF Closes
<1>3. CASE ConfigArrives
  BY <1>3, LoadedTexts, DefaultTypes DEF ConfigArrives
<1>4. CASE ConfigFails
  BY <1>4 DEF ConfigFails
<1>5. CASE Chooses
  <2>1. \A v \in ToSet(page.versions): v \in Text
    BY PageTexts DEF Texts
  <2>2. choice' \in Choice
    BY <1>5, <2>1 DEF Chooses, Choice
  <2> QED
    BY <1>5, <2>2 DEF Chooses
<1>6. CASE Submits
  BY <1>6, NoPostTypes DEF Submits
<1>7. CASE IsScripted
  BY <1>7, NoPostTypes DEF IsScripted
<1> QED
  BY <1>1, <1>2, <1>3, <1>4, <1>5, <1>6, <1>7

\* The server's (service.go:34-63).
LEMMA ServerTypes ==
    ASSUME TypeOK, PostIsWhole, Creates \/ Answered \/ Redeploys
    PROVE  (TypeOK /\ PostIsWhole)'
<1> USE DEF TypeOK, PostIsWhole
<1>1. CASE Creates
  BY <1>1 DEF Creates
<1>2. CASE Answered
  BY <1>2, NoPostTypes DEF Answered
<1>3. CASE Redeploys
  BY <1>3 DEF Redeploys
<1> QED
  BY <1>1, <1>2, <1>3

\* The variables of form, POST and server keep their types, for every set of
\* environments the server may be deployed with.
THEOREM TypeCorrectness == Spec => []TypeOK
<1>1. TypeOK /\ PostIsWhole /\ [Next]_vars => (TypeOK /\ PostIsWhole)'
  BY FormTypes, ServerTypes DEF Next, vars, TypeOK, PostIsWhole
<1> QED
  BY InitTypes, <1>1, PTL DEF Spec
=============================================================================
