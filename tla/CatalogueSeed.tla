--------------------------- MODULE CatalogueSeed ---------------------------
(***************************************************************************)
(* The catalogue's way into a release: the JSON files of data/, the seed   *)
(* validators and the Timeline merge (scripts/), what the release pipeline *)
(* requires, the seed program that writes the database at each release     *)
(* (bin/seed), and what the server reads of the files and the database.    *)
(*                                                                         *)
(* A file is a sequence of records, the Timeline files sets of them.  A    *)
(* name or alias is a term; Normal is the term without case and spaces,    *)
(* Slug the server's slug of it, AliasId the key of an alias's row.  The   *)
(* fields that only have to be there and have their form are one field,    *)
(* formed; a detail is the kind of value it has.                           *)
(*                                                                         *)
(* released is a history variable: the files of the last release whose     *)
(* seed succeeded.                                                         *)
(***************************************************************************)
EXTENDS Integers, Sequences, FiniteSets, SequencesExt, TLC

CONSTANTS
  Drafts,            \* what can be in the files
  Normal, Slug, AliasId(_, _),
  MinModels, MinLogos, PublicImages, None,
  MaxDrafts, MaxReleases   \* the bounds of this instance

CatalogueSeedAssumption ==
  /\ \A d \in Drafts : DOMAIN d = {"classic", "events", "emoji", "logos"}
  /\ {MinModels, MinLogos, MaxDrafts, MaxReleases} \subseteq Nat

VARIABLES
  data,              \* the files; timeline is the merged one
  timeline,
  db,                \* models, categories, aliases and timeline items
  drafts, releases, released

vars == <<data, timeline, db, drafts, releases, released>>

(* No two records of a file are the same in what F gives of them. *)
Distinct(records, F(_)) ==
  \A i, j \in DOMAIN records : F(records[i]) = F(records[j]) => i = j
Each(records, P(_)) == \A r \in Range(records) : P(r)
IdOf(r) == r.id

-----------------------------------------------------------------------------
(* validate-classic-data.mjs *)

FocusedCategories ==
  {"language-model", "computer-vision", "nlp", "object-detection", "classical-ml", "filters"}

(* The keys of a category's detail, *)
DetailKeys(c) ==
  CASE c = "language-model" -> {"supportedLanguages", "architecture", "toolUse", "multimodal"}
    [] c = "computer-vision" -> {"visionTasks", "architecture", "trainingDatasets", "license"}
    [] c = "nlp" -> {"nlpTasks", "supportedLanguages", "architecture", "trainingDatasets"}
    [] c = "object-detection" -> {"detectionTypes", "architecture", "trainingDatasets", "realTimeCapable"}
    [] c = "classical-ml" ->
         {"algorithmTypes", "learningParadigms", "objectives", "featureTypes", "frameworks"}
    [] c = "filters" ->
         {"operationTypes", "kernelBased", "kernelSizes", "linearity", "requiresTraining",
          "outputTypes", "frameworks"}

(* and the kinds of value each may have. *)
DetailKinds(k) ==
  CASE k \in {"multimodal", "kernelBased", "requiresTraining"} -> {"boolean"}
    [] k \in {"toolUse", "realTimeCapable"} -> {"boolean", "null"}
    [] k = "license" -> {"slug", "null"}
    [] k = "linearity" -> {"linearity"}
    [] OTHER -> {"slugs"}

OptionalKeys(c) == IF c = "language-model" THEN {"architecture"} ELSE {}

(* MUTANT: any key may be missing. *)
ValidDetail_AnyKeys(c, detail) ==
  /\ DOMAIN detail \subseteq DetailKeys(c)
  /\ \A k \in DOMAIN detail : detail[k] \in DetailKinds(k)

ValidDetail(c, detail) ==
  /\ DOMAIN detail \subseteq DetailKeys(c)
  /\ DetailKeys(c) \ OptionalKeys(c) \subseteq DOMAIN detail
  /\ \A k \in DOMAIN detail : detail[k] \in DetailKinds(k)

(* The fields that must be there are, and each string, list, slug or date  *)
(* has its form.                                                           *)
Formed(r) == r.formed

ValidModel(m) ==
  /\ Formed(m) /\ m.pool \in 0..2
  /\ m.reasoning # None =>
       /\ "language-model" \in m.categories
       /\ m.reasoning = "no" \/ m.modelClass \in {"decoder_llm", "multimodal"}
  /\ DOMAIN m.details = m.categories \cap FocusedCategories
  /\ \A c \in DOMAIN m.details : ValidDetail(c, m.details[c])
  /\ "classical-ml" \in m.categories => m.modelClass \in {"classical_ml", "neural_network"}
  /\ "filters" \in m.categories => m.modelClass = "image_processing" /\ m.weights = "not-applicable"
  /\ "object-detection" \in m.categories => "computer-vision" \in m.categories

(* MUTANT: a term that is taken is not looked at. *)
RegisterGuessTerms_Any(terms, m) == terms @@ [t \in {Normal[u] : u \in m.aliases \cup {m.name}} |-> m.id]

(* registerGuessTerm for a model's name and aliases, after the models      *)
(* before it: the model of each term, or None when one was another's.      *)
RegisterGuessTerms(terms, m) ==
  LET own == [t \in {Normal[u] : u \in m.aliases \cup {m.name}} |-> m.id]
  IN  IF terms = None \/ \E t \in DOMAIN own \cap DOMAIN terms : terms[t] # m.id THEN None
      ELSE own @@ terms

ValidClassic(models) ==
  /\ Len(models) >= MinModels
  /\ Each(models, ValidModel)
  /\ Distinct(models, IdOf) /\ Distinct(models, LAMBDA m : Normal[m.name])
  /\ FoldLeft(RegisterGuessTerms, <<>>, models) # None

-----------------------------------------------------------------------------
(* validate-emoji-data.mjs: an answer is a term of one entity. *)

ValidClue(clue) ==
  /\ clue.priority # None => clue.priority > 0
  /\ clue.is = "image" => clue.value \in PublicImages

ValidVariant(entity, v) ==
  /\ v.weight > 0 /\ v.pool \in entity.pool..2
  /\ Len(v.visuals) >= 2
  /\ v.initial # None => v.initial \in 1..Len(v.visuals)
  /\ Each(v.visuals, ValidClue)

ValidEntity(entity) ==
  /\ Formed(entity) /\ entity.pool \in 0..2
  /\ entity.variants # <<>>
  /\ Distinct(entity.variants, IdOf)
  /\ Each(entity.variants, LAMBDA v : ValidVariant(entity, v))
  /\ Distinct(entity.variants, LAMBDA v : [i \in DOMAIN v.visuals |-> v.visuals[i].value])

ValidEmoji(entities) ==
  /\ Distinct(entities, IdOf)
  /\ Each(entities, ValidEntity)
  /\ \A e, f \in Range(entities) :
       {Normal[t] : t \in e.names} \cap {Normal[t] : t \in f.names} # {} => e.id = f.id

-----------------------------------------------------------------------------
(* validate-logo-data.mjs *)

Ordered(clues) == \A i, j \in DOMAIN clues : i < j => clues[i].after <= clues[j].after

(* MUTANT: a clue is enough, whenever it comes. *)
ValidLogo_AnyClue(entry) ==
  /\ Formed(entry) /\ entry.pool \in 0..2
  /\ entry.clues # <<>> /\ Each(entry.clues, LAMBDA clue : Formed(clue)) /\ Ordered(entry.clues)
  /\ entry.portrait =>
       entry.people /\ \E i \in DOMAIN entry.clues :
         entry.clues[i].after = 3 /\ entry.clues[i].kind = "educational"

ValidLogo(entry) ==
  /\ Formed(entry) /\ entry.pool \in 0..2
  /\ \E i \in DOMAIN entry.clues : entry.clues[i].after <= 5
  /\ Each(entry.clues, LAMBDA clue : Formed(clue)) /\ Ordered(entry.clues)
  /\ entry.portrait =>
       entry.people /\ \E i \in DOMAIN entry.clues :
         entry.clues[i].after = 3 /\ entry.clues[i].kind = "educational"

ValidLogos(entries) ==
  /\ Len(entries) >= MinLogos
  /\ Distinct(entries, IdOf) /\ Distinct(entries, LAMBDA entry : entry.asset)
  /\ Each(entries, ValidLogo)

-----------------------------------------------------------------------------
(* timeline-seed-constants.mjs and validate-timeline-data.mjs *)

IsReleaseDate(date) == date # None

ValidateTimelineItems(items) ==
  /\ \A i, j \in items : i.id = j.id => i = j
  /\ \A i \in items : IsReleaseDate(i.date) /\ i.categories # {} /\ i.pool \in 0..2

ValidTimeline(items) ==
  /\ ValidateTimelineItems(items)
  /\ \A i \in items : i.id # "" /\ i.name # ""

Item(m) ==
  [id |-> m.id, kind |-> "model", name |-> m.name, pool |-> m.pool,
   provider |-> "unknown", categories |-> m.categories, date |-> m.date]

SyncTimelineSeed(classic, events) ==
  events \cup {Item(m) : m \in {n \in Range(classic) : IsReleaseDate(n.date)}}

-----------------------------------------------------------------------------
(* bin/seed: one transaction, Failed when a statement of it is refused. *)

Failed == None

(* MUTANT: a row that is there is left as it is. *)
SeedModel_KeepRow(d, m) ==
  LET own == {[id |-> AliasId(m.id, Slug[a]), model |-> m.id, slug |-> Slug[a]] : a \in m.aliases}
      new == own \ IF d = Failed THEN {} ELSE d.aliases
  IN  IF \/ d = Failed
         \/ \E i \in DOMAIN d.models \ {m.id} : d.models[i].name = m.name
         \/ \E a \in new : \E b \in d.aliases : a.id = b.id
        THEN Failed
        ELSE [d EXCEPT !.models = @ @@ (m.id :> [name |-> m.name, pool |-> m.pool, details |-> m.details]),
                       !.categories = @ \cup ({m.id} \X m.categories),
                       !.aliases = @ \cup own]

(* The rows of a model.  The row of a model that left the catalogue stays, *)
(* and so do the categories and aliases a model had before; a name is a    *)
(* key of models, AliasId the key of an alias.                             *)
SeedModel(d, m) ==
  LET own == {[id |-> AliasId(m.id, Slug[a]), model |-> m.id, slug |-> Slug[a]] : a \in m.aliases}
      new == own \ IF d = Failed THEN {} ELSE d.aliases
  IN  IF \/ d = Failed
         \/ \E i \in DOMAIN d.models \ {m.id} : d.models[i].name = m.name
         \/ \E a \in new : \E b \in d.aliases : a.id = b.id
        THEN Failed
        ELSE [d EXCEPT !.models = (m.id :> [name |-> m.name, pool |-> m.pool, details |-> m.details]) @@ @,
                       !.categories = @ \cup ({m.id} \X m.categories),
                       !.aliases = @ \cup own]

SeedModels(d, classic) == FoldLeft(SeedModel, d, classic)

(* MUTANT: the items of the release before stay. *)
SeedData_KeepItems(d, classic, items) ==
  LET seeded == SeedModels(d, classic)
  IN  IF \/ seeded = Failed \/ \E i \in items : i.provider = None
         \/ \E i \in items : i.kind = "model" /\ i.id \notin DOMAIN seeded.models
        THEN Failed
        ELSE [models |-> seeded.models, categories |-> seeded.categories, aliases |-> seeded.aliases,
              timeline |-> seeded.timeline \cup items]

SeedData(d, classic, items) ==
  LET seeded == SeedModels(d, classic)
  IN  IF \/ seeded = Failed \/ \E i \in items : i.provider = None
         \/ \E i \in items : i.kind = "model" /\ i.id \notin DOMAIN seeded.models
        THEN Failed
        ELSE [models |-> seeded.models, categories |-> seeded.categories, aliases |-> seeded.aliases,
              timeline |-> items]

EmptyDatabase == [models |-> <<>>, categories |-> {}, aliases |-> {}, timeline |-> {}]

-----------------------------------------------------------------------------
(* What the server reads: the category details of domain/comparison.rs,    *)
(* where a list may be absent and any other value null or absent; and the  *)
(* catalogues it holds, validate_seed of domain/emoji.rs and logo.rs.      *)

Lists ==
  {"supportedLanguages", "architecture", "visionTasks", "trainingDatasets", "nlpTasks",
   "detectionTypes", "algorithmTypes", "learningParadigms", "objectives", "featureTypes",
   "frameworks", "operationTypes", "kernelSizes", "outputTypes"}
Strings == {"license", "linearity"}

Readable(detail) ==
  \A k \in DOMAIN detail :
    detail[k] \in IF k \in Lists THEN {"slugs"}
                  ELSE IF k \in Strings THEN {"slug", "linearity", "text", "null"}
                  ELSE {"boolean", "null"}

EmojiLoads(entities) ==
  Each(entities, LAMBDA e : Each(e.variants, LAMBDA v :
    /\ v.initial # None => v.initial \in 1..Len(v.visuals)
    /\ Each(v.visuals, LAMBDA clue :
         /\ clue.priority # None => clue.priority > 0
         /\ clue.is = "image" => clue.value \in PublicImages)))

LogosLoad(entries) ==
  /\ Len(entries) >= MinLogos
  /\ Distinct(entries, IdOf) /\ Distinct(entries, LAMBDA entry : entry.asset)
  /\ Each(entries, LAMBDA entry :
       /\ Formed(entry) /\ entry.pool <= 2 /\ entry.clues # <<>>
       /\ entry.source \in {"", "https"}
       /\ Each(entry.clues, LAMBDA clue : Formed(clue)) /\ Ordered(entry.clues)
       /\ entry.portrait =>
            entry.people /\ \E i \in DOMAIN entry.clues :
              entry.clues[i].after = 3 /\ entry.clues[i].kind = "educational")

(* revealed_clues of domain/logo.rs *)
RevealedClues(entry, wrong) == {i \in DOMAIN entry.clues : entry.clues[i].after <= wrong}

-----------------------------------------------------------------------------
(* Actions *)

Draft(d) ==
  /\ drafts < MaxDrafts /\ drafts' = drafts + 1
  /\ d # data /\ data' = d
  /\ UNCHANGED <<timeline, db, releases, released>>

(* pnpm timeline-merge-to-one: it refuses items that are not valid. *)
MergeTimeline ==
  LET items == SyncTimelineSeed(data.classic, data.events)
  IN  /\ ValidateTimelineItems(items) /\ items # timeline
      /\ timeline' = items
      /\ UNCHANGED <<data, db, drafts, releases, released>>

Accepted ==
  /\ ValidClassic(data.classic) /\ ValidEmoji(data.emoji)
  /\ ValidLogos(data.logos) /\ ValidTimeline(timeline)

(* seed-verification, rust-unit-tests and docker-build, which seeds an     *)
(* empty database.                                                         *)
Verified ==
  /\ Accepted /\ EmojiLoads(data.emoji) /\ LogosLoad(data.logos)
  /\ timeline = SyncTimelineSeed(data.classic, data.events)
  /\ SeedData(EmptyDatabase, data.classic, timeline) # Failed

(* The server of a release starts only when its seed has succeeded. *)
Release ==
  /\ releases < MaxReleases /\ releases' = releases + 1
  /\ Verified
  /\ LET seeded == SeedData(db, data.classic, timeline)
     IN  IF seeded = Failed THEN UNCHANGED <<db, released>>
         ELSE db' = seeded /\ released' = [classic |-> data.classic, timeline |-> timeline]
  /\ UNCHANGED <<data, timeline, drafts>>

(* The seed program run once more for the last release. *)
SeedAgain == SeedData(db, released.classic, released.timeline)

Init ==
  /\ data \in Drafts /\ timeline = {} /\ db = EmptyDatabase
  /\ drafts = 0 /\ releases = 0 /\ released = [classic |-> <<>>, timeline |-> {}]

Next == (\E d \in Drafts : Draft(d)) \/ MergeTimeline \/ Release

Spec == Init /\ [][Next]_vars
-----------------------------------------------------------------------------
(* Properties. *)

TypeOK ==
  /\ data \in Drafts /\ DOMAIN db = DOMAIN EmptyDatabase
  /\ {drafts, releases} \subseteq Nat

(* The loop of the Classic validator refuses every catalogue in which what *)
(* a player types names two models.                                        *)
TermsNameOneModel ==
  Accepted =>
    \A m, n \in Range(data.classic) : \A t \in m.aliases \cup {m.name}, u \in n.aliases \cup {n.name} :
      Normal[t] = Normal[u] => m = n

(* What the scripts accept, the server can read: the details of each       *)
(* category, with a value for every one but the optional, and the Emoji    *)
(* and Logo catalogues.  Only a Logo source without https is refused.      *)
AcceptedIsRead ==
  Accepted =>
    /\ \A m \in Range(data.classic) : \A c \in DOMAIN m.details :
         /\ Readable(m.details[c])
         /\ DetailKeys(c) \ DOMAIN m.details[c] \subseteq {"architecture"}
    /\ EmojiLoads(data.emoji)
    /\ LogosLoad(data.logos) \/ \E e \in Range(data.logos) : e.source \notin {"", "https"}

(* A player who has missed five times has a clue of the logo. *)
FiveMissesHaveClue ==
  Accepted => \A e \in Range(data.logos) : RevealedClues(e, 5) # {}

(* Timeline plays the last release's items alone, and a model among them   *)
(* can be looked up, whatever the releases before had and whichever of     *)
(* them failed.                                                            *)
TimelineIsReleased ==
  /\ db.timeline = released.timeline
  /\ \A i \in db.timeline : i.kind = "model" => i.id \in DOMAIN db.models

(* The database has the last release's models as its files have them, with *)
(* the details of each category whose boards show them, whatever models    *)
(* the releases before had.                                                *)
ReleasedIsServed ==
  /\ \A m \in Range(released.classic) :
       /\ m.id \in DOMAIN db.models
       /\ db.models[m.id].name = m.name /\ db.models[m.id].pool = m.pool
       /\ \A c \in m.categories :
            <<m.id, c>> \in db.categories
            /\ (c \in FocusedCategories => c \in DOMAIN db.models[m.id].details)
  /\ \A i, j \in DOMAIN db.models : db.models[i].name = db.models[j].name => i = j

(* The seed can be run again on the database it wrote, and changes nothing *)
(* ("safe to repeat", docs/backend/operations.md).                         *)
SeedRepeats == SeedAgain # Failed /\ SeedAgain = db
=============================================================================
