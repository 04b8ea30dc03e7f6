---------------------------- MODULE ClueEngines ----------------------------
(***************************************************************************)
(* The clues of Classic: how a guessed model compares with the answer, in  *)
(* each column of the board.  The repository has the comparison twice, in  *)
(* the browser's comparison-engine.ts and in the server's comparison.rs,   *)
(* which is the one that answers guesses, and the columns of a board       *)
(* twice, in comparison-types.ts and in the server's classic_columns.      *)
(*                                                                         *)
(* A behavior chooses a column, then what the guessed model and the answer *)
(* have in it.  An attribute of a category is looked up along a chain of   *)
(* the model's details: cell[i] is what the i-th of the chain says, Absent *)
(* if the model is not of that category, and Missing if the details lack   *)
(* the one key that the seed leaves optional.                              *)
(***************************************************************************)
EXTENDS Integers, Sequences, FiniteSetsExt

CONSTANTS
  Values,             \* what a catalogue says in words
  Normal,             \* of each value, what the browser's engine makes of it,
  ServerNormal,       \* and the server's: what normalises to "unknown" is not known
  Sizes, Dates,       \* its numbers and release dates, a date without a month as
                      \* month 0
  Lists,              \* [1..4 -> sets of lists]: those of a column, by the length
                      \* of its chain
  None, Absent, Missing

Unsaid == {None, Absent, Missing}

ClueEnginesAssumption ==
  /\ Sizes \subseteq Int /\ Dates \subseteq [year : Nat, month : 0..12]
  /\ \A n \in 1..4 : Lists[n] \subseteq SUBSET Values
  /\ None # Absent /\ None # Missing /\ Absent # Missing /\ {} \notin Unsaid
  /\ \A x \in Unsaid : /\ x \notin Values /\ x \notin BOOLEAN /\ x \notin Sizes /\ x \notin Dates
                      /\ \A n \in 1..4 : \A list \in Lists[n] : x # list

VARIABLES
  column,     \* the column compared, [name, kind, chain], None before
  clue        \* the two cells and the verdict of each engine, None before

vars == <<column, clue>>

Categories == {"llm", "cv", "nlp", "object-detection", "classical-ml", "filters", "hardcore"}

Col(kind, chain) == [kind |-> kind, chain |-> chain]

General(kind) == Col(kind, <<"general">>)

LM == "language-model"

CV == "computer-vision"

OD == "object-detection"

ML == "classical-ml"

\* how compareClassicModels fills each column
Columns ==
  [provider |-> General("scalar"), country |-> General("scalar"), family |-> General("set"),
   categories |-> General("set"), inputModalities |-> General("set"),
   outputModalities |-> General("set"), useCases |-> General("set"),
   reasoningSupport |-> General("scalar"), release |-> General("release"),
   contextWindowTokens |-> General("number"), weightAvailability |-> General("scalar"),
   supportedLanguages |-> Col("set", <<LM, "nlp">>), toolUse |-> Col("toolUse", <<LM>>),
   multimodal |-> Col("boolean", <<LM>>), visionTasks |-> Col("set", <<CV>>),
   architecture |-> Col("set", <<LM, CV, "nlp", OD>>),
   trainingDatasets |-> Col("set", <<CV, "nlp", OD>>), license |-> Col("scalar", <<CV>>),
   nlpTasks |-> Col("set", <<"nlp">>), detectionTypes |-> Col("set", <<OD>>),
   realTimeCapable |-> Col("boolean", <<OD>>), algorithmTypes |-> Col("set", <<ML>>),
   learningParadigms |-> Col("set", <<ML>>), objectives |-> Col("set", <<ML>>),
   featureTypes |-> Col("set", <<ML>>), frameworks |-> Col("set", <<ML, "filters">>),
   operationTypes |-> Col("set", <<"filters">>), kernelBased |-> Col("boolean", <<"filters">>),
   kernelSizes |-> Col("set", <<"filters">>), linearity |-> Col("scalar", <<"filters">>),
   requiresTraining |-> Col("boolean", <<"filters">>), outputTypes |-> Col("set", <<"filters">>)]

----------------------------------------------------------------------------
(* The browser's engine.                                                   *)

NormalizedAll(a) == {Normal[v] : v \in a}

Neither(a, b) == IF a = b THEN "correct" ELSE "unknown"

CompareScalar(a, b) ==
  IF None \in {a, b} THEN Neither(a, b)
  ELSE IF "unknown" \in {Normal[a], Normal[b]} THEN Neither(Normal[a], Normal[b])
  ELSE IF Normal[a] = Normal[b] THEN "correct" ELSE "incorrect"

CompareNullableBoolean(a, b) ==
  IF None \in {a, b} THEN Neither(a, b) ELSE IF a = b THEN "correct" ELSE "incorrect"

CompareToolUse(a, b) == IF (a # None /\ a) = (b # None /\ b) THEN "correct" ELSE "incorrect"

Empty(a) == a \in {None, {}}

CompareSets_SomeUnknown(a, b) ==
  IF Empty(a) \/ Empty(b) THEN IF Empty(a) /\ Empty(b) THEN "correct" ELSE "unknown"
  ELSE IF NormalizedAll(a) = NormalizedAll(b) THEN "correct"
  ELSE IF NormalizedAll(a) \cap NormalizedAll(b) = {} THEN "incorrect" ELSE "partial"

CompareSets(a, b) ==
  IF Empty(a) \/ Empty(b) THEN IF Empty(a) /\ Empty(b) THEN "correct" ELSE "unknown"
  ELSE IF "unknown" \in NormalizedAll(a \cup b)
  THEN IF NormalizedAll(a \cup b) = {"unknown"} THEN "correct" ELSE "unknown"
  ELSE IF NormalizedAll(a) = NormalizedAll(b) THEN "correct"
  ELSE IF NormalizedAll(a) \cap NormalizedAll(b) = {} THEN "incorrect" ELSE "partial"

CompareNumber(guess, answer) ==
  IF None \in {guess, answer} THEN Neither(guess, answer)
  ELSE IF guess = answer THEN "correct"
  ELSE IF answer > guess THEN "higher" ELSE "lower"

Quarter(month) == (month + 2) \div 3

ReleaseQuarter(date) ==
  IF date = None THEN None
  ELSE IF date.month = 0 THEN date.year * 4
  ELSE date.year * 4 + Quarter(date.month)

Compare(kind, a, b) ==
  CASE kind = "scalar" -> CompareScalar(a, b)
    [] kind = "boolean" -> CompareNullableBoolean(a, b)
    [] kind = "toolUse" -> CompareToolUse(a, b)
    [] kind = "set" -> CompareSets(a, b)
    [] kind = "number" -> CompareNumber(a, b)
    [] kind = "release" -> CompareNumber(ReleaseQuarter(a), ReleaseQuarter(b))

FirstOf(cell, skipped) ==
  LET said == {i \in DOMAIN cell : cell[i] \notin skipped}
  IN IF said = {} THEN None ELSE cell[Min(said)]

\* details?.key ?? the next of the chain
Attribute(cell) == FirstOf(cell, {Absent, Missing, None})

----------------------------------------------------------------------------
(* The server's engine.                                                    *)

ServerNormalizedAll(a) == {ServerNormal[v] : v \in a}

ServerScalar(a, b) ==
  IF None \in {a, b} THEN Neither(a, b)
  ELSE IF "unknown" \in {ServerNormal[a], ServerNormal[b]}
  THEN Neither(ServerNormal[a], ServerNormal[b])
  ELSE IF ServerNormal[a] = ServerNormal[b] THEN "correct" ELSE "incorrect"

ServerSets(a, b) ==
  IF None \in {a, b} \/ {} \in {a, b} THEN Neither(a, b)
  ELSE IF "unknown" \in ServerNormalizedAll(a \cup b)
  THEN IF ServerNormalizedAll(a \cup b) = {"unknown"} THEN "correct" ELSE "unknown"
  ELSE IF ServerNormalizedAll(a) = ServerNormalizedAll(b) THEN "correct"
  ELSE IF ServerNormalizedAll(a) \cap ServerNormalizedAll(b) = {} THEN "incorrect"
  ELSE "partial"

\* date.get(5..7) needs a month
ServerQuarter(date) ==
  IF date = None \/ date.month = 0 THEN None ELSE date.year * 4 + Quarter(date.month)

ServerCompare(kind, a, b) ==
  CASE kind = "scalar" -> ServerScalar(a, b)
    [] kind = "boolean" -> CompareNullableBoolean(a, b)
    [] kind = "toolUse" -> CompareToolUse(a, b)
    [] kind = "set" -> ServerSets(a, b)
    [] kind = "number" -> CompareNumber(a, b)
    [] kind = "release" -> CompareNumber(ServerQuarter(a), ServerQuarter(b))

\* details of the category, where a key that is not there is an empty list
ServerAttribute(cell) ==
  LET first == FirstOf(cell, {Absent}) IN IF first = Missing THEN {} ELSE first

----------------------------------------------------------------------------
(* The columns of a board.                                                 *)

BaseColumns ==
  {"provider", "country", "family", "inputModalities", "outputModalities", "useCases",
   "release", "weightAvailability"}

OwnColumns ==
  [llm |-> {"reasoningSupport", "contextWindowTokens", "toolUse", "multimodal"},
   cv |-> {"visionTasks", "architecture", "trainingDatasets", "license"},
   nlp |-> {"contextWindowTokens", "nlpTasks", "supportedLanguages", "architecture",
            "trainingDatasets"},
   od |-> {"detectionTypes", "architecture", "trainingDatasets", "realTimeCapable"},
   ml |-> {"algorithmTypes", "learningParadigms", "objectives", "featureTypes", "frameworks"},
   filters |-> {"provider", "country", "family", "release", "operationTypes", "kernelBased",
                "kernelSizes", "linearity", "requiresTraining", "outputTypes", "frameworks",
                "outputModalities"}]

HardcoreExcluded ==
  {"provider", "country", "family", "reasoningSupport", "visionTasks", "license",
   "detectionTypes", "realTimeCapable", "algorithmTypes", "learningParadigms", "objectives",
   "featureTypes", "frameworks", "operationTypes", "kernelBased", "kernelSizes", "linearity",
   "outputTypes"}

FocusedColumns(category) ==
  CASE category = "filters" -> OwnColumns.filters
    [] category = "object-detection" -> BaseColumns \cup OwnColumns.od
    [] category = "classical-ml" -> BaseColumns \cup OwnColumns.ml
    [] category \in {"llm", "cv", "nlp"} -> BaseColumns \cup OwnColumns[category]

WithoutCountry(columns, difficulty) ==
  IF difficulty = "normal" THEN columns ELSE columns \ {"country"}

\* the columns that the browser shows
ClassicColumnsForGame(category, difficulty) ==
  WithoutCountry(IF category = "hardcore" THEN DOMAIN Columns \ HardcoreExcluded
                 ELSE FocusedColumns(category), difficulty)

\* the columns that the server compares, as classic_columns lists them
ServerBase(rest) ==
  {"provider", "country", "family", "inputModalities", "outputModalities", "useCases",
   "release", "weightAvailability"} \cup rest

ServerColumns(category, difficulty) ==
  WithoutCountry(
    CASE category = "llm" ->
           ServerBase({"reasoningSupport", "contextWindowTokens", "toolUse", "multimodal"})
      [] category = "cv" ->
           ServerBase({"visionTasks", "architecture", "trainingDatasets", "license"})
      [] category = "nlp" ->
           ServerBase({"contextWindowTokens", "nlpTasks", "supportedLanguages", "architecture",
                       "trainingDatasets"})
      [] category = "object-detection" ->
           ServerBase({"detectionTypes", "architecture", "trainingDatasets", "realTimeCapable"})
      [] category = "classical-ml" ->
           ServerBase({"algorithmTypes", "learningParadigms", "objectives", "featureTypes",
                       "frameworks"})
      [] category = "filters" ->
           {"provider", "country", "family", "release", "operationTypes", "kernelBased",
            "kernelSizes", "linearity", "requiresTraining", "outputTypes", "frameworks",
            "outputModalities"}
      [] category = "hardcore" ->
           {"categories", "inputModalities", "outputModalities", "useCases", "release",
            "contextWindowTokens", "weightAvailability", "supportedLanguages", "toolUse",
            "multimodal", "architecture", "trainingDatasets", "nlpTasks", "kernelSizes",
            "requiresTraining"},
    difficulty)

----------------------------------------------------------------------------
(* The cells a seed that passed its validator can give.                    *)

Said(kind, n) ==
  CASE kind = "scalar" -> Values \cup {None}
    [] kind \in {"boolean", "toolUse"} -> BOOLEAN \cup {None}
    [] kind = "number" -> Sizes \cup {None}
    [] kind = "release" -> Dates \cup {None}
    [] kind = "set" -> Lists[n]

\* what the i-th of a column's chain can say
Cells(col, i) ==
  Said(col.kind, Len(col.chain))
    \cup (IF col.chain = <<"general">> THEN {} ELSE {Absent})
    \cup (IF col.name = "architecture" /\ i = 1 THEN {Missing} ELSE {})

Model(col) ==
  {cell \in [1..Len(col.chain) -> UNION {Cells(col, i) : i \in 1..Len(col.chain)}] :
     \A i \in 1..Len(col.chain) : cell[i] \in Cells(col, i)}

ChooseColumn(c) ==
  /\ column = None
  /\ column' = [name |-> c, kind |-> Columns[c].kind, chain |-> Columns[c].chain]
  /\ UNCHANGED clue

\* the server answers a guess; the browser's engine is given the same models
Guess(guess, answer) ==
  /\ LET kind == column.kind
     IN clue' = [guess |-> guess, answer |-> answer,
                 browser |-> Compare(kind, Attribute(guess), Attribute(answer)),
                 server |-> ServerCompare(kind, ServerAttribute(guess), ServerAttribute(answer))]
  /\ UNCHANGED column

Init == column = None /\ clue = None

Next ==
  \/ \E c \in DOMAIN Columns : ChooseColumn(c)
  \/ column # None /\ clue = None /\ \E g, a \in Model(column) : Guess(g, a)

Spec == Init /\ [][Next]_vars

----------------------------------------------------------------------------
\* A verdict is one that the column's kind has.
TypeOK ==
  /\ column # None => column.name \in DOMAIN Columns
  /\ clue # None =>
       {clue.browser, clue.server} \subseteq
         {"correct", "partial", "incorrect", "higher", "lower", "unknown"}

\* Where the two engines are known to read a cell differently: a date without
\* a month, details without the optional key, and what they normalise
\* differently (the browser makes one of separators in a row).
ReadDifferently(kind, cell) ==
  LET said == Attribute(cell)
  IN  \/ kind = "release" /\ cell[1] # None /\ cell[1].month = 0
      \/ kind = "set" /\ \/ said # ServerAttribute(cell)
                         \/ said # None /\ \E v \in said : Normal[v] # ServerNormal[v]
      \/ kind = "scalar" /\ cell[1] \in Values /\ Normal[cell[1]] # ServerNormal[cell[1]]

\* And where they compare differently: no details against an empty list.
KnownDifference(kind, guess, answer) ==
  \/ kind = "set" /\ {Attribute(guess), Attribute(answer)} = {None, {}}
  \/ \E cell \in {guess, answer} : ReadDifferently(kind, cell)

\* Everywhere else the server's clue is the one that the browser's engine
\* gives, in every column, lists that are empty or missing included.
EnginesAgree ==
  clue # None =>
    \/ clue.server = clue.browser
    \/ KnownDifference(column.kind, clue.guess, clue.answer)

\* A list with a value that is not known next to one that is.
PartlyKnown(normalized) == "unknown" \in normalized /\ normalized # {"unknown"}

\* The answer compared with itself is a match in every column, unless a list
\* of it is known in part.
AnswerMatchesItself ==
  clue # None /\ clue.guess = clue.answer =>
    /\ \/ clue.browser = "correct"
       \/ column.kind = "set" /\ PartlyKnown(NormalizedAll(Attribute(clue.answer)))
    /\ \/ clue.server = "correct"
       \/ column.kind = "set" /\ PartlyKnown(ServerNormalizedAll(ServerAttribute(clue.answer)))

\* Every column that the browser shows of a board is one that the server sends
\* a clue for.
ShownColumnsHaveClues ==
  column # None /\ clue = None =>
    \A category \in Categories, difficulty \in {"normal", "challenge"} :
      column.name \in ClassicColumnsForGame(category, difficulty) =>
        column.name \in ServerColumns(category, difficulty)
=============================================================================
