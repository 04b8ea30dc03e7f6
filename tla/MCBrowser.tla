----------------------------- MODULE MCBrowser -----------------------------
(***************************************************************************)
(* The pages of Browser for TLC: what each page is given, and the bounds   *)
(* of its instances.                                                       *)
(***************************************************************************)
EXTENDS Browser, SequencesExt, TLC

CONSTANTS Alice, Bob

(* One move away from solved: after a wrong submission, or in a Speedrun.  *)
MCTimelineCards == [normal |-> <<"n1", "n2", "n3">>, speedrun |-> <<"s1", "s2">>]
MCTimelineModes == DOMAIN MCTimelineCards
MCTimelineSize == [normal |-> 3, speedrun |-> 2]
MCTimelineAnchor == [normal |-> <<>>, speedrun |-> (2 :> "s2")]
MCTimelineMovable == [normal |-> {"n1", "n2", "n3"}, speedrun |-> {"s1"}]
MCTimelineLimit == [d \in MCTimelineModes |-> None]
MCTimelineEarlier == [normal |-> {<<"n1", "n3", "n2">>}, speedrun |-> {}]
MCTimelineBounds == [moves |-> 1, submits |-> 2, shows |-> 2]

(* Two accounts in one browser, more games than the copy holds. *)
MCSessionUsers == {Alice, Bob}
MCSessionGames == {1, 2}
MCSessionBounds == [limit |-> 1, players |-> 2, edits |-> 0]

(* Edits of one account's preferences. *)
MCWritesUsers == {Alice}
MCWritesGames == {1}
MCWritesBounds == [limit |-> 1, players |-> 1, edits |-> 2]

MCClassicCategories == {"llm", "cv"}
MCClassicDifficulties == {"normal", "challenge"}
ClassicBoards == MCClassicCategories \X MCClassicDifficulties
MCClassicPool == [b \in ClassicBoards |-> IF b[1] = "llm" THEN {"a", "b"} ELSE {"v"}]
MCClassicAnswer ==
  [b \in ClassicBoards |-> IF b[1] = "cv" THEN "v" ELSE IF b[2] = "normal" THEN "a" ELSE "b"]
MCClassicFirst == <<"llm", "normal">>
MCClassicBounds == [switches |-> 1, requests |-> 2, reloads |-> 1]

MCEmojiAnswer == [normal |-> "a", hardcore |-> "b"]
MCEmojiDifficulties == DOMAIN MCEmojiAnswer
MCEmojiEntities == {"a", "b"}

(* Two switches, or one with a call made again or a reload. *)
MCEmojiBounds ==
  {[switches |-> 2, guesses |-> 1, retries |-> 0, reloads |-> 0],
   [switches |-> 1, guesses |-> 1, retries |-> 1, reloads |-> 0],
   [switches |-> 1, guesses |-> 1, retries |-> 0, reloads |-> 1]}

MCLogoModels == {"a", "b", "c"}
MCLogoAnswer == "a"
MCLogoBounds == [elsewhere |-> 1, loads |-> 2, reloads |-> 1]

Played(key, mode) == [key |-> key, mode |-> mode]

MCAdminUsers == {"u", "v"}
MCAdminQueries == {"all", "v"}
MCAdminMatching == [all |-> <<"u", "v">>, v |-> <<"v">>]
MCAdminGames ==
  [u |-> <<Played("c1", "classic"), Played("e1", "emoji"), Played("c2", "classic")>>,
   v |-> <<Played("e1", "emoji")>>]
MCAdminRoles == {"user", "developer"}
MCAdminListSize == 1
MCAdminGamesSize == 1
MCAdminBounds == [limit |-> 1, clicks |-> 5]

MCAccountPasswords == {"p", "q"}
MCAccountMask == [a |-> "masked"]
MCAccountUsers == DOMAIN MCAccountMask
MCFirstPassword == "p"

(* Two passwords; or more links and sessions, with one: an account deleted *)
(* and registered again.                                                   *)
MCAccountBounds ==
  {[ids |-> 3, outside |-> 1, passwords |-> {"p", "q"}],
   [ids |-> 4, outside |-> 1, passwords |-> {"p"}]}

Day(d, m, n, won) == [day |-> d, mode |-> m, attempts |-> n, solved |-> won]

MCProfileCategories == {"llm", "hardcore"}
MCProfileNames == {"ann", "bob"}
MCProfileTaken == {"bob"}
MCProfileUnlocked == TRUE
MCProfileBounds == [reads |-> 3, saves |-> 1]

(* One tab of the profile page has games: a streak broken by a gap, one    *)
(* broken by a day not solved, two pages of games, two games on a day.     *)
MCProfileRecords ==
  LET tabs == ({"classic"} \X MCProfileCategories)
        \cup ({"emoji", "logo", "timeline"} \X {"normal", "challenge", "hardcore", "speedrun"})
      On(tab, gs) == [t \in tabs |-> IF t = tab THEN gs ELSE <<>>]
  IN  {On(<<"classic", "llm">>, <<Day(1, 1, 2, TRUE), Day(3, 1, 9, TRUE), Day(4, 1, 8, TRUE), Day(5, 1, 1, TRUE)>>),
       On(<<"classic", "llm">>, <<Day(2, 3, 1, TRUE), Day(2, 1, 9, TRUE), Day(1, 3, 9, TRUE), Day(4, 1, 9, TRUE)>>),
       On(<<"timeline", "speedrun">>, <<Day(1, 1, 1, TRUE), Day(2, 1, 9, FALSE), Day(3, 1, 2, TRUE)>>),
       On(<<"logo", "normal">>, <<Day(1, 1, 1, TRUE), Day(2, 1, 9, TRUE), Day(3, 1, 9, TRUE), Day(5, 1, 9, TRUE)>>)}

(* Values that are not known, that the engines normalize alike, and one of *)
(* two spaces that they do not.                                            *)
MCEngineNormal ==
  ("unknown" :> "unknown") @@ ("gpt 4" :> "gpt-4") @@ ("gpt  4" :> "gpt-4") @@ ("bert" :> "bert")
MCEngineValues == DOMAIN MCEngineNormal
MCEngineServerNormal == [MCEngineNormal EXCEPT !["gpt  4"] = "gpt--4"]
MCEngineSizes == {1, 2}
MCEngineDates == [year : {1995, 1996}, month : {0, 1, 3, 12}]
MCEngineLists ==
  <<SUBSET MCEngineValues, {{}, {"gpt 4"}, {"bert"}, {"gpt 4", "bert"}}, {{}, {"bert"}}, {{}, {"bert"}}>>

Written(id, g, rank, details) ==
  [id |-> id, game |-> g, name |-> "x", note |-> Absent, pool |-> rank, details |-> details]

MCEditorGames == {"classic", "emoji"}
MCEditorCategories == <<"filters", "language-model">>
MCEditorSeed ==
  (<<"classic", "filters">> :> <<Written("a", "classic", 0, [filters |-> "x"])>>)
  @@ (<<"classic", "language-model">> :>
        <<Written("a", "classic", 0, "language-model" :> "x"),
          Written("b", "classic", 0, "language-model" :> "x")>>)
  @@ (<<"emoji", "">> :> <<Written("a", "emoji", 1, <<>>)>>)
MCEditorValues == {"x", "y"}
MCEditorBounds == [moves |-> 1, edits |-> 1, saves |-> 2]

SeedDetails ==
  [nlp |-> [nlpTasks |-> "slugs", supportedLanguages |-> "slugs", architecture |-> "slugs",
            trainingDatasets |-> "slugs"]]
  @@ ("computer-vision" :> [visionTasks |-> "slugs", architecture |-> "slugs",
                            trainingDatasets |-> "slugs", license |-> "null"])
  @@ ("object-detection" :> [detectionTypes |-> "slugs", architecture |-> "slugs",
                             trainingDatasets |-> "slugs", realTimeCapable |-> "null"])
  @@ ("language-model" :> [supportedLanguages |-> "slugs", toolUse |-> "null", multimodal |-> "boolean"])

SeedEntry(id, called, aliases, categories) ==
  [id |-> id, name |-> called, aliases |-> aliases, categories |-> categories,
   details |-> [c \in categories |-> SeedDetails[c]],
   modelClass |-> "encoder", weights |-> "open", reasoning |-> None, pool |-> 0, date |-> 1,
   formed |-> TRUE]

(* Names and aliases that are one term, ids and aliases that are one key,  *)
(* a category that comes and goes, details without a key, with a kind of   *)
(* value they may not have, or of a category the model has not.            *)
SeedEntries ==
  {SeedEntry("a", "X", {}, {"nlp"}),
   SeedEntry("a", "Y", {"b c"}, {"nlp", "computer-vision"}),
   SeedEntry("a-b", "Y", {"c"}, {"language-model"}),
   SeedEntry("a-b", "X", {"x", "y"}, {"object-detection", "computer-vision"}),
   [SeedEntry("d", "Z", {"y"}, {"nlp"}) EXCEPT !.date = None, !.pool = 1],
   [SeedEntry("d", "Z", {}, {"object-detection"}) EXCEPT !.date = 2],
   [SeedEntry("d", "X", {}, {"nlp"}) EXCEPT !.details["nlp"] = [nlpTasks |-> "slugs"]],
   [SeedEntry("d", "Z", {}, {"language-model"}) EXCEPT
      !.details["language-model"].toolUse = "text", !.reasoning = "native"]}

SeedEvent(id, provider, date) ==
  [id |-> id, kind |-> "event", name |-> "E", pool |-> 0, provider |-> provider,
   categories |-> {"nlp"}, date |-> date]

SeedVariant(id, rank, initial, visuals) ==
  [id |-> id, weight |-> 1, pool |-> rank, initial |-> initial,
   visuals |-> [i \in DOMAIN visuals |-> [is |-> "image", value |-> visuals[i], priority |-> None]]]
SeedEntity(id, names, variants) ==
  [id |-> id, names |-> names, pool |-> 1, formed |-> TRUE, variants |-> variants]

SeedLogo(id, asset, thresholds) ==
  [id |-> id, asset |-> asset, pool |-> 0, formed |-> TRUE, portrait |-> FALSE, people |-> FALSE,
   source |-> "", clues |-> [i \in DOMAIN thresholds |->
     [after |-> thresholds[i], kind |-> "educational", formed |-> TRUE]]]

SeedFiles ==
  [classic |-> <<SeedEntry("a", "X", {}, {"nlp"})>>, events |-> {},
   emoji |-> <<SeedEntity("e", {"X"}, <<SeedVariant("v", 2, None, <<"p", "p">>)>>)>>,
   logos |-> <<SeedLogo("l", "l.png", <<0, 3>>)>>]

MCSeedDrafts ==
  {[SeedFiles EXCEPT !.classic = <<m>>] : m \in SeedEntries}
  \cup {[SeedFiles EXCEPT !.classic = p] :
          p \in {<<m, n>> : m \in SeedEntries, n \in {e \in SeedEntries : e.id = "a-b"}}}
  \cup {[SeedFiles EXCEPT !.events = {e}] :
          e \in {SeedEvent("ev", "meta", 1), SeedEvent("ev", None, 1), SeedEvent("a", "meta", 3)}}
  \cup {[SeedFiles EXCEPT !.emoji = @ \o <<e>>] :
          e \in {SeedEntity("f", {"x"}, <<SeedVariant("v", 1, 1, <<"p", "r">>)>>),
                 SeedEntity("f", {"Y"}, <<SeedVariant("v", 0, 1, <<"p", "r">>)>>),
                 SeedEntity("f", {"Y"}, <<SeedVariant("v", 1, 3, <<"p", "r">>)>>),
                 SeedEntity("f", {"Y"}, <<SeedVariant("v", 1, 2, <<"p", "q">>)>>),
                 SeedEntity("f", {"Y"}, <<SeedVariant("v", 1, 2, <<"p", "r">>),
                                         SeedVariant("w", 2, None, <<"p", "r">>)>>)}}
  \cup {[SeedFiles EXCEPT !.logos = @ \o <<e>>] :
          e \in {SeedLogo("m", "m.png", <<6>>), SeedLogo("m", "m.png", <<5, 9>>),
                 SeedLogo("m", "l.png", <<0>>), SeedLogo("m", "m.png", <<4, 1>>),
                 [SeedLogo("m", "m.png", <<0>>) EXCEPT !.source = "http"],
                 [SeedLogo("m", "m.png", <<3>>) EXCEPT !.portrait = TRUE],
                 [SeedLogo("m", "m.png", <<3>>) EXCEPT !.portrait = TRUE, !.people = TRUE]}}

MCSeedSlug == ("X" :> "x") @@ ("x" :> "x") @@ ("Y" :> "y") @@ ("y" :> "y") @@ ("Z" :> "z")
            @@ ("b c" :> "b-c") @@ ("c" :> "c")
MCSeedAliasId(id, slug) == id \o "-" \o slug
MCSeedMinModels == 1
MCSeedMinLogos == 1
MCSeedImages == {"p", "r"}
MCSeedBounds == [drafts |-> 2, releases |-> 2]

MCStageAfter == <<0, 1>>
MCStageScopes == {"A", "B"}
MCStageRevision == 1
MCStageBounds == [wrong |-> 1, scopes |-> 1, arrivals |-> 2]

MCApiRacing == {"currentUser", "signOut", "signInWithPassword", "submitTimelineAttempt"}
MCApiBounds == [calls |-> 3, ids |-> 4]

MCDailyModels == {"a", "b", "c"}
DailyFirst(pools) == [p \in pools |-> IF "b" \in p THEN "b" ELSE "c"]

(* Two requests for the challenges of two days. *)
MCRaceKinds == {"classic", "emoji", "logo", "timeline"}
MCRacePools == {{"a", "b"}, {"c"}}
MCRaceFirst == DailyFirst(MCRacePools)
MCRaceShapes == {3, 4}
MCRaceHandlers == {1, 2}
MCRaceBounds == [cooldown |-> 1, days |-> 2, changes |-> 1]

(* Days enough for answers to come back. *)
MCRestKinds == {"classic", "emoji", "logo"}
MCRestPools == {{"a", "b"}, {"b"}}
MCRestFirst == DailyFirst(MCRestPools)
MCRestShapes == {3}
MCRestHandlers == {1}
MCRestBounds == [cooldown |-> 2, days |-> 3, changes |-> 1]
=============================================================================
