------------------------------ MODULE ApiTable ------------------------------
(***************************************************************************)
(* The calls of the browser's client (client.ts), the routes and request   *)
(* types of the server (api/v1.rs, dto/mod.rs), and what the handler of    *)
(* each call asks of its caller.                                           *)
(*                                                                         *)
(* A challenge id, a day, a category or a difficulty in a path is :x; a    *)
(* body is the set of its keys.  Every request type refuses a key it does  *)
(* not know.                                                               *)
(***************************************************************************)
(* The calls of one table or the other. *)
Both(f, g) == [c \in DOMAIN f \cup DOMAIN g |-> IF c \in DOMAIN f THEN f[c] ELSE g[c]]

Json(method, path, keys) == [method |-> method, path |-> path, keys |-> keys]
Get(path) == Json("GET", path, {})

-----------------------------------------------------------------------------
(* client.ts *)

AccountCalls ==
  [currentUser |-> Get("/auth/me"),
   signOut |-> Json("POST", "/auth/logout", {}),
   signInWithPassword |-> Json("POST", "/auth/password", {"email", "password"}),
   register |-> Json("POST", "/auth/register", {"email", "password", "username"}),
   updateUsername |-> Json("PUT", "/auth/username", {"username"}),
   requestPasswordReset |-> Json("POST", "/auth/password-reset", {"email"}),
   completePasswordReset |-> Json("POST", "/auth/password-reset/complete", {"password"}),
   requestAccountDeletion |-> Json("POST", "/auth/account-deletion", {}),
   accountDeletionStatus |-> Get("/auth/account-deletion/status"),
   completeAccountDeletion |-> Json("POST", "/auth/account-deletion/complete", {"confirmation"}),
   resendActivationEmail |-> Json("POST", "/auth/email-verification", {"email"})]

ProgressSyncPayload == {"version", "playerId", "preferences", "activeGames"}
Preferences ==
  {"hasSeenClassicHowToPlay", "innerCircleActive", "hellMode", "hasAutoplayedHardcoreSoundtrack"}

ProgressCalls ==
  [syncProgress |-> Json("PUT", "/auth/progress", ProgressSyncPayload),
   updateProgressPreferences |-> Json("PATCH", "/auth/progress/preferences", Preferences),
   cloudProgress |-> Get("/auth/progress"),
   progressHistory |-> Get("/auth/progress/history"),
   enableHardcoreAccess |-> Json("POST", "/games/classic/hardcore/access", {}),
   hardcoreStatus |-> Get("/auth/hardcore-status"),
   reportIssue |-> Json("POST", "/issues", {"title", "description", "game"}),
   requestIssueReportLimitIncrease |-> Json("POST", "/issues/limit-request", {})]

AdminCalls ==
  [adminUsers |-> Get("/admin/users"),
   adminUser |-> Get("/admin/users/:x"),
   updateAdminUser |-> Json("PATCH", "/admin/users/:x",
                            {"permission", "disabled", "disabledReason", "issueReportLimit"}),
   removeAdminGameGuess |-> Json("DELETE", "/admin/users/:x", {"gameKey", "requestId"})]

GuessKeys == {"playerId", "requestId", "guessedModelId", "attemptNumber"}

ClassicCalls ==
  [classicGame |-> Get("/games/classic/:x/:x"),
   hardcoreGame |-> Get("/games/classic/hardcore"),
   submitClassicGuess |-> Json("POST", "/games/classic/challenges/:x/guesses", GuessKeys),
   classicGuessHistory |-> Get("/games/classic/challenges/:x/guesses"),
   classicStats |-> Get("/games/classic/challenges/:x/stats")]

TrajectoryCalls ==
  [classicTrajectory |-> Json("POST", "/games/classic/challenges/:x/trajectory",
                             {"trajectoryAccessToken"})]

TimelineCalls ==
  [timelineGame |-> Get("/games/timeline/:x"),
   startTimelineSpeedrun |-> Json("POST", "/games/timeline/challenges/:x/start", {"playerId"}),
   giveUpTimelineSpeedrun |-> Json("POST", "/games/timeline/challenges/:x/give-up", {"playerId"}),
   submitTimelineAttempt |-> Json("POST", "/games/timeline/challenges/:x/attempts",
                                  {"playerId", "requestId", "modelOrder"}),
   timelineLeaderboard |-> Get("/games/timeline/challenges/:x/leaderboard"),
   currentTimelineLeaderboard |-> Get("/games/timeline/leaderboard"),
   datedTimelineLeaderboard |-> Get("/games/timeline/leaderboard/:x"),
   globalTimelineLeaderboard |-> Get("/games/timeline/leaderboard/global")]

EmojiCalls ==
  [emojiGame |-> Get("/games/emoji/:x"),
   submitEmojiGuess |-> Json("POST", "/games/emoji/challenges/:x/guesses",
                             (GuessKeys \ {"guessedModelId"}) \cup {"guessedEntityId"}),
   emojiHints |-> Get("/games/emoji/challenges/:x/hints"),
   emojiGuessHistory |-> Get("/games/emoji/challenges/:x/guesses")]

LogoCalls ==
  [logoGame |-> Get("/games/logo/:x"),
   submitLogoGuess |-> Json("POST", "/games/logo/challenges/:x/guesses", GuessKeys),
   logoGuessHistory |-> Get("/games/logo/challenges/:x/guesses")]

UserCalls == Both(AccountCalls, Both(ProgressCalls, AdminCalls))

GameCalls ==
  Both(ClassicCalls, Both(TrajectoryCalls, Both(TimelineCalls, Both(EmojiCalls, LogoCalls))))

Calls == Both(UserCalls, GameCalls)

Method(c) == Calls[c].method
Path(c) == Calls[c].path

-----------------------------------------------------------------------------
(* api/v1.rs and dto/mod.rs *)

Routes ==
  {<<"GET", p>> : p \in
     {"/auth/me", "/auth/account-deletion/status", "/auth/progress", "/auth/progress/history",
      "/auth/hardcore-status", "/admin/users", "/admin/users/:x", "/games/classic/:x/:x",
      "/games/classic/hardcore", "/games/classic/challenges/:x/guesses",
      "/games/classic/challenges/:x/stats", "/games/timeline/:x", "/games/timeline/leaderboard",
      "/games/timeline/challenges/:x/leaderboard", "/games/timeline/leaderboard/:x",
      "/games/timeline/leaderboard/global", "/games/emoji/:x", "/games/logo/:x",
      "/games/emoji/challenges/:x/hints", "/games/emoji/challenges/:x/guesses",
      "/games/logo/challenges/:x/guesses"}}
  \cup {<<"POST", p>> : p \in
     {"/auth/register", "/auth/password", "/auth/password-reset", "/auth/password-reset/complete",
      "/auth/email-verification", "/auth/account-deletion", "/auth/account-deletion/complete",
      "/auth/logout", "/issues", "/issues/limit-request", "/games/classic/hardcore/access",
      "/games/classic/challenges/:x/guesses", "/games/classic/challenges/:x/trajectory",
      "/games/emoji/challenges/:x/guesses", "/games/logo/challenges/:x/guesses",
      "/games/timeline/challenges/:x/attempts", "/games/timeline/challenges/:x/start",
      "/games/timeline/challenges/:x/give-up"}}
  \cup {<<"PUT", "/auth/username">>, <<"PUT", "/auth/progress">>,
        <<"PATCH", "/auth/progress/preferences">>, <<"PATCH", "/admin/users/:x">>,
        <<"DELETE", "/admin/users/:x">>}

(* The keys a request type must have, where it is not every key it knows. *)
Optional == {"username", "permission", "disabled", "disabledReason", "issueReportLimit",
             "trajectoryAccessToken", "activeGames"}

RequestType(method, path) ==
  IF method = "GET" THEN {} ELSE
  CASE path = "/auth/password" -> {"email", "password"}
    [] path = "/auth/register" -> {"email", "password", "username"}
    [] path \in {"/auth/password-reset", "/auth/email-verification"} -> {"email"}
    [] path = "/auth/password-reset/complete" -> {"password"}
    [] path = "/auth/account-deletion/complete" -> {"confirmation"}
    [] path = "/auth/username" -> {"username"}
    [] path = "/auth/progress" -> {"version", "playerId", "preferences", "activeGames"}
    [] path = "/auth/progress/preferences" ->
         {"hasSeenClassicHowToPlay", "innerCircleActive", "hellMode",
          "hasAutoplayedHardcoreSoundtrack"}
    [] path = "/issues" -> {"game", "title", "description"}
    [] path = "/admin/users/:x" /\ method = "DELETE" -> {"gameKey", "requestId"}
    [] path = "/admin/users/:x" /\ method = "PATCH" -> {"permission", "disabled", "disabledReason", "issueReportLimit"}
    [] path \in {"/games/classic/challenges/:x/guesses", "/games/logo/challenges/:x/guesses"} ->
         {"playerId", "requestId", "guessedModelId", "attemptNumber"}
    [] path = "/games/emoji/challenges/:x/guesses" ->
         {"playerId", "requestId", "guessedEntityId", "attemptNumber"}
    [] path = "/games/classic/challenges/:x/trajectory" -> {"trajectoryAccessToken"}
    [] path = "/games/timeline/challenges/:x/attempts" -> {"playerId", "requestId", "modelOrder"}
    [] path \in {"/games/timeline/challenges/:x/start", "/games/timeline/challenges/:x/give-up"} ->
         {"playerId"}
    [] OTHER -> {}

Matches(call) ==
  /\ <<call.method, call.path>> \in Routes
  /\ call.keys \subseteq RequestType(call.method, call.path)
  /\ RequestType(call.method, call.path) \ Optional \subseteq call.keys

Routed(c) == Matches(Calls[c])

(* Handlers that do not ask for the token of the cookie, and those that    *)
(* ask for it when the caller is signed in.                                *)
Tokenless == {"/auth/register", "/auth/password", "/auth/password-reset",
              "/auth/password-reset/complete", "/auth/email-verification",
              "/games/classic/challenges/:x/trajectory"}
Guesses == {"/games/classic/challenges/:x/guesses", "/games/emoji/challenges/:x/guesses",
            "/games/logo/challenges/:x/guesses", "/games/timeline/challenges/:x/attempts"}

AsksToken(c) ==
  IF Method(c) = "GET" \/ Path(c) \in Tokenless THEN "never"
  ELSE IF Path(c) \in Guesses THEN "signed-in" ELSE "always"

AsksUser(c) ==
  \/ c \in DOMAIN ProgressCalls \ {"hardcoreStatus"} \/ c \in DOMAIN AdminCalls
  \/ c \in {"updateUsername", "requestAccountDeletion", "completeAccountDeletion", "hardcoreGame",
            "startTimelineSpeedrun", "giveUpTimelineSpeedrun"}

(* anonymous_player_identity *)
HasPlayer(c) ==
  \/ c \in DOMAIN ClassicCalls \cup DOMAIN TimelineCalls \cup DOMAIN EmojiCalls \cup DOMAIN LogoCalls
  \/ c \in {"enableHardcoreAccess", "classicTrajectory"} \/ Path(c) = "/auth/progress"

(* What ApiCalls knows of a call. *)
Kinds ==
  [c \in DOMAIN Calls |->
     [writes |-> Method(c) # "GET", routed |-> Routed(c), token |-> AsksToken(c),
      guesses |-> Method(c) = "POST" /\ Path(c) \in Guesses,
      user |-> AsksUser(c), player |-> HasPlayer(c)]]
=============================================================================
