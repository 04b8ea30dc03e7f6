---------------------------- MODULE LocalEditor ----------------------------
(***************************************************************************)
(* The local catalogue editor: its page (local_editor/frontend) and its    *)
(* server (local_editor/backend), which edits the JSON files of data/,     *)
(* rebuilds the merged Classic catalogue and opens pull requests.          *)
(*                                                                         *)
(* A file is <<game, category>>, the category "" but for Classic, and maps *)
(* each of its places to a record.  A record has its id, the game whose    *)
(* fields it has, a required field (name), an optional one (note), its     *)
(* pool and its categoryDetails, a function on categories; other values    *)
(* are left out.  The value Bad is one the seed validators refuse.  One    *)
(* page is open; a page that is left goes on at the server, which handles  *)
(* each request in a thread of its own.                                    *)
(*                                                                         *)
(* overlap, before and the bounds' counters are history variables: whether *)
(* two saves ever ran at once, and the files when the last save began.     *)
(***************************************************************************)
EXTENDS Integers, Sequences, FiniteSets, Folds, SequencesExt

CONSTANTS
  Games,             \* some of "classic", "emoji", "logo", "timeline"
  CategoryOrder,     \* the Classic categories, in their order
  Seed,              \* the files of data/ at the start
  Values, Bad, Blank, Absent, None,
  MaxMoves, MaxEdits, MaxSaves   \* the bounds of this instance: choices and
                       \* reloads, edits and analyses, saves

Categories == Range(CategoryOrder)
Files == DOMAIN Seed
Pool == [normal |-> 0, challenge |-> 1, hardcore |-> 2]
Difficulties == DOMAIN Pool
CategoriesOf(g) == IF g = "classic" THEN Categories ELSE {}

Ids == UNION {{Seed[f][p].id : p \in DOMAIN Seed[f]} : f \in Files}

Texts == Values \cup {Bad, Blank, Absent}

Details == UNION {[cs -> Texts] : cs \in SUBSET Categories}

Records ==
  [id : Ids, game : Games, name : Texts, note : Texts, pool : Nat, details : Details]

(* The merge refuses details outside the file's category. *)
DetailsOf(f) == IF f[1] = "classic" THEN {f[2]} ELSE {}

LocalEditorAssumption ==
  /\ "classic" \in Games /\ "language-model" \in Categories
  /\ CategoryOrder \in Seq(Categories)
  /\ Files = ({"classic"} \X Categories) \cup ((Games \ {"classic"}) \X {""})
  /\ Seed \in [Files -> Seq(Records)]
  /\ \A f \in Files : \A p \in DOMAIN Seed[f] :
       Seed[f][p].game = f[1] /\ DOMAIN Seed[f][p].details = DetailsOf(f)
  /\ {Bad, Blank, Absent} \cap Values = {}
  /\ None \notin Nat /\ None \notin Ids /\ None \notin Records
  /\ {MaxMoves, MaxEdits, MaxSaves} \subseteq Nat

VARIABLES
  \* the page: the selectors, the list, the record in the form and as it was
  \* loaded, the review, the call the page is busy with, and git's status
  game, category, difficulty, items, itemId, item, baseline, aiReview, call, canPublish,
  \* the server: the files, the merged catalogue, the last commit, whether
  \* something outside data/ changed, and the saves it works on
  files, merged, head, stray, jobs,
  overlap, before, moves, edits, saves

selectors == <<game, category, difficulty>>
list == <<items, itemId>>
form == <<item, baseline, aiReview>>
data == <<files, merged, head, stray>>
past == <<overlap, before, saves>>
counts == <<moves, edits>>
vars == <<selectors, list, form, call, canPublish, data, jobs, past, counts>>

Busy == call # None
Here == <<game, category>>
Dirty == item # None /\ item # baseline

-----------------------------------------------------------------------------
(* catalog_service.py and the scripts it runs *)

(* The ids list_items shows of a file. *)
Listed(f, d) == {files[f][p].id : p \in {q \in DOMAIN files[f] : files[f][q].pool <= Pool[d]}}

(* _index: the only place of the file whose record has the id, or None. *)
PlaceOf(f, id) ==
  LET places == {p \in DOMAIN files[f] : files[f][p].id = id}
  IN  IF Cardinality(places) = 1 THEN CHOOSE p \in places : TRUE ELSE None

(* classic-merge-to-one.mjs: a record keeps what the merged one had and    *)
(* the file's has not.                                                     *)
MergeInto(old, new) ==
  [new EXCEPT !.note = IF new.note = Absent THEN old.note ELSE new.note,
              !.details = new.details @@ old.details]

MergeFile(m, c) ==
  [id \in DOMAIN m |->
     LET p == PlaceOf(<<"classic", c>>, id)
     IN  IF p = None THEN m[id] ELSE MergeInto(m[id], files[<<"classic", c>>][p])]

Merged(m) == FoldLeft(MergeFile, m, CategoryOrder)

(* What is not a record of the game the seed validators refuse. *)
ValidRecord(f, r) ==
  /\ r.game = f[1] /\ r.name \in Values
  /\ DOMAIN r.details = DetailsOf(f)
  /\ \A c \in DOMAIN r.details : r.details[c] \in Values

Valid == \A f \in Files : \A p \in DOMAIN files[f] : ValidRecord(f, files[f][p])

(* _transaction_paths, less the two merged catalogues. *)
TransactionFiles(g) == {f \in Files : f[1] = g}

(* MUTANT: the record's id is not compared with the item's. *)
Accepted_AnyId(f, id, r) == f \in Files

(* update_item, before its snapshots: the item's identity cannot change. *)
Accepted(f, id, r) == f \in Files /\ r.id = id

(* _update_classic, before its first write. *)
EditsCategory(f, id, r) ==
  /\ PlaceOf(f, id) # None
  /\ f[1] = "classic" => DOMAIN r.details = {f[2]}

Save(f, id, r) ==
  [file |-> f, id |-> id, item |-> r, is |-> "writing",
   todo |-> {g \in TransactionFiles(f[1]) : PlaceOf(g, id) # None},
   files |-> files, merged |-> merged]

(* MUTANT: the shared fields go to the selected category alone. *)
Edited_Selected(job, f, r) == IF f = job.file THEN job.item ELSE r

(* The fields of every category's record, the details of the selected one. *)
Edited(job, f, r) ==
  [job.item EXCEPT !.details = IF f = job.file THEN job.item.details ELSE r.details]

(* One read and write of a file, in the files' order. *)
WriteFile(n) ==
  /\ jobs[n].is = "writing" /\ jobs[n].todo # {}
  /\ \E f \in jobs[n].todo :
       LET p == PlaceOf(f, jobs[n].id)
       IN  /\ files' = IF p = None THEN files
                       ELSE [files EXCEPT ![f][p] = Edited(jobs[n], f, files[f][p])]
           /\ jobs' = [jobs EXCEPT ![n].todo = @ \ {f}]
  /\ UNCHANGED <<selectors, list, form, call, canPublish, merged, head, stray, past, counts>>

(* The merges and validators: they refuse the data, or fail to run. *)
Verify(n) ==
  /\ jobs[n].is = "writing" /\ jobs[n].todo = {}
  /\ merged' = Merged(merged)
  /\ \E is \in {"restoring"} \cup (IF Valid THEN {"verified"} ELSE {}) :
       jobs' = [jobs EXCEPT ![n].is = is]
  /\ UNCHANGED <<selectors, list, form, call, canPublish, files, head, stray, past, counts>>

(* MUTANT: a failed save leaves the other categories' files. *)
Restore_Selected(n) ==
  /\ jobs[n].is = "restoring"
  /\ files' = [files EXCEPT ![jobs[n].file] = jobs[n].files[jobs[n].file]]
  /\ merged' = jobs[n].merged
  /\ jobs' = [jobs EXCEPT ![n].is = "failed"]
  /\ UNCHANGED <<selectors, list, form, call, canPublish, head, stray, past, counts>>

(* Every file of the transaction is put back. *)
Restore(n) ==
  /\ jobs[n].is = "restoring"
  /\ files' = [f \in Files |-> IF f \in TransactionFiles(jobs[n].file[1]) THEN jobs[n].files[f]
                               ELSE files[f]]
  /\ merged' = jobs[n].merged
  /\ jobs' = [jobs EXCEPT ![n].is = "failed"]
  /\ UNCHANGED <<selectors, list, form, call, canPublish, head, stray, past, counts>>

Running == {n \in 1..saves : jobs[n].is \in {"writing", "restoring"}}
-----------------------------------------------------------------------------
(* The page's calls.  A call that fails leaves a notice, no longer busy.   *)

CallFails ==
  /\ Busy /\ call.is # "save"
  /\ call' = None
  /\ UNCHANGED <<selectors, list, form, canPublish, data, jobs, past, counts>>

(* The effect of the first render. *)
NavigationAnswer ==
  /\ Busy /\ call.is = "navigation"
  /\ canPublish' = (files # head /\ ~stray)
  /\ call' = [is |-> "items"]
  /\ UNCHANGED <<selectors, list, form, data, jobs, past, counts>>

(* loadItems, up to the answer; the selected item goes before its record.  *)
ItemsAnswer ==
  /\ Busy /\ call.is = "items"
  /\ items' = Listed(Here, difficulty)
  /\ IF items' = {}
       THEN itemId' = None /\ item' = None /\ baseline' = None /\ aiReview' = None /\ call' = None
       ELSE /\ itemId' \in IF itemId \in items' THEN {itemId} ELSE items'
            /\ call' = [is |-> "item"]
            /\ UNCHANGED form
  /\ UNCHANGED <<selectors, canPublish, data, jobs, past, counts>>

(* MUTANT: the review of the record before is kept. *)
ItemAnswer_KeepReview ==
  /\ Busy /\ call.is = "item"
  /\ PlaceOf(Here, itemId) # None
  /\ item' = files[Here][PlaceOf(Here, itemId)] /\ baseline' = item'
  /\ call' = None
  /\ UNCHANGED <<selectors, list, aiReview, canPublish, data, jobs, past, counts>>

(* loadItem *)
ItemAnswer ==
  /\ Busy /\ call.is = "item"
  /\ PlaceOf(Here, itemId) # None
  /\ item' = files[Here][PlaceOf(Here, itemId)] /\ baseline' = item'
  /\ aiReview' = None
  /\ call' = None
  /\ UNCHANGED <<selectors, list, canPublish, data, jobs, past, counts>>

(* The effect: the category is put right for the game, then the items are  *)
(* read.  Unsaved fields are discarded without a question.                 *)
Choose(g, c, d) ==
  /\ ~Busy /\ <<g, c, d>> # selectors
  /\ moves < MaxMoves /\ moves' = moves + 1
  /\ game' = g /\ difficulty' = d
  /\ category' = IF CategoriesOf(g) = {} THEN ""
                 ELSE IF c \in CategoriesOf(g) THEN c ELSE CategoryOrder[1]
  /\ call' = [is |-> "items"]
  /\ UNCHANGED <<list, form, canPublish, data, jobs, past, edits>>

ChooseGame(g) == Choose(g, category, difficulty)
ChooseCategory(c) == c \in CategoriesOf(game) /\ Choose(game, c, difficulty)
ChooseDifficulty(d) == Choose(game, category, d)

(* A dirty form asks first; the record shown stays until the answer.       *)
SelectItem(id) ==
  /\ ~Busy /\ id \in items
  /\ moves < MaxMoves /\ moves' = moves + 1
  /\ itemId' = id
  /\ call' = [is |-> "item"]
  /\ UNCHANGED <<selectors, items, form, canPublish, data, jobs, past, edits>>

-----------------------------------------------------------------------------
(* JsonFormEditor *)

Removed(details, c) == [d \in DOMAIN details \ {c} |-> details[d]]
Added(details, c) == [d \in DOMAIN details \cup {c} |-> IF d = c THEN Blank ELSE details[d]]

(* The identity's input is disabled, a required field cannot be removed,   *)
(* the categories of categoryDetails can be added and removed.             *)
FormEdits(r) ==
  {[r EXCEPT !.name = v] : v \in Values \cup {Bad, Blank}}
  \cup (IF r.note = Absent THEN {[r EXCEPT !.note = Blank]}
        ELSE {[r EXCEPT !.note = v] : v \in Values \cup {Absent}})
  \cup {[r EXCEPT !.details[c] = v] : c \in DOMAIN r.details, v \in Values}
  \cup (IF r.game # "classic" THEN {}
        ELSE {[r EXCEPT !.details = Removed(@, c)] : c \in DOMAIN r.details}
             \cup {[r EXCEPT !.details = Added(@, c)] : c \in Categories \ DOMAIN r.details})

Edit ==
  /\ ~Busy /\ item # None
  /\ edits < MaxEdits /\ edits' = edits + 1
  /\ item' \in FormEdits(item)
  /\ UNCHANGED <<selectors, list, baseline, aiReview, call, canPublish, data, jobs, past, moves>>

(* validateRequiredFields: another game's record misses some of the fields. *)
HasFieldErrors ==
  \/ item.game # game \/ item.name = Blank
  \/ game = "classic" /\ DOMAIN item.details = {}

-----------------------------------------------------------------------------
(* AiReviewPanel and ai_service.py *)

Analyse ==
  /\ ~Busy /\ item # None
  /\ edits < MaxEdits /\ edits' = edits + 1
  /\ call' = [is |-> "analyse"]
  /\ UNCHANGED <<selectors, list, form, canPublish, data, jobs, past, moves>>

(* A suggestion with another id is refused: only CallFails is left. *)
AnalysisAnswer(suggested) ==
  /\ Busy /\ call.is = "analyse"
  /\ suggested.id = item.id
  /\ aiReview' = suggested
  /\ call' = None
  /\ UNCHANGED <<selectors, list, item, baseline, canPublish, data, jobs, past, counts>>

ApplySuggestion ==
  /\ ~Busy /\ aiReview # None /\ item # None /\ aiReview # item
  /\ edits < MaxEdits /\ edits' = edits + 1
  /\ item' = aiReview
  /\ UNCHANGED <<selectors, list, baseline, aiReview, call, canPublish, data, jobs, past, moves>>

-----------------------------------------------------------------------------
(* save, the other catalogue actions and publish *)

SaveClick ==
  /\ ~Busy /\ itemId # None /\ Dirty /\ ~HasFieldErrors
  /\ saves < MaxSaves /\ saves' = saves + 1
  /\ LET job == Save(Here, itemId, item)
         is == IF ~Accepted(Here, itemId, item) THEN "failed"
               ELSE IF EditsCategory(Here, itemId, item) THEN "writing" ELSE "restoring"
     IN  jobs' = [jobs EXCEPT ![saves'] = [job EXCEPT !.is = is]]
  /\ overlap' = (overlap \/ Running # {}) /\ before' = files
  /\ call' = [is |-> "save", job |-> saves']
  /\ UNCHANGED <<selectors, list, form, canPublish, data, counts>>

(* The save's answer: the record as it is in the file now. *)
SaveAnswer ==
  /\ Busy /\ call.is = "save" /\ jobs[call.job].is = "verified"
  /\ LET job == jobs[call.job]
         p == PlaceOf(job.file, job.id)
     IN  /\ p # None
         /\ item' = files[job.file][p] /\ baseline' = item'
  /\ call' = [is |-> "status", refresh |-> TRUE]
  /\ UNCHANGED <<selectors, list, aiReview, canPublish, data, jobs, past, counts>>

SaveFails ==
  /\ Busy /\ call.is = "save" /\ jobs[call.job].is \in {"verified", "failed"}
  /\ call' = None
  /\ UNCHANGED <<selectors, list, form, canPublish, data, jobs, past, counts>>

(* git status, after each action; after a save the items are read again,   *)
(* without the record in the form.                                         *)
StatusAnswer ==
  /\ Busy /\ call.is = "status"
  /\ canPublish' = (files # head /\ ~stray)
  /\ IF call.refresh THEN items' = Listed(Here, difficulty) ELSE UNCHANGED items
  /\ call' = None
  /\ UNCHANGED <<selectors, itemId, form, data, jobs, past, counts>>

(* "Verify all data" and "Merge": both rebuild the merged catalogue. *)
ValidateAll ==
  /\ ~Busy
  /\ merged' = Merged(merged)
  /\ call' = IF Valid THEN [is |-> "status", refresh |-> FALSE] ELSE [is |-> "lost"]
  /\ UNCHANGED <<selectors, list, form, canPublish, files, head, stray, jobs, past, counts>>

MergeGame ==
  /\ ~Busy /\ ~Dirty /\ game \in {"classic", "timeline"}
  /\ merged' = Merged(merged)
  /\ call' = [is |-> "status", refresh |-> FALSE]
  /\ UNCHANGED <<selectors, list, form, canPublish, files, head, stray, jobs, past, counts>>

(* publish of git_service.py: it validates, then commits what is there.    *)
Publish ==
  /\ ~Busy /\ ~Dirty /\ canPublish
  /\ merged' = Merged(merged)
  /\ IF Valid /\ files # head /\ ~stray
       THEN head' = files /\ call' = [is |-> "status", refresh |-> FALSE]
       ELSE call' = [is |-> "lost"] /\ UNCHANGED head
  /\ UNCHANGED <<selectors, list, form, canPublish, files, stray, jobs, past, counts>>

(* Somebody edits another file of the repository. *)
Stray ==
  /\ ~stray /\ stray' = TRUE
  /\ moves < MaxMoves /\ moves' = moves + 1
  /\ UNCHANGED <<selectors, list, form, call, canPublish, files, merged, head, jobs, past, edits>>

(* The page is loaded again; the server goes on with a save. *)
Reload ==
  /\ moves < MaxMoves /\ moves' = moves + 1
  /\ game' = "classic" /\ category' = "language-model" /\ difficulty' = "normal"
  /\ items' = {} /\ itemId' = None /\ item' = None /\ baseline' = None /\ aiReview' = None
  /\ canPublish' = FALSE
  /\ call' = [is |-> "navigation"]
  /\ UNCHANGED <<data, jobs, past, edits>>

Init ==
  /\ game = "classic" /\ category = "language-model" /\ difficulty = "normal"
  /\ items = {} /\ itemId = None /\ item = None /\ baseline = None /\ aiReview = None
  /\ canPublish = FALSE /\ call = [is |-> "navigation"]
  /\ files = Seed /\ head = Seed /\ stray = FALSE
  /\ LET records == UNION {Range(Seed[f]) : f \in TransactionFiles("classic")}
     IN  merged = Merged([id \in {r.id : r \in records} |-> CHOOSE r \in records : r.id = id])
  /\ jobs = [n \in 1..MaxSaves |-> None]
  /\ overlap = FALSE /\ before = files
  /\ moves = 0 /\ edits = 0 /\ saves = 0

Next ==
  \/ NavigationAnswer \/ ItemsAnswer \/ ItemAnswer \/ CallFails
  \/ \E g \in Games : ChooseGame(g)
  \/ \E c \in Categories : ChooseCategory(c)
  \/ \E d \in Difficulties : ChooseDifficulty(d)
  \/ \E id \in items : SelectItem(id)
  \/ Edit \/ Analyse \/ ApplySuggestion
  \/ item # None /\ \E v \in Values \cup {Bad} : AnalysisAnswer([item EXCEPT !.name = v])
  \/ SaveClick \/ SaveAnswer \/ SaveFails \/ StatusAnswer
  \/ ValidateAll \/ MergeGame \/ Publish \/ Stray \/ Reload
  \/ \E n \in 1..saves : WriteFile(n) \/ Verify(n) \/ Restore(n)

Spec == Init /\ [][Next]_vars
-----------------------------------------------------------------------------
(* Properties. *)

TypeOK ==
  /\ game \in Games /\ category \in CategoriesOf(game) \cup {""} /\ difficulty \in Difficulties
  /\ Here \in Files
  /\ items \subseteq Ids /\ itemId \in Ids \cup {None}
  /\ {item, baseline, aiReview} \subseteq Records \cup {None} /\ (item = None <=> baseline = None)
  /\ canPublish \in BOOLEAN /\ stray \in BOOLEAN /\ overlap \in BOOLEAN

(* Whatever order the page's calls fail and the saves overlap in, a file   *)
(* has the records it had: none becomes another's, of another game or      *)
(* another category, even when the form still shows the record before.     *)
FilesKeepRecords ==
  \A f \in Files : \A p \in DOMAIN files[f] :
    /\ files[f][p].id = Seed[f][p].id /\ files[f][p].game = f[1]
    /\ DOMAIN files[f][p].details = DOMAIN Seed[f][p].details

(* When no two saves overlapped: a save that failed left every file as it  *)
(* was, and one that was verified is in its file and its shared fields in  *)
(* every category's.                                                       *)
SavedIsKept ==
  ~overlap /\ saves > 0 =>
    LET job == jobs[saves] IN
    /\ job.is = "failed" => files = before
    /\ job.is = "verified" =>
         /\ files[job.file][PlaceOf(job.file, job.id)] = job.item
         /\ \A f \in TransactionFiles(job.file[1]) :
              PlaceOf(f, job.id) # None => files[f][PlaceOf(f, job.id)].name = job.item.name

(* The merged catalogue has what was verified, too. *)
MergedHasSaved ==
  ~overlap /\ saves > 0 =>
    LET job == jobs[saves] IN
    job.is = "verified" /\ job.file[1] = "classic" =>
      /\ merged[job.id].name = job.item.name
      /\ merged[job.id].details[job.file[2]] = job.item.details[job.file[2]]

(* The review beside the form, which may replace the record in it, is of   *)
(* that record.                                                            *)
ReviewIsOfForm == aiReview # None => item # None /\ aiReview.id = item.id
=============================================================================
