--------------------------- MODULE DebugWorkflow ---------------------------
(***************************************************************************)
(* The recipes around debug data: a directory of Parquet files and the     *)
(* bucket of the local stack, which the seed generator, the recipes of the *)
(* justfile and webhooks change.  One recipe runs at a time; webhooks come *)
(* when they come.  What is in a file does not matter, but whether it is   *)
(* whole does: the query API reads all files or none.                      *)
(***************************************************************************)
EXTENDS Integers, FiniteSets

CONSTANTS
    SmokeId,       \* SMOKE_EVENT_IDS
    MaxShards,     \* the bound on files of one partition
    MaxDay,        \* the bound on days
    BulkDays,      \* the longest --days of the bulk preset
    MaxWebhooks,   \* the bound on webhooks
    MaxRecipes     \* the bound on recipes

\* Days are counted from the earliest that a seed can put events on: smoke goes back by two,
\* bulk by BulkDays - 1.
FirstDay == IF BulkDays > 3 THEN BulkDays - 1 ELSE 2

ASSUME WorkflowAssumption ==
    /\ MaxShards \in Nat \ {0} /\ BulkDays \in Nat \ {0}
    /\ MaxDay \in Nat /\ MaxDay >= FirstDay
    /\ MaxWebhooks \in Nat /\ MaxRecipes \in Nat

VARIABLES
    today,      \* the date in JST
    directory,  \* whether DEBUG_PARQUET_DIR/microcms_events exists
    local,      \* the files in it, by key
    bucket,     \* the objects in the bucket, by key
    recipe,     \* what runs, and how far it is
    webhooks,   \* webhooks stored so far
    recipes,    \* recipes started so far
    backup      \* webhook events that a recipe has persisted

store == <<directory, local, bucket>>
vars == <<today, store, recipe, webhooks, recipes, backup>>

Day == 0 .. MaxDay

SmokeKey == [origin : {"smoke"}, day : Day, name : SmokeId]

BulkKey == [origin : {"bulk"}, day : Day, name : 0 .. MaxShards - 1]

WebhookKey == [origin : {"webhook"}, day : Day, name : 1 .. MaxWebhooks]

Key == SmokeKey \cup BulkKey \cup WebhookKey

Kept(files) == {k \in Key : files[k] # "none"}

Kind == {"smoke", "bulk", "sync", "persist", "delete"}

Seeding == recipe.kind \in {"smoke", "bulk"}

\* files: what a seed generates.  todo, remove: keys left to write or copy, and to remove.
Recipe == [kind : Kind, step : {"prepare", "generate", "list", "transfer", "said"},
           files : SUBSET Key, todo : SUBSET Key, remove : SUBSET Key, failed : BOOLEAN]

Idle == [kind |-> "none"]

File == {"none", "whole", "broken"}

TypeOK ==
    /\ today \in FirstDay .. MaxDay
    /\ directory \in BOOLEAN
    /\ local \in [Key -> File]
    /\ bucket \in [Key -> File]
    /\ recipe \in Recipe \cup {Idle}
    /\ webhooks \in 0 .. MaxWebhooks
    /\ recipes \in 0 .. MaxRecipes
    /\ backup \subseteq WebhookKey

-----------------------------------------------------------------------------
(* Time, webhooks, the stack                                               *)

Midnight == /\ today < MaxDay
            /\ today' = today + 1
            /\ UNCHANGED <<store, recipe, webhooks, recipes, backup>>

(* The script of debug-webhook, or microCMS through the tunnel.            *)
Arrive == /\ webhooks < MaxWebhooks
          /\ webhooks' = webhooks + 1
          /\ bucket' = [bucket EXCEPT ![[origin |-> "webhook", day |-> today,
                                         name |-> webhooks + 1]] = "whole"]
          /\ UNCHANGED <<today, directory, local, recipe, recipes, backup>>

(* The containers of the stack keep nothing.                               *)
Down == /\ recipe = Idle
        /\ bucket' = [k \in Key |-> "none"]
        /\ UNCHANGED <<today, directory, local, recipe, webhooks, recipes, backup>>

-----------------------------------------------------------------------------
(* Generating                                                              *)

Run(kind, step, files) ==
    /\ recipe = Idle
    /\ recipes < MaxRecipes
    /\ recipes' = recipes + 1
    /\ recipe' = [kind |-> kind, step |-> step, files |-> files, todo |-> files,
                  remove |-> {}, failed |-> FALSE]
    /\ UNCHANGED <<today, store, webhooks, backup>>

EventDate(d) == d - 2

(* One file per event, with its id for a name.                             *)
SeedSmoke == Run("smoke", "prepare",
                 {[origin |-> "smoke", day |-> EventDate(today), name |-> i] : i \in SmokeId})

(* On the days that have events each partition is cut into shards.         *)
SeedBulk ==
    \E days \in SUBSET (today - BulkDays + 1 .. today) \ {{}} :
    \E shards \in [days -> 1 .. MaxShards] :
        Run("bulk", "prepare",
            UNION {{[origin |-> "bulk", day |-> d, name |-> s] : s \in 0 .. shards[d] - 1} : d \in days})

\* A variant that generates into what is there.
PrepareNothing == /\ recipe # Idle /\ recipe.step = "prepare"
                  /\ recipe' = [recipe EXCEPT !.step = "generate"]
                  /\ UNCHANGED <<today, store, webhooks, recipes, backup>>

Prepare == /\ recipe # Idle /\ recipe.step = "prepare"
           /\ directory' = FALSE
           /\ local' = [k \in Key |-> "none"]
           /\ recipe' = [recipe EXCEPT !.step = "generate"]
           /\ UNCHANGED <<today, bucket, webhooks, recipes, backup>>

(* remove_dir_all does not remove all.                                     *)
PrepareFails == /\ recipe # Idle /\ recipe.step = "prepare"
                /\ \E rest \in SUBSET Kept(local) :
                       local' = [k \in Key |-> IF k \in rest THEN local[k] ELSE "none"]
                /\ recipe' = Idle
                /\ UNCHANGED <<today, directory, bucket, webhooks, recipes, backup>>

WriteFile(k) == /\ recipe # Idle /\ recipe.step = "generate"
                /\ k \in recipe.todo
                /\ directory' = TRUE
                /\ local' = [local EXCEPT ![k] = "whole"]
                /\ recipe' = [recipe EXCEPT !.todo = @ \ {k},
                                            !.step = IF recipe.todo = {k} THEN "list" ELSE @]
                /\ UNCHANGED <<today, bucket, webhooks, recipes, backup>>

\* A variant in which the seed goes on after an error.
WriteFailsUnseen(k) == /\ recipe # Idle /\ recipe.step = "generate"
                       /\ k \in recipe.todo
                       /\ directory' = TRUE
                       /\ local' = [local EXCEPT ![k] = "broken"]
                       /\ recipe' = [recipe EXCEPT !.todo = @ \ {k},
                                                   !.step = IF recipe.todo = {k} THEN "list" ELSE @]
                       /\ UNCHANGED <<today, bucket, webhooks, recipes, backup>>

(* fs::write fails or is interrupted, and with it the recipe.              *)
WriteFails(k) == /\ recipe # Idle /\ recipe.step = "generate"
                 /\ k \in recipe.todo
                 /\ directory' = TRUE
                 /\ local' = [local EXCEPT ![k] = "broken"]
                 /\ recipe' = Idle
                 /\ UNCHANGED <<today, bucket, webhooks, recipes, backup>>

-----------------------------------------------------------------------------
(* Copying: aws s3 sync.  Its listing is one step: a webhook that arrives  *)
(* while it is read might as well have arrived before or after it.         *)

Sync == Run("sync", "list", {})

Persist == Run("persist", "list", {})

Transfer(todo, remove) ==
    /\ recipe' = [recipe EXCEPT !.step = "transfer", !.todo = todo, !.remove = remove]
    /\ UNCHANGED <<today, store, webhooks, recipes, backup>>

Upwards == recipe.kind \in {"smoke", "bulk", "sync"}

\* A variant without --delete.
ListLocalNoDelete == /\ recipe # Idle /\ recipe.step = "list" /\ Upwards
                     /\ directory
                     /\ Transfer(Kept(local), {})

ListLocal == /\ recipe # Idle /\ recipe.step = "list" /\ Upwards
             /\ directory
             /\ Transfer(Kept(local), Kept(bucket) \ Kept(local))

ListBucket == /\ recipe # Idle /\ recipe.step = "list" /\ recipe.kind = "persist"
              /\ Transfer(Kept(bucket), {})

(* There is no directory, no bucket or no connection.  The recipe goes on. *)
ListFails == /\ recipe # Idle /\ recipe.step = "list"
             /\ recipe' = [recipe EXCEPT !.step = "transfer", !.todo = {}, !.failed = TRUE]
             /\ UNCHANGED <<today, store, webhooks, recipes, backup>>

Copy(k) == /\ recipe # Idle /\ recipe.step = "transfer"
           /\ k \in recipe.todo
           /\ IF recipe.kind = "persist"
              THEN /\ local' = [local EXCEPT ![k] = bucket[k]]
                   /\ directory' = TRUE
                   /\ UNCHANGED bucket
              ELSE /\ bucket' = [bucket EXCEPT ![k] = local[k]]
                   /\ UNCHANGED <<local, directory>>
           /\ recipe' = [recipe EXCEPT !.todo = @ \ {k}]
           /\ UNCHANGED <<today, webhooks, recipes, backup>>

Remove(k) == /\ recipe # Idle /\ recipe.step = "transfer"
             /\ k \in recipe.remove
             /\ bucket' = [bucket EXCEPT ![k] = "none"]
             /\ recipe' = [recipe EXCEPT !.remove = @ \ {k}]
             /\ UNCHANGED <<today, directory, local, webhooks, recipes, backup>>

Skip(k) == /\ recipe # Idle /\ recipe.step = "transfer"
           /\ k \in recipe.todo \cup recipe.remove
           /\ recipe' = [recipe EXCEPT !.todo = @ \ {k}, !.remove = @ \ {k}, !.failed = TRUE]
           /\ UNCHANGED <<today, store, webhooks, recipes, backup>>

(* echo "Synced ..." or "Persisted ...", whatever aws returned.            *)
Say == /\ recipe # Idle /\ recipe.step = "transfer" /\ recipe.kind # "delete"
       /\ recipe.todo = {} /\ recipe.remove = {}
       /\ recipe' = [recipe EXCEPT !.step = "said"]
       /\ backup' = IF recipe.kind = "persist" /\ ~recipe.failed
                    THEN backup \cup (WebhookKey \cap Kept(local))
                    ELSE backup
       /\ UNCHANGED <<today, store, webhooks, recipes>>

End == /\ recipe # Idle /\ recipe.step = "said"
       /\ recipe' = Idle
       /\ UNCHANGED <<today, store, webhooks, recipes, backup>>

(* A recipe is interrupted, or one of its commands fails.                  *)
Abort == /\ recipe # Idle
         /\ recipe' = Idle
         /\ UNCHANGED <<today, store, webhooks, recipes, backup>>

-----------------------------------------------------------------------------
(* Deleting                                                                *)

Delete == Run("delete", "list", {})

DeleteBucket == /\ recipe # Idle /\ recipe.step = "list" /\ recipe.kind = "delete"
                /\ Transfer({}, Kept(bucket))

(* aws s3 rm may have failed.                                              *)
DeleteLocal == /\ recipe # Idle /\ recipe.step = "transfer" /\ recipe.kind = "delete"
               /\ recipe.remove = {}
               /\ directory' = FALSE
               /\ local' = [k \in Key |-> "none"]
               /\ backup' = {}
               /\ recipe' = [recipe EXCEPT !.step = "said"]
               /\ UNCHANGED <<today, bucket, webhooks, recipes>>

-----------------------------------------------------------------------------

Init == /\ today = FirstDay
        /\ directory = FALSE
        /\ local = [k \in Key |-> "none"]
        /\ bucket = [k \in Key |-> "none"]
        /\ recipe = Idle
        /\ webhooks = 0
        /\ recipes = 0
        /\ backup = {}

Next == \/ Midnight \/ Arrive \/ Down
        \/ SeedSmoke \/ SeedBulk \/ Prepare \/ PrepareFails
        \/ Sync \/ Persist \/ ListLocal \/ ListBucket \/ ListFails \/ Say \/ End \/ Abort
        \/ Delete \/ DeleteBucket \/ DeleteLocal
        \/ \E k \in Key : \/ WriteFile(k) \/ WriteFails(k)
                          \/ Copy(k) \/ Remove(k) \/ Skip(k)

Spec == Init /\ [][Next]_vars

-----------------------------------------------------------------------------
(* Properties                                                              *)

(***************************************************************************)
(* A sync that went well leaves the bucket as the directory is, but for    *)
(* webhooks; after a seed that is what it generated, whole, and nothing    *)
(* from earlier seeds that a metric would count twice (justfile:104-131,   *)
(* io.rs:11-20).                                                           *)
(***************************************************************************)
SyncedIsReplaced ==
    recipe # Idle /\ recipe.step = "said" /\ Upwards /\ ~recipe.failed =>
        /\ \A k \in Key \ WebhookKey : bucket[k] = local[k]
        /\ \A k \in WebhookKey : local[k] # "none" => bucket[k] = local[k]
        /\ Seeding => Kept(local) = recipe.files /\ \A k \in recipe.files : local[k] = "whole"

(* What a seed has written so far is all there is,                         *)
Seeded(done) == \A k \in Key : local[k] = IF k \in done THEN "whole" ELSE "none"

SeedInv ==
    recipe # Idle =>
        /\ recipe.step \in {"prepare", "generate"} => Seeding
        /\ Seeding => recipe.files \cap WebhookKey = {}
        /\ Seeding /\ recipe.step = "prepare" => recipe.todo = recipe.files
        /\ Seeding /\ recipe.step = "generate" =>
               recipe.todo \subseteq recipe.files /\ Seeded(recipe.files \ recipe.todo)
        /\ Seeding /\ recipe.step \in {"list", "transfer", "said"} => Seeded(recipe.files)

(* what has not failed to be copied or removed, and is not to be any more, *)
(* is alike on both sides,                                                 *)
CopyInv ==
    /\ recipe # Idle /\ recipe.step \in {"prepare", "generate", "list"} => recipe.remove = {}
    /\ recipe # Idle /\ Upwards /\ recipe.step \in {"transfer", "said"} =>
        /\ recipe.todo \subseteq Kept(local) /\ recipe.remove \cap Kept(local) = {}
        /\ recipe.step = "said" => recipe.todo = {} /\ recipe.remove = {}
        /\ ~recipe.failed =>
               /\ \A k \in Key \ WebhookKey :
                      k \notin recipe.todo \cup recipe.remove => bucket[k] = local[k]
               /\ \A k \in WebhookKey :
                      local[k] # "none" /\ k \notin recipe.todo => bucket[k] = local[k]

(* and a webhook that arrives is none that has been persisted.             *)
NameInv == \A k \in WebhookKey : local[k] # "none" \/ bucket[k] # "none" => k.name <= webhooks

(***************************************************************************)
(* Inductive: all this at every step of every recipe (justfile:104-160,    *)
(* io.rs:11-40).                                                           *)
(***************************************************************************)
IInv == TypeOK /\ SeedInv /\ CopyInv /\ NameInv

(***************************************************************************)
(* A seed uploads its own files and no others, each of them whole, also    *)
(* when an earlier recipe was interrupted while it wrote (io.rs:11-40,     *)
(* justfile:104-115).                                                      *)
(***************************************************************************)
SeedsUploadTheirFiles ==
    [][\A k \in Key : recipe # Idle /\ Seeding /\ bucket'[k] \notin {bucket[k], "none"} =>
           bucket'[k] = "whole" /\ (k \in recipe.files \/ k \in WebhookKey)]_vars

(***************************************************************************)
(* "Synced debug Parquet files to s3://..." is said of files that are      *)
(* there (justfile:131).                                                   *)
(***************************************************************************)
SaidIsSynced ==
    recipe # Idle /\ recipe.step = "said" /\ Upwards =>
        \A k \in Key : local[k] # "none" => bucket[k] = local[k]

(***************************************************************************)
(* To keep webhook data, persist it before a seed                          *)
(* (docs/local-debug.md:145): after a seed what was persisted is still     *)
(* somewhere, unless debug-parquet-delete has deleted it.                  *)
(***************************************************************************)
BackupSurvives ==
    recipe # Idle /\ recipe.step = "said" /\ Seeding /\ ~recipe.failed =>
        \A k \in backup : local[k] # "none" \/ bucket[k] # "none"

=============================================================================
