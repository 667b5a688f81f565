------------------------ MODULE DebugWorkflowProofs ------------------------
(***************************************************************************)
(* Proofs about DebugWorkflow, for any number of files, days, webhooks and *)
(* recipes.                                                                *)
(***************************************************************************)
EXTENDS DebugWorkflow, TLAPS

USE WorkflowAssumption

-----------------------------------------------------------------------------
(* Keys and recipes.                                                       *)

LEMMA KeysHaveOrigins ==
    ASSUME NEW k \in Key
    PROVE  k \in WebhookKey <=> k.origin = "webhook"
  BY DEF Key, SmokeKey, BulkKey, WebhookKey

(* No seed reaches back beyond day 0.                                      *)
LEMMA FirstDayReachesBack ==
    FirstDay \in Nat /\ FirstDay >= 2 /\ FirstDay >= BulkDays - 1 /\ FirstDay <= MaxDay
  BY DEF FirstDay

LEMMA ArrivingKey ==
    ASSUME today \in FirstDay .. MaxDay, webhooks \in 0 .. MaxWebhooks, webhooks < MaxWebhooks
    PROVE  /\ [origin |-> "webhook", day |-> today, name |-> webhooks + 1] \in WebhookKey
           /\ [origin |-> "webhook", day |-> today, name |-> webhooks + 1] \in Key
  BY FirstDayReachesBack DEF WebhookKey, Key, Day

LEMMA RecipesAreNotIdle ==
    ASSUME NEW r \in Recipe
    PROVE  r # Idle
  BY DEF Recipe, Idle, Kind

(* A new recipe has nothing behind it.                                     *)
LEMMA StartKeeps ==
    ASSUME IInv, NEW kind \in Kind, NEW step \in {"prepare", "list"},
           NEW files \in SUBSET Key,
           step = "prepare" <=> kind \in {"smoke", "bulk"},
           kind \in {"smoke", "bulk"} => files \cap WebhookKey = {},
           Run(kind, step, files)
    PROVE  IInv'
  <1> DEFINE r == [kind |-> kind, step |-> step, files |-> files, todo |-> files,
                   remove |-> {}, failed |-> FALSE]
  <1>1. /\ recipe' = r
        /\ today' = today /\ directory' = directory /\ local' = local /\ bucket' = bucket
        /\ webhooks' = webhooks /\ backup' = backup
        /\ recipes' \in 0 .. MaxRecipes
    BY DEF Run, store, IInv, TypeOK
  <1>2. r \in Recipe
    BY DEF Recipe
  <1>3. TypeOK'
    BY <1>1, <1>2 DEF IInv, TypeOK
  <1>4. SeedInv'
    BY <1>1 DEF SeedInv, Seeding, Seeded
  <1>5. CopyInv'
    BY <1>1 DEF CopyInv, Upwards
  <1>6. NameInv'
    BY <1>1 DEF IInv, NameInv
  <1>7. QED
    BY <1>3, <1>4, <1>5, <1>6 DEF IInv

(* Between recipes only types and names matter.                            *)
LEMMA IdleKeeps ==
    ASSUME TypeOK', NameInv', recipe' = Idle
    PROVE  IInv'
  BY DEF IInv, SeedInv, CopyInv

-----------------------------------------------------------------------------
(* The invariant.                                                          *)

LEMMA InitInv ==
    ASSUME Init
    PROVE  IInv
  <1>1. FirstDay \in FirstDay .. MaxDay /\ 0 \in 0 .. MaxWebhooks /\ 0 \in 0 .. MaxRecipes
    BY FirstDayReachesBack
  <1>2. TypeOK
    BY <1>1 DEF Init, TypeOK, File
  <1>3. SeedInv /\ CopyInv
    BY DEF Init, SeedInv, CopyInv
  <1>4. NameInv
    BY DEF Init, NameInv, Key
  <1>5. QED
    BY <1>2, <1>3, <1>4 DEF IInv

LEMMA MidnightKeeps ==
    ASSUME IInv, Midnight
    PROVE  IInv'
  BY FirstDayReachesBack DEF Midnight, store, IInv, TypeOK, SeedInv, Seeding, Seeded, CopyInv, Upwards, Kept, NameInv

LEMMA ArriveKeeps ==
    ASSUME IInv, Arrive
    PROVE  IInv'
  <1> DEFINE new == [origin |-> "webhook", day |-> today, name |-> webhooks + 1]
  <1>1. new \in WebhookKey /\ new \in Key
    BY ArrivingKey DEF IInv, TypeOK, Arrive
  <1>2. /\ bucket' = [bucket EXCEPT ![new] = "whole"]
        /\ webhooks' = webhooks + 1
        /\ today' = today /\ directory' = directory /\ local' = local
        /\ recipe' = recipe /\ recipes' = recipes /\ backup' = backup
        /\ webhooks < MaxWebhooks
    BY DEF Arrive
  <1>3. local[new] = "none"
    BY <1>1 DEF IInv, NameInv, TypeOK
  <1>4. \A k \in Key \ {new} : bucket'[k] = bucket[k]
    BY <1>2 DEF IInv, TypeOK
  <1>5. TypeOK'
    <2>1. webhooks' \in 0 .. MaxWebhooks
      BY <1>2 DEF IInv, TypeOK
    <2>2. bucket' \in [Key -> File]
      BY <1>2 DEF IInv, TypeOK, File
    <2>3. QED
      BY <1>2, <2>1, <2>2 DEF IInv, TypeOK
  <1>6. SeedInv'
    BY <1>2 DEF IInv, SeedInv, Seeding, Seeded
  <1>7. CopyInv'
    <2> HIDE DEF new
    <2>1. \A k \in Key \ WebhookKey : bucket'[k] = bucket[k]
      BY <1>1, <1>4
    <2>2. \A k \in WebhookKey : local[k] # "none" => bucket'[k] = bucket[k]
      BY <1>3, <1>4 DEF Key
    <2>3. QED
      BY <1>2, <2>1, <2>2 DEF IInv, CopyInv, Upwards, Kept
  <1>8. NameInv'
    <2>1. \A k \in WebhookKey : k.name \in Int /\ k \in Key
      BY DEF WebhookKey, Key
    <2>2. QED
      BY <1>2, <1>4, <2>1 DEF IInv, NameInv, TypeOK
  <1>9. QED
    BY <1>5, <1>6, <1>7, <1>8 DEF IInv

LEMMA DownKeeps ==
    ASSUME IInv, Down
    PROVE  IInv'
  <1>1. TypeOK'
    BY DEF Down, IInv, TypeOK, File
  <1>2. NameInv'
    BY DEF Down, IInv, NameInv, Key
  <1>3. QED
    BY <1>1, <1>2, IdleKeeps DEF Down

LEMMA SeedSmokeKeeps ==
    ASSUME IInv, SeedSmoke
    PROVE  IInv'
  <1> DEFINE files == {[origin |-> "smoke", day |-> EventDate(today), name |-> i] : i \in SmokeId}
  <1>1. EventDate(today) \in Day
    BY FirstDayReachesBack DEF EventDate, Day, IInv, TypeOK
  <1>2. files \in SUBSET Key
    BY <1>1 DEF Key, SmokeKey
  <1>3. files \cap WebhookKey = {}
    BY DEF WebhookKey
  <1>4. Run("smoke", "prepare", files)
    BY DEF SeedSmoke
  <1> HIDE DEF files
  <1>5. QED
    BY <1>2, <1>3, <1>4, StartKeeps DEF Kind

LEMMA SeedBulkKeeps ==
    ASSUME IInv, SeedBulk
    PROVE  IInv'
  <1>1. PICK days \in SUBSET (today - BulkDays + 1 .. today) \ {{}} :
             \E shards \in [days -> 1 .. MaxShards] :
                 Run("bulk", "prepare",
                     UNION {{[origin |-> "bulk", day |-> d, name |-> s] : s \in 0 .. shards[d] - 1} :
                               d \in days})
    BY DEF SeedBulk
  <1>2. PICK shards \in [days -> 1 .. MaxShards] :
                 Run("bulk", "prepare",
                     UNION {{[origin |-> "bulk", day |-> d, name |-> s] : s \in 0 .. shards[d] - 1} :
                               d \in days})
    BY <1>1
  <1> DEFINE shard(d) == {[origin |-> "bulk", day |-> d, name |-> s] : s \in 0 .. shards[d] - 1}
             files == UNION {shard(d) : d \in days}
  <1>3. \A d \in days : d \in Day
    BY FirstDayReachesBack DEF Day, IInv, TypeOK
  <1>4. \A d \in days : shard(d) \subseteq BulkKey
    BY <1>3 DEF BulkKey
  <1>5. files \in SUBSET BulkKey
    <2> HIDE DEF shard
    <2>1. QED
      BY <1>4
  <1>6. files \in SUBSET Key /\ files \cap WebhookKey = {}
    <2> HIDE DEF files
    <2>1. BulkKey \subseteq Key /\ BulkKey \cap WebhookKey = {}
      BY DEF Key, BulkKey, WebhookKey
    <2>2. QED
      BY <1>5, <2>1
  <1>7. Run("bulk", "prepare", files)
    BY <1>2
  <1> HIDE DEF files
  <1>8. QED
    BY <1>6, <1>7, StartKeeps DEF Kind

LEMMA PrepareKeeps ==
    ASSUME IInv, Prepare
    PROVE  IInv'
  <1>1. /\ recipe \in Recipe /\ recipe # Idle /\ recipe.step = "prepare"
        /\ recipe' = [recipe EXCEPT !.step = "generate"]
        /\ local' = [k \in Key |-> "none"]
        /\ directory' = FALSE
        /\ today' = today /\ bucket' = bucket /\ webhooks' = webhooks
        /\ recipes' = recipes /\ backup' = backup
    BY DEF Prepare, IInv, TypeOK
  <1>2. /\ recipe' \in Recipe
        /\ recipe'.kind = recipe.kind /\ recipe'.files = recipe.files
        /\ recipe'.todo = recipe.todo /\ recipe'.remove = recipe.remove
        /\ recipe'.step = "generate"
    BY <1>1 DEF Recipe
  <1>3. TypeOK'
    BY <1>1, <1>2 DEF IInv, TypeOK, File
  <1>4. SeedInv'
    BY <1>1, <1>2 DEF IInv, SeedInv, Seeding, Seeded
  <1>5. CopyInv'
    BY <1>1, <1>2 DEF IInv, CopyInv
  <1>6. NameInv'
    BY <1>1 DEF IInv, NameInv, Key
  <1>7. QED
    BY <1>3, <1>4, <1>5, <1>6 DEF IInv

LEMMA PrepareFailsKeeps ==
    ASSUME IInv, PrepareFails
    PROVE  IInv'
  <1>1. PICK rest \in SUBSET Kept(local) :
             local' = [k \in Key |-> IF k \in rest THEN local[k] ELSE "none"]
    BY DEF PrepareFails
  <1>2. TypeOK'
    BY <1>1 DEF PrepareFails, IInv, TypeOK, File
  <1>3. NameInv'
    BY <1>1 DEF PrepareFails, IInv, NameInv, Key
  <1>4. QED
    BY <1>2, <1>3, IdleKeeps DEF PrepareFails

LEMMA WriteFileKeeps ==
    ASSUME IInv, NEW f \in Key, WriteFile(f)
    PROVE  IInv'
  <1>1. /\ recipe \in Recipe /\ recipe # Idle /\ recipe.step = "generate" /\ f \in recipe.todo
        /\ local' = [local EXCEPT ![f] = "whole"]
        /\ directory' = TRUE
        /\ today' = today /\ bucket' = bucket /\ webhooks' = webhooks
        /\ recipes' = recipes /\ backup' = backup
    BY DEF WriteFile, IInv, TypeOK
  <1>2. /\ recipe' \in Recipe
        /\ recipe'.kind = recipe.kind /\ recipe'.files = recipe.files
        /\ recipe'.todo = recipe.todo \ {f} /\ recipe'.remove = recipe.remove
        /\ recipe'.step = IF recipe.todo = {f} THEN "list" ELSE "generate"
    BY <1>1 DEF WriteFile, Recipe
  <1>3. TypeOK'
    BY <1>1, <1>2 DEF IInv, TypeOK, File
  <1>4. /\ Seeding /\ recipe.files \cap WebhookKey = {} /\ recipe.todo \subseteq recipe.files
        /\ Seeded(recipe.files \ recipe.todo)
    BY <1>1 DEF IInv, SeedInv
  <1>5. \A k \in Key : local'[k] = IF k \in recipe.files \ recipe'.todo THEN "whole" ELSE "none"
    BY <1>1, <1>2, <1>4 DEF IInv, TypeOK, Seeded
  <1>6. SeedInv'
    BY <1>2, <1>4, <1>5 DEF SeedInv, Seeding, Seeded
  <1>7. CopyInv'
    BY <1>1, <1>2 DEF IInv, CopyInv
  <1>8. NameInv'
    <2>1. f \notin WebhookKey
      BY <1>1, <1>4
    <2>2. QED
      BY <1>1, <2>1 DEF IInv, NameInv, TypeOK
  <1>9. QED
    BY <1>3, <1>6, <1>7, <1>8 DEF IInv

LEMMA WriteFailsKeeps ==
    ASSUME IInv, NEW f \in Key, WriteFails(f)
    PROVE  IInv'
  <1>1. f \notin WebhookKey
    BY DEF WriteFails, IInv, SeedInv
  <1>2. TypeOK'
    BY DEF WriteFails, IInv, TypeOK, File
  <1>3. NameInv'
    BY <1>1 DEF WriteFails, IInv, NameInv, TypeOK
  <1>4. QED
    BY <1>2, <1>3, IdleKeeps DEF WriteFails

(* A sync knows what it has to do, ...                                     *)
LEMMA TransferKeeps ==
    ASSUME IInv, recipe # Idle, recipe.step = "list",
           NEW todo \in SUBSET Key, NEW remove \in SUBSET Key,
           Upwards => todo = Kept(local) /\ remove = Kept(bucket) \ Kept(local),
           Transfer(todo, remove)
    PROVE  IInv'
  <1>1. /\ recipe \in Recipe
        /\ recipe' = [recipe EXCEPT !.step = "transfer", !.todo = todo, !.remove = remove]
        /\ today' = today /\ directory' = directory /\ local' = local /\ bucket' = bucket
        /\ webhooks' = webhooks /\ recipes' = recipes /\ backup' = backup
    BY DEF Transfer, store, IInv, TypeOK
  <1>2. /\ recipe' \in Recipe
        /\ recipe'.kind = recipe.kind /\ recipe'.files = recipe.files
        /\ recipe'.todo = todo /\ recipe'.remove = remove
        /\ recipe'.step = "transfer"
    BY <1>1 DEF Recipe
  <1>3. TypeOK'
    BY <1>1, <1>2 DEF IInv, TypeOK
  <1>4. SeedInv'
    BY <1>1, <1>2 DEF IInv, SeedInv, Seeding, Seeded
  <1>5. CopyInv'
    <2> SUFFICES ASSUME Upwards
                 PROVE  CopyInv'
      BY <1>1, <1>2 DEF CopyInv, Upwards
    <2>1. todo = Kept(local) /\ remove = Kept(bucket) \ Kept(local)
      OBVIOUS
    <2>2. \A k \in Key : k \notin todo \cup remove => bucket[k] = local[k]
      BY <2>1 DEF Kept
    <2>3. \A k \in WebhookKey : local[k] # "none" => k \in todo
      BY <2>1 DEF Kept, Key
    <2>4. QED
      BY <1>1, <1>2, <2>1, <2>2, <2>3 DEF CopyInv, Kept
  <1>6. NameInv'
    BY <1>1 DEF IInv, NameInv
  <1>7. QED
    BY <1>3, <1>4, <1>5, <1>6 DEF IInv

(* ... or does nothing.                                                    *)
LEMMA ListFailsKeeps ==
    ASSUME IInv, ListFails
    PROVE  IInv'
  <1>1. /\ recipe \in Recipe /\ recipe # Idle /\ recipe.step = "list"
        /\ recipe' = [recipe EXCEPT !.step = "transfer", !.todo = {}, !.failed = TRUE]
        /\ today' = today /\ directory' = directory /\ local' = local /\ bucket' = bucket
        /\ webhooks' = webhooks /\ recipes' = recipes /\ backup' = backup
    BY DEF ListFails, store, IInv, TypeOK
  <1>2. /\ recipe' \in Recipe
        /\ recipe'.kind = recipe.kind /\ recipe'.files = recipe.files
        /\ recipe'.todo = {} /\ recipe'.remove = recipe.remove
        /\ recipe'.step = "transfer" /\ recipe'.failed
    BY <1>1 DEF Recipe
  <1>3. TypeOK'
    BY <1>1, <1>2 DEF IInv, TypeOK
  <1>4. SeedInv'
    BY <1>1, <1>2 DEF IInv, SeedInv, Seeding, Seeded
  <1>5. CopyInv'
    BY <1>1, <1>2 DEF IInv, CopyInv
  <1>6. NameInv'
    BY <1>1 DEF IInv, NameInv
  <1>7. QED
    BY <1>3, <1>4, <1>5, <1>6 DEF IInv

LEMMA CopyKeeps ==
    ASSUME IInv, NEW f \in Key, Copy(f)
    PROVE  IInv'
  <1>1. /\ recipe \in Recipe /\ recipe # Idle /\ recipe.step = "transfer" /\ f \in recipe.todo
        /\ recipe' = [recipe EXCEPT !.todo = @ \ {f}]
        /\ today' = today /\ webhooks' = webhooks /\ recipes' = recipes /\ backup' = backup
    BY DEF Copy, IInv, TypeOK
  <1>2. /\ recipe' \in Recipe
        /\ recipe'.kind = recipe.kind /\ recipe'.files = recipe.files
        /\ recipe'.todo = recipe.todo \ {f} /\ recipe'.remove = recipe.remove
        /\ recipe'.step = "transfer" /\ recipe'.failed = recipe.failed
    BY <1>1 DEF Recipe
  <1>3. CASE recipe.kind = "persist"
    <2>1. local' = [local EXCEPT ![f] = bucket[f]] /\ directory' = TRUE /\ bucket' = bucket
      BY <1>3 DEF Copy
    <2>2. TypeOK'
      BY <1>1, <1>2, <2>1 DEF IInv, TypeOK
    <2>3. SeedInv' /\ CopyInv'
      BY <1>2, <1>3 DEF SeedInv, Seeding, CopyInv, Upwards
    <2>4. NameInv'
      BY <1>1, <2>1 DEF IInv, NameInv, TypeOK
    <2>5. QED
      BY <2>2, <2>3, <2>4 DEF IInv
  <1>4. CASE recipe.kind # "persist"
    <2>1. bucket' = [bucket EXCEPT ![f] = local[f]] /\ local' = local /\ directory' = directory
      BY <1>4 DEF Copy
    <2>2. TypeOK'
      BY <1>1, <1>2, <2>1 DEF IInv, TypeOK
    <2>3. SeedInv'
      BY <1>1, <1>2, <2>1 DEF IInv, SeedInv, Seeding, Seeded
    <2>4. CopyInv'
      BY <1>1, <1>2, <2>1 DEF IInv, CopyInv, Upwards, Kept, TypeOK, Key
    <2>5. NameInv'
      BY <1>1, <2>1 DEF IInv, NameInv, TypeOK
    <2>6. QED
      BY <2>2, <2>3, <2>4, <2>5 DEF IInv
  <1>5. QED
    BY <1>3, <1>4

LEMMA RemoveKeeps ==
    ASSUME IInv, NEW f \in Key, Remove(f)
    PROVE  IInv'
  <1>1. /\ recipe \in Recipe /\ recipe # Idle /\ recipe.step = "transfer" /\ f \in recipe.remove
        /\ recipe' = [recipe EXCEPT !.remove = @ \ {f}]
        /\ bucket' = [bucket EXCEPT ![f] = "none"]
        /\ today' = today /\ directory' = directory /\ local' = local
        /\ webhooks' = webhooks /\ recipes' = recipes /\ backup' = backup
    BY DEF Remove, IInv, TypeOK
  <1>2. /\ recipe' \in Recipe
        /\ recipe'.kind = recipe.kind /\ recipe'.files = recipe.files
        /\ recipe'.todo = recipe.todo /\ recipe'.remove = recipe.remove \ {f}
        /\ recipe'.step = "transfer" /\ recipe'.failed = recipe.failed
    BY <1>1 DEF Recipe
  <1>3. TypeOK'
    BY <1>1, <1>2 DEF IInv, TypeOK, File
  <1>4. SeedInv'
    BY <1>1, <1>2 DEF IInv, SeedInv, Seeding, Seeded
  <1>5. CopyInv'
    BY <1>1, <1>2 DEF IInv, CopyInv, Upwards, Kept, TypeOK, Key
  <1>6. NameInv'
    BY <1>1 DEF IInv, NameInv, TypeOK
  <1>7. QED
    BY <1>3, <1>4, <1>5, <1>6 DEF IInv

LEMMA SkipKeeps ==
    ASSUME IInv, NEW f \in Key, Skip(f)
    PROVE  IInv'
  <1>1. /\ recipe \in Recipe /\ recipe # Idle /\ recipe.step = "transfer"
        /\ recipe' = [recipe EXCEPT !.todo = @ \ {f}, !.remove = @ \ {f}, !.failed = TRUE]
        /\ today' = today /\ directory' = directory /\ local' = local /\ bucket' = bucket
        /\ webhooks' = webhooks /\ recipes' = recipes /\ backup' = backup
    BY DEF Skip, store, IInv, TypeOK
  <1>2. /\ recipe' \in Recipe
        /\ recipe'.kind = recipe.kind /\ recipe'.files = recipe.files
        /\ recipe'.todo = recipe.todo \ {f} /\ recipe'.remove = recipe.remove \ {f}
        /\ recipe'.step = "transfer" /\ recipe'.failed
    BY <1>1 DEF Recipe
  <1>3. TypeOK'
    BY <1>1, <1>2 DEF IInv, TypeOK
  <1>4. SeedInv'
    BY <1>1, <1>2 DEF IInv, SeedInv, Seeding, Seeded
  <1>5. CopyInv'
    BY <1>1, <1>2 DEF IInv, CopyInv, Upwards, Kept
  <1>6. NameInv'
    BY <1>1 DEF IInv, NameInv
  <1>7. QED
    BY <1>3, <1>4, <1>5, <1>6 DEF IInv

LEMMA SayKeeps ==
    ASSUME IInv, Say
    PROVE  IInv'
  <1>1. /\ recipe \in Recipe /\ recipe # Idle /\ recipe.step = "transfer"
        /\ recipe.todo = {} /\ recipe.remove = {}
        /\ recipe' = [recipe EXCEPT !.step = "said"]
        /\ today' = today /\ directory' = directory /\ local' = local /\ bucket' = bucket
        /\ webhooks' = webhooks /\ recipes' = recipes
    BY DEF Say, store, IInv, TypeOK
  <1>2. /\ recipe' \in Recipe
        /\ recipe'.kind = recipe.kind /\ recipe'.files = recipe.files
        /\ recipe'.todo = {} /\ recipe'.remove = {}
        /\ recipe'.step = "said" /\ recipe'.failed = recipe.failed
    BY <1>1 DEF Recipe
  <1>3. TypeOK'
    <2>1. backup' \subseteq WebhookKey
      BY DEF Say, IInv, TypeOK
    <2>2. QED
      BY <1>1, <1>2, <2>1 DEF IInv, TypeOK
  <1>4. SeedInv'
    BY <1>1, <1>2 DEF IInv, SeedInv, Seeding, Seeded
  <1>5. CopyInv'
    BY <1>1, <1>2 DEF IInv, CopyInv, Upwards, Kept
  <1>6. NameInv'
    BY <1>1 DEF IInv, NameInv
  <1>7. QED
    BY <1>3, <1>4, <1>5, <1>6 DEF IInv

LEMMA EndOrAbortKeeps ==
    ASSUME IInv, End \/ Abort
    PROVE  IInv'
  <1>1. TypeOK' /\ NameInv'
    BY DEF End, Abort, store, IInv, TypeOK, NameInv
  <1>2. QED
    BY <1>1, IdleKeeps DEF End, Abort

LEMMA DeleteLocalKeeps ==
    ASSUME IInv, DeleteLocal
    PROVE  IInv'
  <1>1. /\ recipe \in Recipe /\ recipe # Idle /\ recipe.step = "transfer" /\ recipe.kind = "delete"
        /\ recipe' = [recipe EXCEPT !.step = "said"]
        /\ directory' = FALSE /\ local' = [k \in Key |-> "none"] /\ backup' = {}
        /\ today' = today /\ bucket' = bucket /\ webhooks' = webhooks /\ recipes' = recipes
    BY DEF DeleteLocal, IInv, TypeOK
  <1>2. recipe' \in Recipe /\ recipe'.kind = "delete" /\ recipe'.step = "said"
    BY <1>1 DEF Recipe
  <1>3. TypeOK'
    BY <1>1, <1>2 DEF IInv, TypeOK, File
  <1>4. SeedInv' /\ CopyInv'
    BY <1>2 DEF SeedInv, Seeding, CopyInv, Upwards
  <1>5. NameInv'
    BY <1>1 DEF IInv, NameInv, Key
  <1>6. QED
    BY <1>3, <1>4, <1>5 DEF IInv

LEMMA NextInv ==
    ASSUME IInv, [Next]_vars
    PROVE  IInv'
  <1>1. CASE UNCHANGED vars
    BY <1>1 DEF vars, store, IInv, TypeOK, SeedInv, Seeding, Seeded, CopyInv, Upwards, Kept, NameInv
  <1>2. CASE Midnight
    BY <1>2, MidnightKeeps
  <1>3. CASE Arrive
    BY <1>3, ArriveKeeps
  <1>4. CASE Down
    BY <1>4, DownKeeps
  <1>5. CASE SeedSmoke \/ SeedBulk
    BY <1>5, SeedSmokeKeeps, SeedBulkKeeps
  <1>6. CASE Sync \/ Persist \/ Delete
    <2>1. {} \in SUBSET Key
      OBVIOUS
    <2>2. QED
      BY <1>6, <2>1, StartKeeps DEF Sync, Persist, Delete, Kind
  <1>7. CASE Prepare \/ PrepareFails
    BY <1>7, PrepareKeeps, PrepareFailsKeeps
  <1>8. CASE ListLocal
    BY <1>8, TransferKeeps DEF ListLocal, Kept
  <1>9. CASE ListBucket \/ DeleteBucket
    BY <1>9, TransferKeeps DEF ListBucket, DeleteBucket, Kept, Upwards
  <1>10. CASE ListFails
    BY <1>10, ListFailsKeeps
  <1>11. CASE Say
    BY <1>11, SayKeeps
  <1>12. CASE End \/ Abort
    BY <1>12, EndOrAbortKeeps
  <1>13. CASE DeleteLocal
    BY <1>13, DeleteLocalKeeps
  <1>14. CASE \E k \in Key : WriteFile(k) \/ WriteFails(k) \/ Copy(k) \/ Remove(k) \/ Skip(k)
    BY <1>14, WriteFileKeeps, WriteFailsKeeps, CopyKeeps, RemoveKeeps, SkipKeeps
  <1>15. QED
    BY <1>1, <1>2, <1>3, <1>4, <1>5, <1>6, <1>7, <1>8, <1>9, <1>10, <1>11, <1>12, <1>13, <1>14
       DEF Next

(***************************************************************************)
(* IInv holds in every state: what a seed has written so far is all there  *)
(* is, and what was to be copied without an error is alike on both sides.  *)
(***************************************************************************)
THEOREM Invariant == Spec => []IInv
  BY InitInv, NextInv, PTL DEF Spec

(***************************************************************************)
(* A sync that went well leaves the bucket as the directory is, but for    *)
(* webhooks, and a seed leaves what it generated: SyncedIsReplaced.        *)
(***************************************************************************)
THEOREM Replaces == Spec => []SyncedIsReplaced
  <1>1. IInv => SyncedIsReplaced
    <2> SUFFICES ASSUME IInv, recipe # Idle, recipe.step = "said", Upwards, ~recipe.failed
                 PROVE  /\ \A k \in Key \ WebhookKey : bucket[k] = local[k]
                        /\ \A k \in WebhookKey : local[k] # "none" => bucket[k] = local[k]
                        /\ Seeding => /\ Kept(local) = recipe.files
                                      /\ \A k \in recipe.files : local[k] = "whole"
      BY DEF SyncedIsReplaced
    <2>1. /\ \A k \in Key \ WebhookKey : bucket[k] = local[k]
          /\ \A k \in WebhookKey : local[k] # "none" => bucket[k] = local[k]
      BY DEF IInv, CopyInv
    <2>2. ASSUME Seeding
          PROVE  Kept(local) = recipe.files /\ \A k \in recipe.files : local[k] = "whole"
      <3>1. Seeded(recipe.files) /\ recipe.files \subseteq Key
        BY <2>2 DEF IInv, SeedInv, TypeOK, Recipe
      <3>2. QED
        BY <3>1 DEF Seeded, Kept
    <2>3. QED
      BY <2>1, <2>2
  <1>2. QED
    BY <1>1, Invariant, PTL

(***************************************************************************)
(* While a seed runs only webhooks and whole files of this seed appear in  *)
(* the bucket: SeedsUploadTheirFiles.                                      *)
(***************************************************************************)
THEOREM UploadsItsOwn == Spec => SeedsUploadTheirFiles
  <1> DEFINE Own == \A k \in Key : recipe # Idle /\ Seeding /\ bucket'[k] \notin {bucket[k], "none"} =>
                        bucket'[k] = "whole" /\ (k \in recipe.files \/ k \in WebhookKey)
  <1>1. IInv /\ [Next]_vars => [Own]_vars
    <2> SUFFICES ASSUME IInv, Next, recipe # Idle, Seeding, NEW k \in Key,
                        bucket'[k] \notin {bucket[k], "none"}
                 PROVE  bucket'[k] = "whole" /\ (k \in recipe.files \/ k \in WebhookKey)
      OBVIOUS
    <2>1. CASE Arrive
      <3>1. [origin |-> "webhook", day |-> today, name |-> webhooks + 1] \in WebhookKey
        BY <2>1, ArrivingKey DEF Arrive, IInv, TypeOK
      <3>2. QED
        BY <2>1, <3>1 DEF Arrive, IInv, TypeOK
    <2>2. ASSUME NEW f \in Key, Copy(f)
          PROVE  bucket'[k] = "whole" /\ (k \in recipe.files \/ k \in WebhookKey)
      <3>1. recipe.step = "transfer" /\ Seeded(recipe.files)
        BY <2>2 DEF Copy, IInv, SeedInv
      <3>2. local[f] # "none"
        BY <2>2 DEF Copy, IInv, CopyInv, Upwards, Seeding, Kept
      <3>3. bucket' = [bucket EXCEPT ![f] = local[f]]
        BY <2>2 DEF Copy, Seeding
      <3>4. k = f
        BY <3>3 DEF IInv, TypeOK
      <3>5. QED
        BY <3>1, <3>2, <3>3, <3>4 DEF IInv, TypeOK, Seeded
    <2>3. ASSUME NEW f \in Key, Remove(f)
          PROVE  FALSE
      BY <2>3 DEF Remove, IInv, TypeOK
    <2>4. CASE ~Arrive /\ (\A f \in Key : ~Copy(f) /\ ~Remove(f))
      <3>1. bucket' = bucket
        BY <2>4 DEF Next, Midnight, Down, SeedSmoke, SeedBulk, Prepare, PrepareFails, Sync, Persist,
                    ListLocal, ListBucket, ListFails, Say, End, Abort, Delete, DeleteBucket,
                    DeleteLocal, WriteFile, WriteFails, Skip, Run, Transfer, store
      <3>2. QED
        BY <3>1
    <2>5. QED
      BY <2>1, <2>2, <2>3, <2>4
  <1>2. QED
    BY <1>1, Invariant, PTL DEF Spec, SeedsUploadTheirFiles

=============================================================================
