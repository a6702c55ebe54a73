------------------------------ MODULE CagCache ------------------------------
(***************************************************************************)
(* The CAG cache of one tenant: prepared documents, durable in S3, copied  *)
(* to Redis for the chat pipeline.  Three kinds of jobs share it, a step   *)
(* per S3 or Redis call, so they interleave: a question reads every        *)
(* document cache-aside (select_context), an ingest uploads one and writes *)
(* it through, a reload clears the tenant and loads it anew.  Any call may *)
(* fail, and every Redis error is swallowed.                               *)
(*                                                                         *)
(* A document's content is its version, 0 where there is none: the uploads *)
(* of a document are numbered.                                             *)
(***************************************************************************)
EXTENDS Naturals, FiniteSets, FiniteSetsExt

CONSTANTS
  Jobs,         \* requests in progress at a time
  Docs,         \* the document names, numbered in the order S3 lists them
  MaxUploads,   \* bound on the uploads of all documents, the initial ones included
  MaxFailures   \* bound on failed calls and restarts of Redis

ASSUME DocsAssumption == Docs \subseteq Nat
ASSUME BoundAssumption == MaxUploads \in Nat /\ MaxFailures \in Nat

VARIABLES
  s3,        \* clients/{brand}/cag/{doc}.md
  latest,    \* each document: the number of its last upload
  cache,     \* tenant:{brand}:cag:{doc}
  index,     \* tenant:{brand}:cag:__index__
  task,      \* each job: what it is
  pc,        \* each job: its next call
  todo,      \* each job: the documents it still has to handle
  held,      \* each job: the content it read or uploaded, about to be cached
  ids,       \* each reload: the document names clear_tenant read
  got,       \* each question: the contents it has
  failures,  \* failed calls and restarts so far
  \* History, for the properties only:
  acked,     \* each document: the newest version whose ingest has returned
  floor,     \* each question: acked, when it began
  there,     \* each job: documents readable in S3 ever since it began
  gone,      \* each job: documents not in S3 ever since it began
  alone,     \* each job: nothing else happened since it began
  raced,     \* documents uploaded while a job held an older content of theirs
  missed     \* documents whose ingest could not write to Redis

store == <<s3, latest>>
redis == <<cache, index>>
job == <<task, pc, todo, held, ids, got>>
history == <<acked, floor, there, gone, alone, raced, missed>>

vars == <<store, redis, job, failures, history>>

----------------------------------------------------------------------------
Version == Nat
Calls == {"get", "load", "set", "index", "clear", "unkey", "unindex"}

Nothing == [d \in Docs |-> 0]

\* The documents S3 lists.
\* (Mutation: the ones the index in Redis names.)
Indexed == index
Listed == {d \in Docs : s3[d] # 0}

\* Documents are handled in the order of the listing.
Current(j, d) == d \in todo[j] /\ \A e \in todo[j] : d <= e

\* A job is about to write its content of a document to Redis.
Holds(j, d) == pc[j] = "set" /\ Current(j, d)

Goto(j, step) == pc' = [pc EXCEPT ![j] = step]

Init ==
  /\ s3 \in [Docs -> {0, 1}]
  /\ latest = s3
  /\ cache = Nothing
  /\ index = {}
  /\ task = [j \in Jobs |-> "none"]
  /\ pc = [j \in Jobs |-> "idle"]
  /\ todo = [j \in Jobs |-> {}]
  /\ held = [j \in Jobs |-> 0]
  /\ ids = [j \in Jobs |-> {}]
  /\ got = [j \in Jobs |-> Nothing]
  /\ failures = 0
  /\ acked = Nothing
  /\ floor = [j \in Jobs |-> Nothing]
  /\ there = [j \in Jobs |-> {}]
  /\ gone = [j \in Jobs |-> {}]
  /\ alone = [j \in Jobs |-> FALSE]
  /\ raced = {}
  /\ missed = {}

----------------------------------------------------------------------------
(* Jobs begin *)

FirstCall(kind) == IF kind = "question" THEN "get" ELSE "load"

\* What a new job knows of the world.
Begin(j, kind) ==
  /\ pc[j] = "idle"
  /\ task' = [task EXCEPT ![j] = kind]
  /\ floor' = [floor EXCEPT ![j] = acked]
  /\ alone' = [i \in Jobs |-> i = j /\ \A k \in Jobs \ {j} : pc[k] = "idle"]

BeginListing(j, kind, start) ==
  /\ Begin(j, kind)
  /\ todo' = [todo EXCEPT ![j] = Listed]
  /\ there' = [there EXCEPT ![j] = {d \in Docs : s3[d] # 0}]
  /\ gone' = [gone EXCEPT ![j] = {d \in Docs : s3[d] = 0}]
  /\ Goto(j, IF Listed = {} THEN "over" ELSE start)
  /\ UNCHANGED <<store, redis, held, ids, got, failures, acked, raced, missed>>

\* get_all_docs_cache_aside: S3 says which documents there are.
Ask(j) == BeginListing(j, "question", FirstCall("question"))

\* warm_load_tenant: a tenant with no document in S3 is left as it is.
\* (Mutation: what is cached is kept.)
NotCleared == FirstCall("reload")
ReloadStart == "clear"

Reload(j) == BeginListing(j, "reload", ReloadStart)

\* cag_ingest: the upload, then set_doc with the content at hand.
\* (Mutation: the cached content is not refreshed.)
NotRefreshed == "over"
AfterUpload == "set"

UploadsLeft == MapThenSumSet(LAMBDA d : latest[d], Docs) < MaxUploads

Ingest(j, d) ==
  /\ pc[j] = "idle"
  /\ UploadsLeft
  /\ task' = [task EXCEPT ![j] = "ingest"]
  /\ Goto(j, AfterUpload)
  /\ latest' = [latest EXCEPT ![d] = @ + 1]
  /\ s3' = [s3 EXCEPT ![d] = latest[d] + 1]
  /\ todo' = [todo EXCEPT ![j] = {d}]
  /\ held' = [held EXCEPT ![j] = latest[d] + 1]
  /\ raced' = IF \E i \in Jobs : Holds(i, d) THEN raced \cup {d} ELSE raced
  /\ gone' = [i \in Jobs |-> gone[i] \ {d}]
  /\ alone' = [i \in Jobs |-> FALSE]
  /\ UNCHANGED <<redis, ids, got, failures, acked, floor, there, missed>>

\* An operator deletes the file in the bucket.
Delete(d) ==
  /\ s3[d] # 0
  /\ s3' = [s3 EXCEPT ![d] = 0]
  /\ there' = [i \in Jobs |-> there[i] \ {d}]
  /\ alone' = [i \in Jobs |-> FALSE]
  /\ UNCHANGED <<latest, redis, job, failures, acked, floor, gone, raced, missed>>

----------------------------------------------------------------------------
(* One document of a job *)

\* On to the next document, with what this one came to (0: nothing).
FinishDoc(j, d, content) ==
  /\ todo' = [todo EXCEPT ![j] = @ \ {d}]
  /\ held' = [held EXCEPT ![j] = 0]
  /\ Goto(j, IF todo[j] = {d} THEN "over" ELSE FirstCall(task[j]))
  /\ got' = IF task[j] = "question" THEN [got EXCEPT ![j][d] = content] ELSE got
  /\ acked' = IF task[j] = "ingest" /\ acked[d] < held[j]
              THEN [acked EXCEPT ![d] = held[j]] ELSE acked
  /\ UNCHANGED <<task, ids>>

\* (Mutation: a miss counts as an empty document.)
AnyReply(d) == TRUE
Hit(d) == cache[d] # 0

\* Cache hit: the content is Redis's, S3 is not asked.
Get(j, d) ==
  /\ pc[j] = "get" /\ Current(j, d)
  /\ Hit(d)
  /\ FinishDoc(j, d, cache[d])
  /\ UNCHANGED <<store, redis, failures, floor, there, gone, alone, raced, missed>>

Miss(j, d) ==
  /\ pc[j] = "get" /\ Current(j, d)
  /\ ~Hit(d)
  /\ Goto(j, "load")
  /\ UNCHANGED <<store, redis, task, todo, held, ids, got, failures, history>>

\* (Mutation: an answer without a body is taken for a document.)
Loadable(d) == TRUE
Loads(d) == s3[d] # 0

Load(j, d) ==
  /\ pc[j] = "load" /\ Current(j, d)
  /\ Loads(d)
  /\ held' = [held EXCEPT ![j] = s3[d]]
  /\ Goto(j, "set")
  /\ UNCHANGED <<store, redis, task, todo, ids, got, failures, history>>

\* The file is gone meanwhile: nothing is cached and nothing served.
Absent(j, d) ==
  /\ pc[j] = "load" /\ Current(j, d)
  /\ s3[d] = 0
  /\ FinishDoc(j, d, 0)
  /\ UNCHANGED <<store, redis, failures, floor, there, gone, alone, raced, missed>>

\* (Mutation: SET NX, a content is cached only where there is none.)
StoredIfNew(d, content) == IF cache[d] = 0 THEN [cache EXCEPT ![d] = content] ELSE cache
Stored(d, content) == [cache EXCEPT ![d] = content]

\* The current content, written while nobody holds another, mends the cache.
Mends(j, d) == held[j] = s3[d] /\ \A i \in Jobs \ {j} : ~Holds(i, d)

SetDoc(j, d) ==
  /\ Holds(j, d)
  /\ cache' = Stored(d, held[j])
  /\ raced' = IF Mends(j, d) THEN raced \ {d} ELSE raced
  /\ missed' = IF Mends(j, d) THEN missed \ {d} ELSE missed
  /\ Goto(j, "index")
  /\ UNCHANGED <<store, index, task, todo, held, ids, got, failures,
                 acked, floor, there, gone, alone>>

AddToIndex(j, d) ==
  /\ pc[j] = "index" /\ Current(j, d)
  /\ index' = index \cup {d}
  /\ FinishDoc(j, d, held[j])
  /\ UNCHANGED <<store, cache, failures, floor, there, gone, alone, raced, missed>>

----------------------------------------------------------------------------
(* clear_tenant: three calls *)

ReadIndex(j) ==
  /\ pc[j] = "clear"
  /\ ids' = [ids EXCEPT ![j] = index]
  /\ Goto(j, IF index = {} THEN "unindex" ELSE "unkey")
  /\ UNCHANGED <<store, redis, task, todo, held, got, failures, history>>

DeleteKeys(j) ==
  /\ pc[j] = "unkey"
  /\ cache' = [d \in Docs |-> IF d \in ids[j] THEN 0 ELSE cache[d]]
  /\ Goto(j, "unindex")
  /\ UNCHANGED <<store, index, task, todo, held, ids, got, failures, history>>

DeleteIndex(j) ==
  /\ pc[j] = "unindex"
  /\ index' = {}
  /\ ids' = [ids EXCEPT ![j] = {}]
  /\ Goto(j, FirstCall("reload"))
  /\ UNCHANGED <<store, cache, task, todo, held, got, failures, history>>

----------------------------------------------------------------------------
(* Failures *)

Fault ==
  /\ failures < MaxFailures
  /\ failures' = failures + 1
  /\ alone' = [i \in Jobs |-> FALSE]

\* Redis does not answer a get: a miss.
GetFails(j) ==
  /\ pc[j] = "get"
  /\ Fault
  /\ Goto(j, "load")
  /\ UNCHANGED <<store, redis, task, todo, held, ids, got,
                 acked, floor, there, gone, raced, missed>>

\* S3 does not answer: the document is left out.
LoadFails(j, d) ==
  /\ pc[j] = "load" /\ Current(j, d)
  /\ Fault
  /\ FinishDoc(j, d, 0)
  /\ there' = [there EXCEPT ![j] = @ \ {d}]
  /\ UNCHANGED <<store, redis, floor, gone, raced, missed>>

\* Either call of set_doc fails: the job goes on as if it had not.
SetFails(j, d) ==
  /\ pc[j] \in {"set", "index"} /\ Current(j, d)
  /\ Fault
  /\ FinishDoc(j, d, held[j])
  /\ missed' = IF task[j] = "ingest" /\ pc[j] = "set" THEN missed \cup {d}
               ELSE missed
  /\ UNCHANGED <<store, redis, floor, there, gone, raced>>

\* A failed read of the index reads as empty; a failed delete ends clear_tenant.
ClearFails(j) ==
  /\ pc[j] \in {"clear", "unkey", "unindex"}
  /\ Fault
  /\ ids' = [ids EXCEPT ![j] = {}]
  /\ Goto(j, IF pc[j] = "clear" THEN "unindex" ELSE FirstCall("reload"))
  /\ UNCHANGED <<store, redis, task, todo, held, got,
                 acked, floor, there, gone, raced, missed>>

\* Redis restarts empty.
Restart ==
  /\ Fault
  /\ cache' = Nothing
  /\ index' = {}
  /\ UNCHANGED <<store, job, acked, floor, there, gone, raced, missed>>

\* The request is answered.
Return(j) ==
  /\ pc[j] = "over"
  /\ Goto(j, "idle")
  /\ task' = [task EXCEPT ![j] = "none"]
  /\ todo' = [todo EXCEPT ![j] = {}]
  /\ held' = [held EXCEPT ![j] = 0]
  /\ got' = [got EXCEPT ![j] = Nothing]
  /\ floor' = [floor EXCEPT ![j] = Nothing]
  /\ there' = [there EXCEPT ![j] = {}]
  /\ gone' = [gone EXCEPT ![j] = {}]
  /\ alone' = [alone EXCEPT ![j] = FALSE]
  /\ UNCHANGED <<store, redis, ids, failures, acked, raced, missed>>

----------------------------------------------------------------------------
HandleDoc(j, d) ==
  \/ Get(j, d) \/ Miss(j, d) \/ Load(j, d) \/ Absent(j, d)
  \/ SetDoc(j, d) \/ AddToIndex(j, d)
  \/ LoadFails(j, d) \/ SetFails(j, d)

Next ==
  \/ \E j \in Jobs :
       \/ Ask(j) \/ Reload(j)
       \/ \E d \in Docs : Ingest(j, d) \/ HandleDoc(j, d)
       \/ ReadIndex(j) \/ DeleteKeys(j) \/ DeleteIndex(j)
       \/ GetFails(j) \/ ClearFails(j)
       \/ Return(j)
  \/ \E d \in Docs : Delete(d)
  \/ Restart

Spec == Init /\ [][Next]_vars

----------------------------------------------------------------------------
(* Properties *)

TypeOK ==
  /\ s3 \in [Docs -> Version] /\ latest \in [Docs -> Version]
  /\ cache \in [Docs -> Version] /\ index \subseteq Docs
  /\ task \in [Jobs -> {"none", "question", "ingest", "reload"}]
  /\ pc \in [Jobs -> Calls \cup {"idle", "over"}]
  /\ todo \in [Jobs -> SUBSET Docs]
  /\ held \in [Jobs -> Version]
  /\ ids \in [Jobs -> SUBSET Docs]
  /\ got \in [Jobs -> [Docs -> Version]]
  /\ failures \in 0..MaxFailures
  /\ acked \in [Docs -> Version]
  /\ floor \in [Jobs -> [Docs -> Version]]
  /\ there \in [Jobs -> SUBSET Docs] /\ gone \in [Jobs -> SUBSET Docs]
  /\ alone \in [Jobs -> BOOLEAN]
  /\ raced \subseteq Docs /\ missed \subseteq Docs
  \* What is about to be cached is a content ("never cache missing data").
  /\ \A j \in Jobs : pc[j] \in {"set", "index"} => held[j] # 0

\* Redis holds another content than S3 only while the ingest of S3's is about
\* to write it, after an upload raced a job that held the older content, or
\* after an ingest whose write to Redis failed.
StaleOnlyAfterRace ==
  \A d \in Docs :
    /\ cache[d] # 0 /\ s3[d] # 0
    /\ cache[d] # s3[d]
    /\ d \notin raced \cup missed
    => \E j \in Jobs : task[j] = "ingest" /\ Holds(j, d) /\ held[j] = s3[d]

\* A question asked after an ingest has returned is served that content or a
\* newer one, unless the document was raced or missed.
Served(j, d) == got'[j][d] # got[j][d] /\ got'[j][d] # 0

ReadYourIngest ==
  [][\A j \in Jobs, d \in Docs :
       Served(j, d) => got'[j][d] >= floor[j][d] \/ d \in raced \cup missed]_vars

\* A document that S3 does not have is not served, whatever Redis still holds.
DeletedNotServed ==
  \A j \in Jobs : \A d \in gone[j] : got[j][d] = 0

\* Redis may fail at every call, restart or be cleared by a reload: a question
\* still gets every document that S3 could give it.
NothingMissing ==
  \A j \in Jobs : task[j] = "question" /\ pc[j] = "over" =>
    \A d \in there[j] : got[j][d] # 0

\* A reload that ran alone and found documents leaves exactly S3 in the index,
\* with S3's contents.
ReloadHeals ==
  \A j \in Jobs :
    /\ task[j] = "reload" /\ pc[j] = "over"
    /\ alone[j] /\ there[j] # {}
    => /\ index = there[j]
       /\ \A d \in index : cache[d] = s3[d]
=============================================================================
