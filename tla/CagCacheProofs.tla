--------------------------- MODULE CagCacheProofs ---------------------------
(***************************************************************************)
(* Proofs about CagCache, for every set of jobs and documents and every    *)
(* bound on uploads and failures.                                          *)
(***************************************************************************)
EXTENDS CagCache, TLAPS

----------------------------------------------------------------------------
(* The inductive invariant *)

\* A job that is idle or over has no document left; only questions ask Redis
\* first; an ingest has one document.
JobInv ==
  \A j \in Jobs :
    /\ pc[j] \in {"idle", "over"} => todo[j] = {}
    /\ pc[j] = "idle" => /\ task[j] = "none" /\ gone[j] = {} /\ there[j] = {}
                         /\ got[j] = Nothing /\ ~alone[j]
    /\ pc[j] = "get" => task[j] = "question"
    /\ pc[j] \in {"clear", "unkey", "unindex"} => task[j] = "reload"
    /\ task[j] = "ingest" => /\ pc[j] \in {"set", "index", "over"}
                             /\ \A d, e \in todo[j] : d = e

\* A document in S3 is its last upload, and nothing acknowledged is newer.
SourceInv ==
  \A d \in Docs :
    /\ s3[d] # 0 => s3[d] = latest[d]
    /\ acked[d] <= latest[d]
    /\ \A j \in Jobs : floor[j][d] <= acked[d]

\* Whoever is about to write an older content has been raced.
HolderInv ==
  \A j \in Jobs, d \in Docs :
    /\ Holds(j, d) => held[j] = latest[d] \/ d \in raced
    /\ pc[j] \in {"set", "index"} /\ Current(j, d) => held[j] <= latest[d]
    /\ task[j] = "question" /\ pc[j] \in {"set", "index"} /\ Current(j, d) =>
         held[j] >= floor[j][d]

\* A cached content is no older than what was acknowledged.
AckInv ==
  \A d \in Docs : cache[d] # 0 /\ d \notin raced \cup missed =>
    /\ cache[d] >= acked[d]
    /\ \A j \in Jobs : task[j] = "ingest" /\ pc[j] = "index" /\ Current(j, d) =>
                         cache[d] >= held[j]

\* What a question has of the documents listed at its start.
ServeInv ==
  \A j \in Jobs :
    /\ gone[j] \cap todo[j] = {}
    /\ \A d \in gone[j] : got[j][d] = 0
    /\ \A d \in there[j] : s3[d] # 0
    /\ task[j] = "question" => \A d \in there[j] : d \in todo[j] \/ got[j][d] # 0

\* What a reload that runs alone has done so far.
ReloadOf(j) ==
  /\ \A k \in Jobs \ {j} : pc[k] = "idle"
  /\ task[j] = "reload" =>
       /\ there[j] = {d \in Docs : s3[d] # 0}
       /\ pc[j] \in {"clear", "unkey", "unindex"} => todo[j] = there[j]
       /\ pc[j] \in {"load", "set", "index", "over"} /\ there[j] # {} =>
            /\ index = there[j] \ todo[j]
            /\ todo[j] \subseteq there[j]
            /\ \A d \in index : cache[d] = s3[d]
       /\ \A d \in todo[j] : Current(j, d) =>
            /\ pc[j] \in {"set", "index"} => held[j] = s3[d]
            /\ pc[j] = "index" => cache[d] = s3[d]

ReloadInv == \A j \in Jobs : alone[j] => ReloadOf(j)

Inv == /\ TypeOK /\ JobInv /\ SourceInv /\ HolderInv /\ AckInv
       /\ StaleOnlyAfterRace /\ ServeInv /\ ReloadInv

----------------------------------------------------------------------------
(* Each part is kept by every step *)

\* At most one document is handled at a time.
LEMMA OneCurrent ==
  ASSUME TypeOK, NEW j \in Jobs, NEW d, NEW e, Current(j, d), Current(j, e)
  PROVE  d = e
<1>1. todo[j] \subseteq Nat
  BY DocsAssumption DEF TypeOK
<1> QED
  BY <1>1 DEF Current

LEMMA TypeStep ==
  ASSUME TypeOK, [Next]_vars
  PROVE  TypeOK'
<1>1. ASSUME NEW j \in Jobs, Ask(j) PROVE TypeOK'
  BY <1>1 DEF TypeOK, Version, Calls, Nothing, Ask, BeginListing, Begin,
     Listed, FirstCall, Goto, store, redis
<1>2. ASSUME NEW j \in Jobs, Reload(j) PROVE TypeOK'
  BY <1>2 DEF TypeOK, Version, Calls, Nothing, Reload, ReloadStart,
     BeginListing, Begin, Listed, FirstCall, Goto, store, redis
<1>3. ASSUME NEW j \in Jobs, NEW d \in Docs, Ingest(j, d) PROVE TypeOK'
  BY <1>3 DEF TypeOK, Version, Calls, Nothing, Ingest, AfterUpload, Goto, redis
<1>4. ASSUME NEW j \in Jobs, NEW d \in Docs, Get(j, d) PROVE TypeOK'
  BY <1>4 DEF TypeOK, Version, Calls, Nothing, Get, Hit, FinishDoc, FirstCall,
     Current, Goto, store, redis
<1>5. ASSUME NEW j \in Jobs, NEW d \in Docs, Miss(j, d) PROVE TypeOK'
  BY <1>5 DEF TypeOK, Version, Calls, Nothing, Miss, Goto, store, redis,
     history
<1>6. ASSUME NEW j \in Jobs, NEW d \in Docs, Load(j, d) PROVE TypeOK'
  BY <1>6 DEF TypeOK, Version, Calls, Nothing, Load, Loads, Current, Goto,
     store, redis, history
<1>7. ASSUME NEW j \in Jobs, NEW d \in Docs, Absent(j, d) PROVE TypeOK'
  BY <1>7 DEF TypeOK, Version, Calls, Nothing, Absent, FinishDoc, FirstCall,
     Current, Goto, store, redis
<1>8. ASSUME NEW j \in Jobs, NEW d \in Docs, SetDoc(j, d) PROVE TypeOK'
  BY <1>8 DEF TypeOK, Version, Calls, Nothing, SetDoc, Stored, Mends, Holds,
     Current, Goto, store
<1>9. ASSUME NEW j \in Jobs, NEW d \in Docs, AddToIndex(j, d) PROVE TypeOK'
  BY <1>9 DEF TypeOK, Version, Calls, Nothing, AddToIndex, FinishDoc,
     FirstCall, Current, Goto, store
<1>10. ASSUME NEW j \in Jobs, NEW d \in Docs, LoadFails(j, d) PROVE TypeOK'
  BY <1>10, BoundAssumption DEF TypeOK, Version, Calls, Nothing, LoadFails,
     Fault, FinishDoc, FirstCall, Current, Goto, store, redis
<1>11. ASSUME NEW j \in Jobs, NEW d \in Docs, SetFails(j, d) PROVE TypeOK'
  BY <1>11, BoundAssumption DEF TypeOK, Version, Calls, Nothing, SetFails,
     Fault, FinishDoc, FirstCall, Current, Goto, store, redis
<1>12. ASSUME NEW j \in Jobs, ReadIndex(j) PROVE TypeOK'
  BY <1>12 DEF TypeOK, Version, Calls, Nothing, ReadIndex, Goto, store, redis,
     history
<1>13. ASSUME NEW j \in Jobs, DeleteKeys(j) PROVE TypeOK'
  BY <1>13 DEF TypeOK, Version, Calls, Nothing, DeleteKeys, Goto, store,
     history
<1>14. ASSUME NEW j \in Jobs, DeleteIndex(j) PROVE TypeOK'
  BY <1>14 DEF TypeOK, Version, Calls, Nothing, DeleteIndex, FirstCall, Goto,
     store, history
<1>15. ASSUME NEW j \in Jobs, GetFails(j) PROVE TypeOK'
  BY <1>15, BoundAssumption DEF TypeOK, Version, Calls, Nothing, GetFails,
     Fault, Goto, store, redis
<1>16. ASSUME NEW j \in Jobs, ClearFails(j) PROVE TypeOK'
  BY <1>16, BoundAssumption DEF TypeOK, Version, Calls, Nothing, ClearFails,
     Fault, FirstCall, Goto, store, redis
<1>17. ASSUME NEW j \in Jobs, Return(j) PROVE TypeOK'
  BY <1>17 DEF TypeOK, Version, Calls, Nothing, Return, Goto, store, redis
<1>18. ASSUME NEW d \in Docs, Delete(d) PROVE TypeOK'
  BY <1>18 DEF TypeOK, Version, Calls, Nothing, Delete, redis, job
<1>19. ASSUME Restart PROVE TypeOK'
  BY <1>19, BoundAssumption DEF TypeOK, Version, Calls, Nothing, Restart,
     Fault, store, job
<1>20. CASE UNCHANGED vars
  BY <1>20 DEF TypeOK, Version, Calls, Nothing, vars, store, redis, job,
     history
<1> QED
  BY <1>1, <1>2, <1>3, <1>4, <1>5, <1>6, <1>7, <1>8, <1>9, <1>10, <1>11, <1>12,
     <1>13, <1>14, <1>15, <1>16, <1>17, <1>18, <1>19, <1>20 DEF Next, HandleDoc

LEMMA JobStep ==
  ASSUME TypeOK, JobInv, [Next]_vars
  PROVE  JobInv'
<1>1. ASSUME NEW j \in Jobs, Ask(j) PROVE JobInv'
  BY <1>1 DEF TypeOK, Calls, JobInv, Ask, BeginListing, Begin, Listed,
     FirstCall, Goto, store, redis
<1>2. ASSUME NEW j \in Jobs, Reload(j) PROVE JobInv'
  BY <1>2 DEF TypeOK, Calls, JobInv, Reload, ReloadStart, BeginListing, Begin,
     Listed, FirstCall, Goto, store, redis
<1>3. ASSUME NEW j \in Jobs, NEW d \in Docs, Ingest(j, d) PROVE JobInv'
  BY <1>3 DEF TypeOK, Calls, JobInv, Ingest, AfterUpload, Goto, redis
<1>4. ASSUME NEW j \in Jobs, NEW d \in Docs, Get(j, d) PROVE JobInv'
  BY <1>4 DEF TypeOK, Calls, JobInv, Get, Hit, FinishDoc, FirstCall, Current,
     Goto, store, redis
<1>5. ASSUME NEW j \in Jobs, NEW d \in Docs, Miss(j, d) PROVE JobInv'
  BY <1>5 DEF TypeOK, Calls, JobInv, Miss, Goto, store, redis, history
<1>6. ASSUME NEW j \in Jobs, NEW d \in Docs, Load(j, d) PROVE JobInv'
  BY <1>6 DEF TypeOK, Calls, JobInv, Load, Loads, Current, Goto, store, redis,
     history
<1>7. ASSUME NEW j \in Jobs, NEW d \in Docs, Absent(j, d) PROVE JobInv'
  BY <1>7 DEF TypeOK, Calls, JobInv, Absent, FinishDoc, FirstCall, Current,
     Goto, store, redis
<1>8. ASSUME NEW j \in Jobs, NEW d \in Docs, SetDoc(j, d) PROVE JobInv'
  BY <1>8 DEF TypeOK, Calls, JobInv, SetDoc, Stored, Mends, Holds, Current,
     Goto, store
<1>9. ASSUME NEW j \in Jobs, NEW d \in Docs, AddToIndex(j, d) PROVE JobInv'
  BY <1>9 DEF TypeOK, Calls, JobInv, AddToIndex, FinishDoc, FirstCall, Current,
     Goto, store
<1>10. ASSUME NEW j \in Jobs, NEW d \in Docs, LoadFails(j, d) PROVE JobInv'
  BY <1>10 DEF TypeOK, Calls, JobInv, LoadFails, Fault, FinishDoc, FirstCall,
     Current, Goto, store, redis
<1>11. ASSUME NEW j \in Jobs, NEW d \in Docs, SetFails(j, d) PROVE JobInv'
  BY <1>11 DEF TypeOK, Calls, JobInv, SetFails, Fault, FinishDoc, FirstCall,
     Current, Goto, store, redis
<1>12. ASSUME NEW j \in Jobs, ReadIndex(j) PROVE JobInv'
  BY <1>12 DEF TypeOK, Calls, JobInv, ReadIndex, Goto, store, redis, history
<1>13. ASSUME NEW j \in Jobs, DeleteKeys(j) PROVE JobInv'
  BY <1>13 DEF TypeOK, Calls, JobInv, DeleteKeys, Goto, store, history
<1>14. ASSUME NEW j \in Jobs, DeleteIndex(j) PROVE JobInv'
  BY <1>14 DEF TypeOK, Calls, JobInv, DeleteIndex, FirstCall, Goto, store,
     history
<1>15. ASSUME NEW j \in Jobs, GetFails(j) PROVE JobInv'
  BY <1>15 DEF TypeOK, Calls, JobInv, GetFails, Fault, Goto, store, redis
<1>16. ASSUME NEW j \in Jobs, ClearFails(j) PROVE JobInv'
  BY <1>16 DEF TypeOK, Calls, JobInv, ClearFails, Fault, FirstCall, Goto,
     store, redis
<1>17. ASSUME NEW j \in Jobs, Return(j) PROVE JobInv'
  BY <1>17 DEF TypeOK, Calls, JobInv, Return, Goto, store, redis
<1>18. ASSUME NEW d \in Docs, Delete(d) PROVE JobInv'
  BY <1>18 DEF TypeOK, Calls, JobInv, Delete, redis, job
<1>19. ASSUME Restart PROVE JobInv'
  BY <1>19 DEF TypeOK, Calls, JobInv, Restart, Fault, store, job
<1>20. CASE UNCHANGED vars
  BY <1>20 DEF TypeOK, Calls, JobInv, vars, store, redis, job, history
<1> QED
  BY <1>1, <1>2, <1>3, <1>4, <1>5, <1>6, <1>7, <1>8, <1>9, <1>10, <1>11, <1>12,
     <1>13, <1>14, <1>15, <1>16, <1>17, <1>18, <1>19, <1>20 DEF Next, HandleDoc

LEMMA SourceStep ==
  ASSUME TypeOK, JobInv, SourceInv, HolderInv, [Next]_vars
  PROVE  SourceInv'
<1>1. ASSUME NEW j \in Jobs, Ask(j) PROVE SourceInv'
  BY <1>1 DEF TypeOK, Version, JobInv, Current, SourceInv, HolderInv, Nothing,
     Holds, Ask, BeginListing, Begin, Listed, FirstCall, Goto, store, redis
<1>2. ASSUME NEW j \in Jobs, Reload(j) PROVE SourceInv'
  BY <1>2 DEF TypeOK, Version, JobInv, Current, SourceInv, HolderInv, Nothing,
     Holds, Reload, ReloadStart, BeginListing, Begin, Listed, FirstCall, Goto,
     store, redis
<1>3. ASSUME NEW j \in Jobs, NEW d \in Docs, Ingest(j, d) PROVE SourceInv'
  BY <1>3 DEF TypeOK, Version, JobInv, Current, SourceInv, HolderInv, Nothing,
     Holds, Ingest, AfterUpload, Goto, redis
<1>4. ASSUME NEW j \in Jobs, NEW d \in Docs, Get(j, d) PROVE SourceInv'
  BY <1>4 DEF TypeOK, Version, JobInv, Current, SourceInv, HolderInv, Nothing,
     Holds, Get, Hit, FinishDoc, FirstCall, Current, Goto, store, redis
<1>5. ASSUME NEW j \in Jobs, NEW d \in Docs, Miss(j, d) PROVE SourceInv'
  BY <1>5 DEF TypeOK, Version, JobInv, Current, SourceInv, HolderInv, Nothing,
     Holds, Miss, Goto, store, redis, history
<1>6. ASSUME NEW j \in Jobs, NEW d \in Docs, Load(j, d) PROVE SourceInv'
  BY <1>6 DEF TypeOK, Version, JobInv, Current, SourceInv, HolderInv, Nothing,
     Holds, Load, Loads, Current, Goto, store, redis, history
<1>7. ASSUME NEW j \in Jobs, NEW d \in Docs, Absent(j, d) PROVE SourceInv'
  BY <1>7 DEF TypeOK, Version, JobInv, Current, SourceInv, HolderInv, Nothing,
     Holds, Absent, FinishDoc, FirstCall, Current, Goto, store, redis
<1>8. ASSUME NEW j \in Jobs, NEW d \in Docs, SetDoc(j, d) PROVE SourceInv'
  BY <1>8 DEF TypeOK, Version, JobInv, Current, SourceInv, HolderInv, Nothing,
     Holds, SetDoc, Stored, Mends, Holds, Current, Goto, store
<1>9. ASSUME NEW j \in Jobs, NEW d \in Docs, AddToIndex(j, d) PROVE SourceInv'
  BY <1>9 DEF TypeOK, Version, JobInv, Current, SourceInv, HolderInv, Nothing,
     Holds, AddToIndex, FinishDoc, FirstCall, Current, Goto, store
<1>10. ASSUME NEW j \in Jobs, NEW d \in Docs, LoadFails(j, d) PROVE SourceInv'
  BY <1>10 DEF TypeOK, Version, JobInv, Current, SourceInv, HolderInv, Nothing,
     Holds, LoadFails, Fault, FinishDoc, FirstCall, Current, Goto, store, redis
<1>11. ASSUME NEW j \in Jobs, NEW d \in Docs, SetFails(j, d) PROVE SourceInv'
  BY <1>11 DEF TypeOK, Version, JobInv, Current, SourceInv, HolderInv, Nothing,
     Holds, SetFails, Fault, FinishDoc, FirstCall, Current, Goto, store, redis
<1>12. ASSUME NEW j \in Jobs, ReadIndex(j) PROVE SourceInv'
  BY <1>12 DEF TypeOK, Version, JobInv, Current, SourceInv, HolderInv, Nothing,
     Holds, ReadIndex, Goto, store, redis, history
<1>13. ASSUME NEW j \in Jobs, DeleteKeys(j) PROVE SourceInv'
  BY <1>13 DEF TypeOK, Version, JobInv, Current, SourceInv, HolderInv, Nothing,
     Holds, DeleteKeys, Goto, store, history
<1>14. ASSUME NEW j \in Jobs, DeleteIndex(j) PROVE SourceInv'
  BY <1>14 DEF TypeOK, Version, JobInv, Current, SourceInv, HolderInv, Nothing,
     Holds, DeleteIndex, FirstCall, Goto, store, history
<1>15. ASSUME NEW j \in Jobs, GetFails(j) PROVE SourceInv'
  BY <1>15 DEF TypeOK, Version, JobInv, Current, SourceInv, HolderInv, Nothing,
     Holds, GetFails, Fault, Goto, store, redis
<1>16. ASSUME NEW j \in Jobs, ClearFails(j) PROVE SourceInv'
  BY <1>16 DEF TypeOK, Version, JobInv, Current, SourceInv, HolderInv, Nothing,
     Holds, ClearFails, Fault, FirstCall, Goto, store, redis
<1>17. ASSUME NEW j \in Jobs, Return(j) PROVE SourceInv'
  BY <1>17 DEF TypeOK, Version, JobInv, Current, SourceInv, HolderInv, Nothing,
     Holds, Return, Goto, store, redis
<1>18. ASSUME NEW d \in Docs, Delete(d) PROVE SourceInv'
  BY <1>18 DEF TypeOK, Version, JobInv, Current, SourceInv, HolderInv, Nothing,
     Holds, Delete, redis, job
<1>19. ASSUME Restart PROVE SourceInv'
  BY <1>19 DEF TypeOK, Version, JobInv, Current, SourceInv, HolderInv, Nothing,
     Holds, Restart, Fault, store, job
<1>20. CASE UNCHANGED vars
  BY <1>20 DEF TypeOK, Version, JobInv, Current, SourceInv, HolderInv, Nothing,
     Holds, vars, store, redis, job, history
<1> QED
  BY <1>1, <1>2, <1>3, <1>4, <1>5, <1>6, <1>7, <1>8, <1>9, <1>10, <1>11, <1>12,
     <1>13, <1>14, <1>15, <1>16, <1>17, <1>18, <1>19, <1>20 DEF Next, HandleDoc

LEMMA HolderStep ==
  ASSUME TypeOK, JobInv, SourceInv, HolderInv, [Next]_vars
  PROVE  HolderInv'
<1>1. ASSUME NEW j \in Jobs, Ask(j) PROVE HolderInv'
  BY <1>1 DEF TypeOK, Version, JobInv, SourceInv, HolderInv, Holds, Current,
     Ask, BeginListing, Begin, Listed, FirstCall, Goto, store, redis
<1>2. ASSUME NEW j \in Jobs, Reload(j) PROVE HolderInv'
  BY <1>2 DEF TypeOK, Version, JobInv, SourceInv, HolderInv, Holds, Current,
     Reload, ReloadStart, BeginListing, Begin, Listed, FirstCall, Goto, store,
     redis
<1>3. ASSUME NEW j \in Jobs, NEW d \in Docs, Ingest(j, d) PROVE HolderInv'
  BY <1>3 DEF TypeOK, Version, JobInv, SourceInv, HolderInv, Holds, Current,
     Ingest, AfterUpload, Goto, redis
<1>4. ASSUME NEW j \in Jobs, NEW d \in Docs, Get(j, d) PROVE HolderInv'
  BY <1>4 DEF TypeOK, Version, JobInv, SourceInv, HolderInv, Holds, Current,
     Get, Hit, FinishDoc, FirstCall, Current, Goto, store, redis
<1>5. ASSUME NEW j \in Jobs, NEW d \in Docs, Miss(j, d) PROVE HolderInv'
  BY <1>5 DEF TypeOK, Version, JobInv, SourceInv, HolderInv, Holds, Current,
     Miss, Goto, store, redis, history
<1>6. ASSUME NEW j \in Jobs, NEW d \in Docs, Load(j, d) PROVE HolderInv'
  <2>1. pc' = [pc EXCEPT ![j] = "set"] /\ held' = [held EXCEPT ![j] = s3[d]]
    BY <1>6 DEF Load, Goto
  <2>2. UNCHANGED <<latest, raced, task, todo, floor>>
    BY <1>6 DEF Load, store, history
  <2>3. s3[d] = latest[d] /\ floor[j][d] <= s3[d]
    BY <1>6 DEF Load, Loads, SourceInv, TypeOK, Version
  <2>4. \A e \in Docs : Current(j, e)' => e = d
    BY <1>6, <2>2, OneCurrent DEF Load, Current
  <2> SUFFICES ASSUME NEW i \in Jobs, NEW e \in Docs
               PROVE  /\ Holds(i, e)' => held'[i] = latest'[e] \/ e \in raced'
                      /\ pc'[i] \in {"set", "index"} /\ Current(i, e)' => held'[i] <= latest'[e]
                      /\ task'[i] = "question" /\ pc'[i] \in {"set", "index"} /\ Current(i, e)' =>
                           held'[i] >= floor'[i][e]
    BY DEF HolderInv
  <2>5. CASE i = j
    BY <2>1, <2>2, <2>3, <2>4, <2>5 DEF TypeOK, Version, Holds
  <2>6. CASE i # j
    BY <2>1, <2>2, <2>6 DEF TypeOK, HolderInv, Holds, Current
  <2> QED
    BY <2>5, <2>6
<1>7. ASSUME NEW j \in Jobs, NEW d \in Docs, Absent(j, d) PROVE HolderInv'
  BY <1>7 DEF TypeOK, Version, JobInv, SourceInv, HolderInv, Holds, Current,
     Absent, FinishDoc, FirstCall, Current, Goto, store, redis
<1>8. ASSUME NEW j \in Jobs, NEW d \in Docs, SetDoc(j, d) PROVE HolderInv'
  BY <1>8, DocsAssumption DEF TypeOK, Version, JobInv, SourceInv, HolderInv,
     Holds, Current, SetDoc, Stored, Mends, Holds, Current, Goto, store
<1>9. ASSUME NEW j \in Jobs, NEW d \in Docs, AddToIndex(j, d) PROVE HolderInv'
  BY <1>9 DEF TypeOK, Version, JobInv, SourceInv, HolderInv, Holds, Current,
     AddToIndex, FinishDoc, FirstCall, Current, Goto, store
<1>10. ASSUME NEW j \in Jobs, NEW d \in Docs, LoadFails(j, d) PROVE HolderInv'
  BY <1>10 DEF TypeOK, Version, JobInv, SourceInv, HolderInv, Holds, Current,
     LoadFails, Fault, FinishDoc, FirstCall, Current, Goto, store, redis
<1>11. ASSUME NEW j \in Jobs, NEW d \in Docs, SetFails(j, d) PROVE HolderInv'
  BY <1>11 DEF TypeOK, Version, JobInv, SourceInv, HolderInv, Holds, Current,
     SetFails, Fault, FinishDoc, FirstCall, Current, Goto, store, redis
<1>12. ASSUME NEW j \in Jobs, ReadIndex(j) PROVE HolderInv'
  BY <1>12 DEF TypeOK, Version, JobInv, SourceInv, HolderInv, Holds, Current,
     ReadIndex, Goto, store, redis, history
<1>13. ASSUME NEW j \in Jobs, DeleteKeys(j) PROVE HolderInv'
  BY <1>13 DEF TypeOK, Version, JobInv, SourceInv, HolderInv, Holds, Current,
     DeleteKeys, Goto, store, history
<1>14. ASSUME NEW j \in Jobs, DeleteIndex(j) PROVE HolderInv'
  BY <1>14 DEF TypeOK, Version, JobInv, SourceInv, HolderInv, Holds, Current,
     DeleteIndex, FirstCall, Goto, store, history
<1>15. ASSUME NEW j \in Jobs, GetFails(j) PROVE HolderInv'
  BY <1>15 DEF TypeOK, Version, JobInv, SourceInv, HolderInv, Holds, Current,
     GetFails, Fault, Goto, store, redis
<1>16. ASSUME NEW j \in Jobs, ClearFails(j) PROVE HolderInv'
  BY <1>16 DEF TypeOK, Version, JobInv, SourceInv, HolderInv, Holds, Current,
     ClearFails, Fault, FirstCall, Goto, store, redis
<1>17. ASSUME NEW j \in Jobs, Return(j) PROVE HolderInv'
  BY <1>17 DEF TypeOK, Version, JobInv, SourceInv, HolderInv, Holds, Current,
     Return, Goto, store, redis
<1>18. ASSUME NEW d \in Docs, Delete(d) PROVE HolderInv'
  BY <1>18 DEF TypeOK, Version, JobInv, SourceInv, HolderInv, Holds, Current,
     Delete, redis, job
<1>19. ASSUME Restart PROVE HolderInv'
  BY <1>19 DEF TypeOK, Version, JobInv, SourceInv, HolderInv, Holds, Current,
     Restart, Fault, store, job
<1>20. CASE UNCHANGED vars
  BY <1>20 DEF TypeOK, Version, JobInv, SourceInv, HolderInv, Holds, Current,
     vars, store, redis, job, history
<1> QED
  BY <1>1, <1>2, <1>3, <1>4, <1>5, <1>6, <1>7, <1>8, <1>9, <1>10, <1>11, <1>12,
     <1>13, <1>14, <1>15, <1>16, <1>17, <1>18, <1>19, <1>20 DEF Next, HandleDoc

LEMMA AckStep ==
  ASSUME TypeOK, JobInv, SourceInv, HolderInv, AckInv, [Next]_vars
  PROVE  AckInv'
<1>1. ASSUME NEW j \in Jobs, Ask(j) PROVE AckInv'
  BY <1>1 DEF TypeOK, Version, JobInv, SourceInv, HolderInv, AckInv, Holds,
     Current, Nothing, Ask, BeginListing, Begin, Listed, FirstCall, Goto,
     store, redis
<1>2. ASSUME NEW j \in Jobs, Reload(j) PROVE AckInv'
  BY <1>2 DEF TypeOK, Version, JobInv, SourceInv, HolderInv, AckInv, Holds,
     Current, Nothing, Reload, ReloadStart, BeginListing, Begin, Listed,
     FirstCall, Goto, store, redis
<1>3. ASSUME NEW j \in Jobs, NEW d \in Docs, Ingest(j, d) PROVE AckInv'
  BY <1>3 DEF TypeOK, Version, JobInv, SourceInv, HolderInv, AckInv, Holds,
     Current, Nothing, Ingest, AfterUpload, Goto, redis
<1>4. ASSUME NEW j \in Jobs, NEW d \in Docs, Get(j, d) PROVE AckInv'
  BY <1>4 DEF TypeOK, Version, JobInv, SourceInv, HolderInv, AckInv, Holds,
     Current, Nothing, Get, Hit, FinishDoc, FirstCall, Current, Goto, store,
     redis
<1>5. ASSUME NEW j \in Jobs, NEW d \in Docs, Miss(j, d) PROVE AckInv'
  BY <1>5 DEF TypeOK, Version, JobInv, SourceInv, HolderInv, AckInv, Holds,
     Current, Nothing, Miss, Goto, store, redis, history
<1>6. ASSUME NEW j \in Jobs, NEW d \in Docs, Load(j, d) PROVE AckInv'
  BY <1>6 DEF TypeOK, Version, JobInv, SourceInv, HolderInv, AckInv, Holds,
     Current, Nothing, Load, Loads, Current, Goto, store, redis, history
<1>7. ASSUME NEW j \in Jobs, NEW d \in Docs, Absent(j, d) PROVE AckInv'
  BY <1>7, SMTT(60) DEF TypeOK, Version, JobInv, SourceInv, HolderInv, AckInv, Holds,
     Current, Nothing, Absent, FinishDoc, FirstCall, Current, Goto, store,
     redis
<1>8. ASSUME NEW j \in Jobs, NEW d \in Docs, SetDoc(j, d) PROVE AckInv'
  BY <1>8 DEF TypeOK, Version, JobInv, SourceInv, HolderInv, AckInv, Holds,
     Current, Nothing, SetDoc, Stored, Mends, Holds, Current, Goto, store
<1>9. ASSUME NEW j \in Jobs, NEW d \in Docs, AddToIndex(j, d) PROVE AckInv'
  BY <1>9 DEF TypeOK, Version, JobInv, SourceInv, HolderInv, AckInv, Holds,
     Current, Nothing, AddToIndex, FinishDoc, FirstCall, Current, Goto, store
<1>10. ASSUME NEW j \in Jobs, NEW d \in Docs, LoadFails(j, d) PROVE AckInv'
  BY <1>10 DEF TypeOK, Version, JobInv, SourceInv, HolderInv, AckInv, Holds,
     Current, Nothing, LoadFails, Fault, FinishDoc, FirstCall, Current, Goto,
     store, redis
<1>11. ASSUME NEW j \in Jobs, NEW d \in Docs, SetFails(j, d) PROVE AckInv'
  BY <1>11 DEF TypeOK, Version, JobInv, SourceInv, HolderInv, AckInv, Holds,
     Current, Nothing, SetFails, Fault, FinishDoc, FirstCall, Current, Goto,
     store, redis
<1>12. ASSUME NEW j \in Jobs, ReadIndex(j) PROVE AckInv'
  BY <1>12 DEF TypeOK, Version, JobInv, SourceInv, HolderInv, AckInv, Holds,
     Current, Nothing, ReadIndex, Goto, store, redis, history
<1>13. ASSUME NEW j \in Jobs, DeleteKeys(j) PROVE AckInv'
  BY <1>13 DEF TypeOK, Version, JobInv, SourceInv, HolderInv, AckInv, Holds,
     Current, Nothing, DeleteKeys, Goto, store, history
<1>14. ASSUME NEW j \in Jobs, DeleteIndex(j) PROVE AckInv'
  BY <1>14 DEF TypeOK, Version, JobInv, SourceInv, HolderInv, AckInv, Holds,
     Current, Nothing, DeleteIndex, FirstCall, Goto, store, history
<1>15. ASSUME NEW j \in Jobs, GetFails(j) PROVE AckInv'
  BY <1>15 DEF TypeOK, Version, JobInv, SourceInv, HolderInv, AckInv, Holds,
     Current, Nothing, GetFails, Fault, Goto, store, redis
<1>16. ASSUME NEW j \in Jobs, ClearFails(j) PROVE AckInv'
  BY <1>16 DEF TypeOK, Version, JobInv, SourceInv, HolderInv, AckInv, Holds,
     Current, Nothing, ClearFails, Fault, FirstCall, Goto, store, redis
<1>17. ASSUME NEW j \in Jobs, Return(j) PROVE AckInv'
  BY <1>17 DEF TypeOK, Version, JobInv, SourceInv, HolderInv, AckInv, Holds,
     Current, Nothing, Return, Goto, store, redis
<1>18. ASSUME NEW d \in Docs, Delete(d) PROVE AckInv'
  BY <1>18 DEF TypeOK, Version, JobInv, SourceInv, HolderInv, AckInv, Holds,
     Current, Nothing, Delete, redis, job
<1>19. ASSUME Restart PROVE AckInv'
  BY <1>19 DEF TypeOK, Version, JobInv, SourceInv, HolderInv, AckInv, Holds,
     Current, Nothing, Restart, Fault, store, job
<1>20. CASE UNCHANGED vars
  BY <1>20 DEF TypeOK, Version, JobInv, SourceInv, HolderInv, AckInv, Holds,
     Current, Nothing, vars, store, redis, job, history
<1> QED
  BY <1>1, <1>2, <1>3, <1>4, <1>5, <1>6, <1>7, <1>8, <1>9, <1>10, <1>11, <1>12,
     <1>13, <1>14, <1>15, <1>16, <1>17, <1>18, <1>19, <1>20 DEF Next, HandleDoc

LEMMA StaleStep ==
  ASSUME TypeOK, JobInv, SourceInv, HolderInv, StaleOnlyAfterRace, [Next]_vars
  PROVE  StaleOnlyAfterRace'
<1>1. ASSUME NEW j \in Jobs, Ask(j) PROVE StaleOnlyAfterRace'
  BY <1>1, ZenonT(60) DEF TypeOK, Version, JobInv, SourceInv, HolderInv,
     StaleOnlyAfterRace, Holds, Current, Nothing, Ask, BeginListing, Begin,
     Listed, FirstCall, Goto, store, redis
<1>2. ASSUME NEW j \in Jobs, Reload(j) PROVE StaleOnlyAfterRace'
  BY <1>2, ZenonT(60) DEF TypeOK, Version, JobInv, SourceInv, HolderInv,
     StaleOnlyAfterRace, Holds, Current, Nothing, Reload, ReloadStart,
     BeginListing, Begin, Listed, FirstCall, Goto, store, redis
<1>3. ASSUME NEW j \in Jobs, NEW d \in Docs, Ingest(j, d) PROVE StaleOnlyAfterRace'
  <2>1. pc[j] = "idle" /\ pc' = [pc EXCEPT ![j] = "set"]
    BY <1>3 DEF Ingest, AfterUpload, Goto
  <2>2. /\ todo' = [todo EXCEPT ![j] = {d}]
        /\ task' = [task EXCEPT ![j] = "ingest"]
        /\ s3' = [s3 EXCEPT ![d] = latest[d] + 1]
        /\ held' = [held EXCEPT ![j] = latest[d] + 1]
        /\ UNCHANGED <<cache, missed>>
        /\ raced \subseteq raced'
    BY <1>3 DEF Ingest, redis
  <2> SUFFICES ASSUME NEW e \in Docs, cache'[e] # 0, s3'[e] # 0, cache'[e] # s3'[e],
                      e \notin raced' \cup missed'
               PROVE  \E i \in Jobs : task'[i] = "ingest" /\ Holds(i, e)' /\ held'[i] = s3'[e]
    BY DEF StaleOnlyAfterRace
  <2>3. CASE e = d
    <3>1. Holds(j, d)'
      BY <2>1, <2>2, DocsAssumption DEF TypeOK, Holds, Current
    <3> QED
      BY <2>2, <2>3, <3>1 DEF TypeOK
  <2>4. CASE e # d
    <3>1. PICK i \in Jobs : task[i] = "ingest" /\ Holds(i, e) /\ held[i] = s3[e]
      BY <2>2, <2>4 DEF TypeOK, StaleOnlyAfterRace
    <3>2. i # j
      BY <2>1, <3>1 DEF Holds
    <3>3. Holds(i, e)'
      BY <2>1, <2>2, <3>1, <3>2 DEF TypeOK, Holds, Current
    <3> QED
      BY <2>2, <2>4, <3>1, <3>2, <3>3 DEF TypeOK
  <2> QED
    BY <2>3, <2>4
<1>4. ASSUME NEW j \in Jobs, NEW d \in Docs, Get(j, d) PROVE StaleOnlyAfterRace'
  BY <1>4 DEF TypeOK, Version, JobInv, SourceInv, HolderInv,
     StaleOnlyAfterRace, Holds, Current, Nothing, Get, Hit, FinishDoc,
     FirstCall, Current, Goto, store, redis
<1>5. ASSUME NEW j \in Jobs, NEW d \in Docs, Miss(j, d) PROVE StaleOnlyAfterRace'
  BY <1>5 DEF TypeOK, Version, JobInv, SourceInv, HolderInv,
     StaleOnlyAfterRace, Holds, Current, Nothing, Miss, Goto, store, redis,
     history
<1>6. ASSUME NEW j \in Jobs, NEW d \in Docs, Load(j, d) PROVE StaleOnlyAfterRace'
  BY <1>6 DEF TypeOK, Version, JobInv, SourceInv, HolderInv,
     StaleOnlyAfterRace, Holds, Current, Nothing, Load, Loads, Current, Goto,
     store, redis, history
<1>7. ASSUME NEW j \in Jobs, NEW d \in Docs, Absent(j, d) PROVE StaleOnlyAfterRace'
  BY <1>7 DEF TypeOK, Version, JobInv, SourceInv, HolderInv,
     StaleOnlyAfterRace, Holds, Current, Nothing, Absent, FinishDoc, FirstCall,
     Current, Goto, store, redis
<1>8. ASSUME NEW j \in Jobs, NEW d \in Docs, SetDoc(j, d) PROVE StaleOnlyAfterRace'
  <2>1. pc' = [pc EXCEPT ![j] = "index"]
    BY <1>8 DEF SetDoc, Goto
  <2>2. cache' = [cache EXCEPT ![d] = held[j]] /\ UNCHANGED <<s3, task, todo, held>>
    BY <1>8 DEF SetDoc, Stored, store
  <2>3. /\ raced' = IF Mends(j, d) THEN raced \ {d} ELSE raced
        /\ missed' = IF Mends(j, d) THEN missed \ {d} ELSE missed
    BY <1>8 DEF SetDoc
  <2> SUFFICES ASSUME NEW e \in Docs, cache'[e] # 0, s3'[e] # 0, cache'[e] # s3'[e],
                      e \notin raced' \cup missed'
               PROVE  \E i \in Jobs : task'[i] = "ingest" /\ Holds(i, e)' /\ held'[i] = s3'[e]
    BY DEF StaleOnlyAfterRace
  <2>4. CASE e = d
    <3>1. held[j] # s3[d] /\ s3[d] # 0
      BY <2>2, <2>4 DEF TypeOK
    <3>2. d \in raced
      BY <1>8, <3>1 DEF SetDoc, HolderInv, SourceInv
    <3>3. ~Mends(j, d)
      BY <3>1 DEF Mends
    <3> QED
      BY <2>3, <2>4, <3>2, <3>3
  <2>5. CASE e # d
    <3>1. PICK i \in Jobs : task[i] = "ingest" /\ Holds(i, e) /\ held[i] = s3[e]
      BY <2>2, <2>3, <2>5 DEF TypeOK, StaleOnlyAfterRace
    <3>2. i # j
      BY <1>8, <2>5, <3>1, OneCurrent DEF SetDoc, Holds
    <3>3. Holds(i, e)'
      BY <2>1, <2>2, <3>1, <3>2 DEF TypeOK, Holds, Current
    <3> QED
      BY <2>2, <3>1, <3>3
  <2> QED
    BY <2>4, <2>5
<1>9. ASSUME NEW j \in Jobs, NEW d \in Docs, AddToIndex(j, d) PROVE StaleOnlyAfterRace'
  BY <1>9 DEF TypeOK, Version, JobInv, SourceInv, HolderInv,
     StaleOnlyAfterRace, Holds, Current, Nothing, AddToIndex, FinishDoc,
     FirstCall, Current, Goto, store
<1>10. ASSUME NEW j \in Jobs, NEW d \in Docs, LoadFails(j, d) PROVE StaleOnlyAfterRace'
  BY <1>10 DEF TypeOK, Version, JobInv, SourceInv, HolderInv,
     StaleOnlyAfterRace, Holds, Current, Nothing, LoadFails, Fault, FinishDoc,
     FirstCall, Current, Goto, store, redis
<1>11. ASSUME NEW j \in Jobs, NEW d \in Docs, SetFails(j, d) PROVE StaleOnlyAfterRace'
  BY <1>11 DEF TypeOK, Version, JobInv, SourceInv, HolderInv,
     StaleOnlyAfterRace, Holds, Current, Nothing, SetFails, Fault, FinishDoc,
     FirstCall, Current, Goto, store, redis
<1>12. ASSUME NEW j \in Jobs, ReadIndex(j) PROVE StaleOnlyAfterRace'
  BY <1>12, ZenonT(60) DEF TypeOK, Version, JobInv, SourceInv, HolderInv,
     StaleOnlyAfterRace, Holds, Current, Nothing, ReadIndex, Goto, store,
     redis, history
<1>13. ASSUME NEW j \in Jobs, DeleteKeys(j) PROVE StaleOnlyAfterRace'
  BY <1>13, ZenonT(60) DEF TypeOK, Version, JobInv, SourceInv, HolderInv,
     StaleOnlyAfterRace, Holds, Current, Nothing, DeleteKeys, Goto, store,
     history
<1>14. ASSUME NEW j \in Jobs, DeleteIndex(j) PROVE StaleOnlyAfterRace'
  BY <1>14, ZenonT(60) DEF TypeOK, Version, JobInv, SourceInv, HolderInv,
     StaleOnlyAfterRace, Holds, Current, Nothing, DeleteIndex, FirstCall, Goto,
     store, history
<1>15. ASSUME NEW j \in Jobs, GetFails(j) PROVE StaleOnlyAfterRace'
  BY <1>15, ZenonT(60) DEF TypeOK, Version, JobInv, SourceInv, HolderInv,
     StaleOnlyAfterRace, Holds, Current, Nothing, GetFails, Fault, Goto, store,
     redis
<1>16. ASSUME NEW j \in Jobs, ClearFails(j) PROVE StaleOnlyAfterRace'
  BY <1>16, ZenonT(60) DEF TypeOK, Version, JobInv, SourceInv, HolderInv,
     StaleOnlyAfterRace, Holds, Current, Nothing, ClearFails, Fault, FirstCall,
     Goto, store, redis
<1>17. ASSUME NEW j \in Jobs, Return(j) PROVE StaleOnlyAfterRace'
  BY <1>17 DEF TypeOK, Version, JobInv, SourceInv, HolderInv,
     StaleOnlyAfterRace, Holds, Current, Nothing, Return, Goto, store, redis
<1>18. ASSUME NEW d \in Docs, Delete(d) PROVE StaleOnlyAfterRace'
  BY <1>18 DEF TypeOK, Version, JobInv, SourceInv, HolderInv,
     StaleOnlyAfterRace, Holds, Current, Nothing, Delete, redis, job
<1>19. ASSUME Restart PROVE StaleOnlyAfterRace'
  BY <1>19 DEF TypeOK, Version, JobInv, SourceInv, HolderInv,
     StaleOnlyAfterRace, Holds, Current, Nothing, Restart, Fault, store, job
<1>20. CASE UNCHANGED vars
  BY <1>20 DEF TypeOK, Version, JobInv, SourceInv, HolderInv,
     StaleOnlyAfterRace, Holds, Current, Nothing, vars, store, redis, job,
     history
<1> QED
  BY <1>1, <1>2, <1>3, <1>4, <1>5, <1>6, <1>7, <1>8, <1>9, <1>10, <1>11, <1>12,
     <1>13, <1>14, <1>15, <1>16, <1>17, <1>18, <1>19, <1>20 DEF Next, HandleDoc

LEMMA ServeStep ==
  ASSUME TypeOK, JobInv, ServeInv, [Next]_vars
  PROVE  ServeInv'
<1>1. ASSUME NEW j \in Jobs, Ask(j) PROVE ServeInv'
  BY <1>1 DEF TypeOK, Version, JobInv, ServeInv, Nothing, Current, Ask,
     BeginListing, Begin, Listed, FirstCall, Goto, store, redis
<1>2. ASSUME NEW j \in Jobs, Reload(j) PROVE ServeInv'
  BY <1>2 DEF TypeOK, Version, JobInv, ServeInv, Nothing, Current, Reload,
     ReloadStart, BeginListing, Begin, Listed, FirstCall, Goto, store, redis
<1>3. ASSUME NEW j \in Jobs, NEW d \in Docs, Ingest(j, d) PROVE ServeInv'
  BY <1>3 DEF TypeOK, Version, JobInv, ServeInv, Nothing, Current, Ingest,
     AfterUpload, Goto, redis
<1>4. ASSUME NEW j \in Jobs, NEW d \in Docs, Get(j, d) PROVE ServeInv'
  BY <1>4 DEF TypeOK, Version, JobInv, ServeInv, Nothing, Current, Get, Hit,
     FinishDoc, FirstCall, Current, Goto, store, redis
<1>5. ASSUME NEW j \in Jobs, NEW d \in Docs, Miss(j, d) PROVE ServeInv'
  BY <1>5 DEF TypeOK, Version, JobInv, ServeInv, Nothing, Current, Miss, Goto,
     store, redis, history
<1>6. ASSUME NEW j \in Jobs, NEW d \in Docs, Load(j, d) PROVE ServeInv'
  BY <1>6 DEF TypeOK, Version, JobInv, ServeInv, Nothing, Current, Load, Loads,
     Current, Goto, store, redis, history
<1>7. ASSUME NEW j \in Jobs, NEW d \in Docs, Absent(j, d) PROVE ServeInv'
  BY <1>7 DEF TypeOK, Version, JobInv, ServeInv, Nothing, Current, Absent,
     FinishDoc, FirstCall, Current, Goto, store, redis
<1>8. ASSUME NEW j \in Jobs, NEW d \in Docs, SetDoc(j, d) PROVE ServeInv'
  BY <1>8 DEF TypeOK, Version, JobInv, ServeInv, Nothing, Current, SetDoc,
     Stored, Mends, Holds, Current, Goto, store
<1>9. ASSUME NEW j \in Jobs, NEW d \in Docs, AddToIndex(j, d) PROVE ServeInv'
  BY <1>9 DEF TypeOK, Version, JobInv, ServeInv, Nothing, Current, AddToIndex,
     FinishDoc, FirstCall, Current, Goto, store
<1>10. ASSUME NEW j \in Jobs, NEW d \in Docs, LoadFails(j, d) PROVE ServeInv'
  BY <1>10 DEF TypeOK, Version, JobInv, ServeInv, Nothing, Current, LoadFails,
     Fault, FinishDoc, FirstCall, Current, Goto, store, redis
<1>11. ASSUME NEW j \in Jobs, NEW d \in Docs, SetFails(j, d) PROVE ServeInv'
  BY <1>11 DEF TypeOK, Version, JobInv, ServeInv, Nothing, Current, SetFails,
     Fault, FinishDoc, FirstCall, Current, Goto, store, redis
<1>12. ASSUME NEW j \in Jobs, ReadIndex(j) PROVE ServeInv'
  BY <1>12 DEF TypeOK, Version, JobInv, ServeInv, Nothing, Current, ReadIndex,
     Goto, store, redis, history
<1>13. ASSUME NEW j \in Jobs, DeleteKeys(j) PROVE ServeInv'
  BY <1>13 DEF TypeOK, Version, JobInv, ServeInv, Nothing, Current, DeleteKeys,
     Goto, store, history
<1>14. ASSUME NEW j \in Jobs, DeleteIndex(j) PROVE ServeInv'
  BY <1>14 DEF TypeOK, Version, JobInv, ServeInv, Nothing, Current,
     DeleteIndex, FirstCall, Goto, store, history
<1>15. ASSUME NEW j \in Jobs, GetFails(j) PROVE ServeInv'
  BY <1>15 DEF TypeOK, Version, JobInv, ServeInv, Nothing, Current, GetFails,
     Fault, Goto, store, redis
<1>16. ASSUME NEW j \in Jobs, ClearFails(j) PROVE ServeInv'
  BY <1>16 DEF TypeOK, Version, JobInv, ServeInv, Nothing, Current, ClearFails,
     Fault, FirstCall, Goto, store, redis
<1>17. ASSUME NEW j \in Jobs, Return(j) PROVE ServeInv'
  BY <1>17 DEF TypeOK, Version, JobInv, ServeInv, Nothing, Current, Return,
     Goto, store, redis
<1>18. ASSUME NEW d \in Docs, Delete(d) PROVE ServeInv'
  BY <1>18 DEF TypeOK, Version, JobInv, ServeInv, Nothing, Current, Delete,
     redis, job
<1>19. ASSUME Restart PROVE ServeInv'
  BY <1>19 DEF TypeOK, Version, JobInv, ServeInv, Nothing, Current, Restart,
     Fault, store, job
<1>20. CASE UNCHANGED vars
  BY <1>20 DEF TypeOK, Version, JobInv, ServeInv, Nothing, Current, vars,
     store, redis, job, history
<1> QED
  BY <1>1, <1>2, <1>3, <1>4, <1>5, <1>6, <1>7, <1>8, <1>9, <1>10, <1>11, <1>12,
     <1>13, <1>14, <1>15, <1>16, <1>17, <1>18, <1>19, <1>20 DEF Next, HandleDoc

LEMMA ReloadStep ==
  ASSUME TypeOK, JobInv, ServeInv, ReloadInv, [Next]_vars
  PROVE  ReloadInv'
<1>1. ASSUME NEW j \in Jobs, Ask(j) PROVE ReloadInv'
  BY <1>1 DEF TypeOK, Version, JobInv, ServeInv, ReloadInv, ReloadOf, Current,
     Nothing, Ask, BeginListing, Begin, Listed, FirstCall, Goto, store, redis
<1>2. ASSUME NEW j \in Jobs, Reload(j) PROVE ReloadInv'
  BY <1>2 DEF TypeOK, Version, JobInv, ServeInv, ReloadInv, ReloadOf, Current,
     Nothing, Reload, ReloadStart, BeginListing, Begin, Listed, FirstCall,
     Goto, store, redis
<1>3. ASSUME NEW j \in Jobs, NEW d \in Docs, Ingest(j, d) PROVE ReloadInv'
  BY <1>3 DEF TypeOK, Version, JobInv, ServeInv, ReloadInv, ReloadOf, Current,
     Nothing, Ingest, AfterUpload, Goto, redis
<1>4. ASSUME NEW j \in Jobs, NEW d \in Docs, Get(j, d) PROVE ReloadInv'
  BY <1>4 DEF TypeOK, Version, JobInv, ServeInv, ReloadInv, ReloadOf, Current,
     Nothing, Get, Hit, FinishDoc, FirstCall, Current, Goto, store, redis
<1>5. ASSUME NEW j \in Jobs, NEW d \in Docs, Miss(j, d) PROVE ReloadInv'
  BY <1>5 DEF TypeOK, Version, JobInv, ServeInv, ReloadInv, ReloadOf, Current,
     Nothing, Miss, Goto, store, redis, history
<1>6. ASSUME NEW j \in Jobs, NEW d \in Docs, Load(j, d) PROVE ReloadInv'
  <2>1. pc[j] = "load" /\ Current(j, d) /\ pc' = [pc EXCEPT ![j] = "set"]
    BY <1>6 DEF Load, Goto
  <2>2. held' = [held EXCEPT ![j] = s3[d]]
    BY <1>6 DEF Load
  <2>3. UNCHANGED <<s3, cache, index, task, todo, there, alone>>
    BY <1>6 DEF Load, store, redis, history
  <2> SUFFICES ASSUME NEW i \in Jobs, alone[i] PROVE ReloadOf(i)'
    BY <2>3 DEF ReloadInv
  <2>4. i = j
    BY <2>1 DEF ReloadInv, ReloadOf
  <2>5. \A e \in Docs : Current(j, e) => e = d
    BY <2>1, OneCurrent
  <2>6. \A k \in Jobs \ {j} : pc'[k] = "idle"
    BY <2>1, <2>4 DEF TypeOK, ReloadInv, ReloadOf
  <2>7. task[j] = "reload" =>
          /\ there[j] = {e \in Docs : s3[e] # 0}
          /\ there[j] # {} => /\ index = there[j] \ todo[j]
                              /\ todo[j] \subseteq there[j]
                              /\ \A e \in index : cache[e] = s3[e]
    BY <2>1, <2>4 DEF ReloadInv, ReloadOf
  <2>8. \A e \in todo[j] : Current(j, e)' => held'[j] = s3[e]
    BY <2>2, <2>3, <2>5 DEF TypeOK, Current
  <2>9. pc'[j] = "set"
    BY <2>1 DEF TypeOK
  <2> QED
    BY <2>3, <2>4, <2>6, <2>7, <2>8, <2>9 DEF ReloadOf
<1>7. ASSUME NEW j \in Jobs, NEW d \in Docs, Absent(j, d) PROVE ReloadInv'
  BY <1>7, SMTT(60) DEF TypeOK, Version, JobInv, ServeInv, ReloadInv, ReloadOf, Current,
     Nothing, Absent, FinishDoc, FirstCall, Current, Goto, store, redis
<1>8. ASSUME NEW j \in Jobs, NEW d \in Docs, SetDoc(j, d) PROVE ReloadInv'
  BY <1>8, DocsAssumption, SMTT(60) DEF TypeOK, Version, JobInv, ServeInv, ReloadInv,
     ReloadOf, Current, Nothing, SetDoc, Stored, Mends, Holds, Current, Goto,
     store
<1>9. ASSUME NEW j \in Jobs, NEW d \in Docs, AddToIndex(j, d) PROVE ReloadInv'
  BY <1>9, DocsAssumption, SMTT(60) DEF TypeOK, Version, JobInv, ServeInv, ReloadInv,
     ReloadOf, Current, Nothing, AddToIndex, FinishDoc, FirstCall, Current,
     Goto, store
<1>10. ASSUME NEW j \in Jobs, NEW d \in Docs, LoadFails(j, d) PROVE ReloadInv'
  BY <1>10 DEF TypeOK, Version, JobInv, ServeInv, ReloadInv, ReloadOf, Current,
     Nothing, LoadFails, Fault, FinishDoc, FirstCall, Current, Goto, store,
     redis
<1>11. ASSUME NEW j \in Jobs, NEW d \in Docs, SetFails(j, d) PROVE ReloadInv'
  BY <1>11 DEF TypeOK, Version, JobInv, ServeInv, ReloadInv, ReloadOf, Current,
     Nothing, SetFails, Fault, FinishDoc, FirstCall, Current, Goto, store,
     redis
<1>12. ASSUME NEW j \in Jobs, ReadIndex(j) PROVE ReloadInv'
  BY <1>12 DEF TypeOK, Version, JobInv, ServeInv, ReloadInv, ReloadOf, Current,
     Nothing, ReadIndex, Goto, store, redis, history
<1>13. ASSUME NEW j \in Jobs, DeleteKeys(j) PROVE ReloadInv'
  BY <1>13 DEF TypeOK, Version, JobInv, ServeInv, ReloadInv, ReloadOf, Current,
     Nothing, DeleteKeys, Goto, store, history
<1>14. ASSUME NEW j \in Jobs, DeleteIndex(j) PROVE ReloadInv'
  BY <1>14 DEF TypeOK, Version, JobInv, ServeInv, ReloadInv, ReloadOf, Current,
     Nothing, DeleteIndex, FirstCall, Goto, store, history
<1>15. ASSUME NEW j \in Jobs, GetFails(j) PROVE ReloadInv'
  BY <1>15 DEF TypeOK, Version, JobInv, ServeInv, ReloadInv, ReloadOf, Current,
     Nothing, GetFails, Fault, Goto, store, redis
<1>16. ASSUME NEW j \in Jobs, ClearFails(j) PROVE ReloadInv'
  BY <1>16 DEF TypeOK, Version, JobInv, ServeInv, ReloadInv, ReloadOf, Current,
     Nothing, ClearFails, Fault, FirstCall, Goto, store, redis
<1>17. ASSUME NEW j \in Jobs, Return(j) PROVE ReloadInv'
  BY <1>17 DEF TypeOK, Version, JobInv, ServeInv, ReloadInv, ReloadOf, Current,
     Nothing, Return, Goto, store, redis
<1>18. ASSUME NEW d \in Docs, Delete(d) PROVE ReloadInv'
  BY <1>18 DEF TypeOK, Version, JobInv, ServeInv, ReloadInv, ReloadOf, Current,
     Nothing, Delete, redis, job
<1>19. ASSUME Restart PROVE ReloadInv'
  BY <1>19 DEF TypeOK, Version, JobInv, ServeInv, ReloadInv, ReloadOf, Current,
     Nothing, Restart, Fault, store, job
<1>20. CASE UNCHANGED vars
  <2>1. UNCHANGED <<s3, cache, index, task, pc, todo, held, there, alone>>
    BY <1>20 DEF vars, store, redis, job, history
  <2> QED
    BY <2>1 DEF ReloadInv, ReloadOf, Current
<1> QED
  BY <1>1, <1>2, <1>3, <1>4, <1>5, <1>6, <1>7, <1>8, <1>9, <1>10, <1>11, <1>12,
     <1>13, <1>14, <1>15, <1>16, <1>17, <1>18, <1>19, <1>20 DEF Next, HandleDoc

----------------------------------------------------------------------------
(* The theorems *)

LEMMA InitInv == Init => Inv
<1> SUFFICES ASSUME Init PROVE Inv
  OBVIOUS
<1>1. TypeOK
  BY BoundAssumption DEF Init, TypeOK, Version, Calls, Nothing
<1>2. JobInv
  BY DEF Init, JobInv
<1>3. SourceInv /\ AckInv /\ StaleOnlyAfterRace
  BY DEF Init, SourceInv, AckInv, StaleOnlyAfterRace, Nothing
<1>4. HolderInv
  BY DEF Init, HolderInv, Holds
<1>5. ServeInv
  BY DEF Init, ServeInv
<1>6. ReloadInv
  BY DEF Init, ReloadInv
<1> QED
  BY <1>1, <1>2, <1>3, <1>4, <1>5, <1>6 DEF Inv

LEMMA StepInv == Inv /\ [Next]_vars => Inv'
  BY TypeStep, JobStep, SourceStep, HolderStep, AckStep, StaleStep, ServeStep,
     ReloadStep DEF Inv

LEMMA Invariance == Spec => []Inv
  BY InitInv, StepInv, PTL DEF Spec

\* What a question is given in a step is no older than what had been
\* acknowledged when it began.
LEMMA ServedFresh ==
  ASSUME Inv, [Next]_vars, NEW q \in Jobs, NEW e \in Docs, Served(q, e)
  PROVE  got'[q][e] >= floor[q][e] \/ e \in raced \cup missed
<1> DEFINE Fresh == got'[q][e] >= floor[q][e] \/ e \in raced \cup missed
<1> USE DEF Served
<1>1. TypeOK /\ JobInv /\ SourceInv /\ HolderInv /\ AckInv
  BY DEF Inv
<1>2. ASSUME NEW j \in Jobs, NEW d \in Docs, NEW content \in Nat, FinishDoc(j, d, content)
      PROVE  q = j /\ e = d /\ got'[q][e] = content /\ task[j] = "question"
  BY <1>1, <1>2 DEF FinishDoc, TypeOK, Version
<1>3. ASSUME NEW j \in Jobs, NEW d \in Docs, Get(j, d) PROVE Fresh
  <2>1. q = j /\ e = d /\ got'[q][e] = cache[e]
    BY <1>1, <1>2, <1>3 DEF Get, TypeOK, Version
  <2>2. cache[e] >= acked[e] \/ e \in raced \cup missed
    BY <1>3, <2>1, <1>1 DEF Get, Hit, AckInv
  <2>3. floor[q][e] <= acked[e]
    BY <1>1 DEF SourceInv
  <2> QED
    BY <1>1, <2>1, <2>2, <2>3 DEF TypeOK, Version
<1>4. ASSUME NEW j \in Jobs, NEW d \in Docs, AddToIndex(j, d) \/ SetFails(j, d) PROVE Fresh
  <2>1. /\ q = j /\ e = d /\ task[j] = "question"
        /\ got'[q][e] = held[q]
    BY <1>1, <1>2, <1>4 DEF AddToIndex, SetFails, TypeOK, Version
  <2>2. pc[j] \in {"set", "index"} /\ Current(j, d)
    BY <1>4 DEF AddToIndex, SetFails
  <2> QED
    BY <1>1, <2>1, <2>2 DEF HolderInv
<1>5. ASSUME NEW j \in Jobs, NEW d \in Docs, Absent(j, d) \/ LoadFails(j, d) PROVE FALSE
  <2>1. got'[q][e] = 0
    BY <1>2, <1>5 DEF Absent, LoadFails
  <2> QED
    BY <2>1
<1>6. ASSUME NEW j \in Jobs, Return(j) PROVE FALSE
  BY <1>1, <1>6 DEF Return, TypeOK, Nothing
<1>7. CASE got' = got
  BY <1>7
<1>8. \/ got' = got
      \/ \E j \in Jobs : \/ Return(j)
                         \/ \E d \in Docs : \/ Get(j, d) \/ Absent(j, d)
                                            \/ AddToIndex(j, d)
                                            \/ LoadFails(j, d) \/ SetFails(j, d)
  BY DEF Next, HandleDoc, Ask, Reload, BeginListing, Ingest, Miss, Load, SetDoc,
         ReadIndex, DeleteKeys, DeleteIndex, GetFails, ClearFails, Delete, Restart,
         vars, job
<1> QED
  BY <1>3, <1>4, <1>5, <1>6, <1>7, <1>8

\* Every variable keeps its type; nothing but a content is ever cached.
THEOREM TypeCorrect == Spec => []TypeOK
<1>1. Inv => TypeOK
  BY DEF Inv
<1> QED
  BY <1>1, Invariance, PTL

\* However many questions, ingests and reloads interleave, Redis differs from
\* S3 only while the ingest is about to write, or after an upload raced a job
\* holding the older content, or after a failed write of an ingest.
THEOREM StaleOnlyAfterRaces == Spec => []StaleOnlyAfterRace
<1>1. Inv => StaleOnlyAfterRace
  BY DEF Inv
<1> QED
  BY <1>1, Invariance, PTL

\* A question asked after an ingest has returned is served that content or a
\* newer one, unless the document was raced or missed.
THEOREM ReadsItsIngests == Spec => ReadYourIngest
<1> DEFINE Fresh == \A j \in Jobs, d \in Docs :
              Served(j, d) => got'[j][d] >= floor[j][d] \/ d \in raced \cup missed
<1>1. Inv /\ [Next]_vars => [Fresh]_vars
  BY ServedFresh
<1>2. Spec => [][Fresh]_vars
  <2> HIDE DEF Fresh
  <2> QED
    BY <1>1, Invariance, PTL DEF Spec
<1> QED
  BY <1>2 DEF ReadYourIngest

\* A deleted document is never served to a question asked after the deletion,
\* whatever Redis holds: S3 decides which documents there are.
THEOREM DeletedNeverServed == Spec => []DeletedNotServed
<1>1. Inv => DeletedNotServed
  BY DEF Inv, ServeInv, DeletedNotServed
<1> QED
  BY <1>1, Invariance, PTL

\* Fail-open: no failure of Redis costs a question a document.
THEOREM NothingEverMissing == Spec => []NothingMissing
<1>1. Inv => NothingMissing
  BY DEF Inv, JobInv, ServeInv, NothingMissing
<1> QED
  BY <1>1, Invariance, PTL

\* A reload that ran alone leaves exactly S3 in the tenant's index.
THEOREM ReloadAlwaysHeals == Spec => []ReloadHeals
<1>1. Inv => ReloadHeals
  BY ZenonT(60) DEF Inv, JobInv, ReloadInv, ReloadOf, ReloadHeals
<1> QED
  BY <1>1, Invariance, PTL

=============================================================================
