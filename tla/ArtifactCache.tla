---------------------------- MODULE ArtifactCache ----------------------------
(***************************************************************************)
(* The artifact directory of the science service: the writer that streams  *)
(* a temporary and moves it into place (api_artifacts.py), the quota and   *)
(* the ownership lock (artifact_cache.py), the descriptor-verified reader  *)
(* (artifact_store.py) and the offline cleanup command.                    *)
(*                                                                         *)
(* The actors are the service's workers, its HTTP readers, the cleanup     *)
(* process and the operating system, which may kill the service.  Bytes    *)
(* are counted in batches; an artifact id stands for its contents.         *)
(***************************************************************************)
EXTENDS Naturals, FiniteSets, FiniteSetsExt

CONSTANTS
    Artifacts,       \* SHA-256 ids of the artifacts the jobs produce
    SizeOf,          \* their sizes, in batches
    Writers,         \* the pool's threads
    Readers,         \* HTTP threads that serve GET /v1/artifacts/{id}
    Temporaries,     \* names .arrow-*.tmp
    MaxBytes,        \* max_bytes of ArtifactCache
    MaxWriterBytes,  \* max_writer_bytes, the limit of one temporary
    NoName           \* neither an artifact nor a temporary

ASSUME CacheAssumption ==
    /\ IsFiniteSet(Artifacts)
    /\ SizeOf \in [Artifacts -> Nat \ {0}]
    /\ MaxBytes \in Nat \ {0} /\ MaxWriterBytes \in Nat \ {0}
    /\ NoName \notin Artifacts \cup Temporaries

VARIABLES
    owner,       \* who holds the flock on the lock file
    active,      \* the owner's _active_temporaries
    stored,      \* bytes of each artifact file, 0 where there is none
    tempBytes,   \* bytes of each existing temporary
    writerAt,    \* where each worker is in write_arrow
    writes,      \* the artifact it produces
    temp,        \* the temporary it created
    readerAt,    \* where each reader is in open_verified_artifact
    reads,       \* the artifact it was asked for
    linked       \* its descriptor is still the file under that name

\* Temporaries a killed service left behind: what a reader of the directory
\* cannot see, kept to state what the code must not add to.
VARIABLE abandoned

fileVars   == <<stored, tempBytes>>
writerVars == <<writerAt, writes, temp>>
readerVars == <<readerAt, reads, linked>>
vars == <<owner, active, fileVars, writerVars, readerVars, abandoned>>

\* created: the temporary exists and is not registered yet; writing:
\* registered; leaving: `with active' ends; unlinking: the outer finally.
WriterPlaces == {"idle", "created", "writing", "leaving", "unlinking"}
ReaderPlaces == {"idle", "asked", "opened", "served", "refused", "missing"}

temps == DOMAIN tempBytes

TypeOK ==
    /\ owner \in {"none", "service", "cleanup"}
    /\ active \in SUBSET Temporaries
    /\ stored \in [Artifacts -> Nat]
    /\ temps \in SUBSET Temporaries
    /\ \A t \in temps : tempBytes[t] \in 0..MaxWriterBytes
    /\ writerAt \in [Writers -> WriterPlaces]
    /\ writes \in [Writers -> Artifacts \cup {NoName}]
    /\ temp \in [Writers -> Temporaries \cup {NoName}]
    /\ readerAt \in [Readers -> ReaderPlaces]
    /\ reads \in [Readers -> Artifacts \cup {NoName}]
    /\ linked \in [Readers -> BOOLEAN]
    /\ abandoned \in SUBSET Temporaries

\* The first start finds an empty directory.
Init ==
    /\ owner = "none"
    /\ active = {}
    /\ stored = [a \in Artifacts |-> 0]
    /\ tempBytes = [t \in {} |-> 0]
    /\ writerAt = [w \in Writers |-> "idle"]
    /\ writes = [w \in Writers |-> NoName]
    /\ temp = [w \in Writers |-> NoName]
    /\ readerAt = [r \in Readers |-> "idle"]
    /\ reads = [r \in Readers |-> NoName]
    /\ linked = [r \in Readers |-> FALSE]
    /\ abandoned = {}
-----------------------------------------------------------------------------
StoredBytes == MapThenSumSet(LAMBDA a : stored[a], Artifacts)

BytesOf(names) == MapThenSumSet(LAMBDA t : tempBytes[t], names)

\* Mutant: the temporaries of live writers are counted as well.
FootprintWithLive == StoredBytes + BytesOf(temps)

\* footprint_bytes: artifacts, and the temporaries no live writer registered.
Footprint == StoredBytes + BytesOf(temps \ active)

WithoutTemp(t) == [u \in temps \ {t} |-> tempBytes[u]]

\* A name that is replaced or removed: a descriptor opened before keeps the
\* old file, whose link count drops to zero.
Unlinks(a) == linked' = [r \in Readers |-> linked[r] /\ reads[r] # a]

Goto(w, place) == writerAt' = [writerAt EXCEPT ![w] = place]
-----------------------------------------------------------------------------
(* The owner of the directory.                                             *)

\* ArtifactCache._open in the service; a held lock fails the start.
ServiceOpens ==
    /\ owner = "none"
    /\ owner' = "service"
    /\ active' = {}
    /\ UNCHANGED <<fileVars, writerVars, readerVars, abandoned>>

\* Mutant: the pool is not joined before the lock is given up.
ServiceClosesEarly ==
    /\ owner = "service"
    /\ owner' = "none"
    /\ active' = {}
    /\ UNCHANGED <<fileVars, writerVars, readerVars, abandoned>>

\* V5ApiService.close: the workers are joined, then the cache is closed.
ServiceCloses ==
    /\ owner = "service"
    /\ \A w \in Writers : writerAt[w] = "idle"
    /\ owner' = "none"
    /\ active' = {}
    /\ UNCHANGED <<fileVars, writerVars, readerVars, abandoned>>

\* The service is killed: the lock goes with its descriptor, the temporaries
\* of its workers stay.
ServiceKilled ==
    /\ owner = "service"
    /\ owner' = "none"
    /\ active' = {}
    /\ abandoned' = abandoned \cup {temp[w] : w \in {v \in Writers : temp[v] \in temps}}
    /\ writerAt' = [w \in Writers |-> "idle"]
    /\ writes' = [w \in Writers |-> NoName]
    /\ temp' = [w \in Writers |-> NoName]
    /\ readerAt' = [r \in Readers |-> "idle"]
    /\ reads' = [r \in Readers |-> NoName]
    /\ linked' = [r \in Readers |-> FALSE]
    /\ UNCHANGED fileVars

CleanupOpens ==
    /\ owner = "none"
    /\ owner' = "cleanup"
    /\ UNCHANGED <<active, fileVars, writerVars, readerVars, abandoned>>

\* remove_selected unlinks the selected names one by one.
CleanupRemovesArtifact(a) ==
    /\ owner = "cleanup"
    /\ stored[a] # 0
    /\ stored' = [stored EXCEPT ![a] = 0]
    /\ Unlinks(a)
    /\ UNCHANGED <<owner, active, tempBytes, writerVars, readerAt, reads, abandoned>>

CleanupRemovesTemporary(t) ==
    /\ owner = "cleanup"
    /\ t \in temps \ active
    /\ tempBytes' = WithoutTemp(t)
    /\ abandoned' = abandoned \ {t}
    /\ UNCHANGED <<owner, active, stored, writerVars, readerVars>>

\* close(), or the end of the cleanup process.
CleanupCloses ==
    /\ owner = "cleanup"
    /\ owner' = "none"
    /\ UNCHANGED <<active, fileVars, writerVars, readerVars, abandoned>>
-----------------------------------------------------------------------------
(* write_arrow on a worker's thread.                                       *)

\* NamedTemporaryFile picks a random name that does not exist; that it is one
\* another worker still remembers is left out.
WriterCreates(w, a, t) ==
    /\ owner = "service"
    /\ writerAt[w] = "idle"
    /\ t \notin temps \cup {temp[v] : v \in Writers}
    /\ tempBytes' = [u \in temps \cup {t} |-> IF u = t THEN 0 ELSE tempBytes[u]]
    /\ writes' = [writes EXCEPT ![w] = a]
    /\ temp' = [temp EXCEPT ![w] = t]
    /\ Goto(w, "created")
    /\ UNCHANGED <<owner, active, stored, readerVars, abandoned>>

\* active_writer is entered.
WriterRegisters(w) ==
    /\ writerAt[w] = "created"
    /\ active' = active \cup {temp[w]}
    /\ Goto(w, "writing")
    /\ UNCHANGED <<owner, fileVars, writes, temp, readerVars, abandoned>>

\* Mutant: the size is tested after the write.
WriterWritesPastLimit(w) ==
    /\ writerAt[w] = "writing"
    /\ tempBytes[temp[w]] < SizeOf[writes[w]]
    /\ tempBytes[temp[w]] <= MaxWriterBytes
    /\ tempBytes' = [tempBytes EXCEPT ![temp[w]] = @ + 1]
    /\ UNCHANGED <<owner, active, stored, writerVars, readerVars, abandoned>>

\* One batch through BoundedArtifactSink, which raises before it exceeds the
\* limit (WriterRaises).
WriterWrites(w) ==
    /\ writerAt[w] = "writing"
    /\ tempBytes[temp[w]] < SizeOf[writes[w]]
    /\ tempBytes[temp[w]] < MaxWriterBytes
    /\ tempBytes' = [tempBytes EXCEPT ![temp[w]] = @ + 1]
    /\ UNCHANGED <<owner, active, stored, writerVars, readerVars, abandoned>>

\* The writer's limit, the quota, a refused promotion, the deadline or the
\* disk: every exception leaves through the same two finally clauses.
WriterRaises(w) ==
    /\ writerAt[w] = "writing"
    /\ Goto(w, "leaving")
    /\ UNCHANGED <<owner, active, fileVars, writes, temp, readerVars, abandoned>>

\* Mutant: the bytes of the file that is replaced are not given back.
HasRoomWithoutReplacement(w) ==
    Footprint - (IF temp[w] \in active THEN 0 ELSE tempBytes[temp[w]])
        + tempBytes[temp[w]] <= MaxBytes

\* ArtifactCache.publish admits the complete, hashed temporary.
HasRoom(w) ==
    LET baseline == Footprint - (IF temp[w] \in active THEN 0 ELSE tempBytes[temp[w]])
        final    == baseline + tempBytes[temp[w]]
    IN  \/ final <= MaxBytes + stored[writes[w]]
        \/ final <= baseline + stored[writes[w]]

MovesIntoPlace(w) ==
    /\ stored' = [stored EXCEPT ![writes[w]] = tempBytes[temp[w]]]
    /\ tempBytes' = WithoutTemp(temp[w])
    /\ Unlinks(writes[w])
    /\ Goto(w, "leaving")
    /\ UNCHANGED <<owner, active, writes, temp, readerAt, reads, abandoned>>

\* Mutant: the quota is not tested for the bytes that are to be added.
WriterPublishesOnOldFootprint(w) ==
    /\ writerAt[w] = "writing"
    /\ tempBytes[temp[w]] = SizeOf[writes[w]]
    /\ Footprint <= MaxBytes
    /\ MovesIntoPlace(w)

\* Mutant: the file is moved before the last batch is in it.
WriterPublishesUnfinished(w) ==
    /\ writerAt[w] = "writing"
    /\ HasRoom(w)
    /\ MovesIntoPlace(w)

WriterPublishes(w) ==
    /\ writerAt[w] = "writing"
    /\ tempBytes[temp[w]] = SizeOf[writes[w]]
    /\ HasRoom(w)
    /\ MovesIntoPlace(w)

\* active_writer is left.
WriterUnregisters(w) ==
    /\ writerAt[w] = "leaving"
    /\ active' = active \ {temp[w]}
    /\ Goto(w, "unlinking")
    /\ UNCHANGED <<owner, fileVars, writes, temp, readerVars, abandoned>>

\* Mutant: the temporary is removed only after a successful publication.
WriterReturns(w) ==
    /\ writerAt[w] = "unlinking"
    /\ writes' = [writes EXCEPT ![w] = NoName]
    /\ temp' = [temp EXCEPT ![w] = NoName]
    /\ Goto(w, "idle")
    /\ UNCHANGED <<owner, active, fileVars, readerVars, abandoned>>

\* temporary.unlink(missing_ok=True), and write_arrow returns or raises.
WriterUnlinks(w) ==
    /\ writerAt[w] = "unlinking"
    /\ tempBytes' = WithoutTemp(temp[w])
    /\ writes' = [writes EXCEPT ![w] = NoName]
    /\ temp' = [temp EXCEPT ![w] = NoName]
    /\ Goto(w, "idle")
    /\ UNCHANGED <<owner, active, stored, readerVars, abandoned>>
-----------------------------------------------------------------------------
(* open_verified_artifact on an HTTP thread.                               *)

ReaderAsks(r, a) ==
    /\ owner = "service"
    /\ readerAt[r] = "idle"
    /\ readerAt' = [readerAt EXCEPT ![r] = "asked"]
    /\ reads' = [reads EXCEPT ![r] = a]
    /\ UNCHANGED <<owner, active, fileVars, writerVars, linked, abandoned>>

\* os.open without following links.
ReaderOpens(r) ==
    /\ readerAt[r] = "asked"
    /\ readerAt' = [readerAt EXCEPT ![r] = IF stored[reads[r]] = 0 THEN "missing" ELSE "opened"]
    /\ linked' = [linked EXCEPT ![r] = stored[reads[r]] # 0]
    /\ UNCHANGED <<owner, active, fileVars, writerVars, reads, abandoned>>

\* os.fstat: a link count other than one is refused, otherwise the digest of
\* the opened file is compared and that descriptor is streamed.
ReaderVerifies(r) ==
    /\ readerAt[r] = "opened"
    /\ readerAt' = [readerAt EXCEPT ![r] = IF linked[r] THEN "served" ELSE "refused"]
    /\ UNCHANGED <<owner, active, fileVars, writerVars, reads, linked, abandoned>>

ReaderEnds(r) ==
    /\ readerAt[r] \in {"served", "refused", "missing"}
    /\ readerAt' = [readerAt EXCEPT ![r] = "idle"]
    /\ reads' = [reads EXCEPT ![r] = NoName]
    /\ linked' = [linked EXCEPT ![r] = FALSE]
    /\ UNCHANGED <<owner, active, fileVars, writerVars, abandoned>>
-----------------------------------------------------------------------------
Writer(w) ==
    \/ \E a \in Artifacts, t \in Temporaries : WriterCreates(w, a, t)
    \/ WriterRegisters(w) \/ WriterWrites(w) \/ WriterRaises(w) \/ WriterPublishes(w)
    \/ WriterUnregisters(w) \/ WriterUnlinks(w)

Reader(r) ==
    \/ \E a \in Artifacts : ReaderAsks(r, a)
    \/ ReaderOpens(r) \/ ReaderVerifies(r) \/ ReaderEnds(r)

Cleanup ==
    \/ CleanupOpens \/ CleanupCloses
    \/ \E a \in Artifacts : CleanupRemovesArtifact(a)
    \/ \E t \in Temporaries : CleanupRemovesTemporary(t)

Next ==
    \/ ServiceOpens \/ ServiceCloses \/ ServiceKilled
    \/ Cleanup
    \/ \E w \in Writers : Writer(w)
    \/ \E r \in Readers : Reader(r)

Spec == Init /\ [][Next]_vars
-----------------------------------------------------------------------------
(* Properties.                                                             *)

\* Every temporary in the directory belongs to a live writer or was left by a
\* killed service: each way through write_arrow removes its own, and neither a
\* restart nor the cleanup command takes one from a writer that still needs it.
TempsAccountedFor ==
    /\ abandoned \subseteq temps
    /\ temps \ abandoned \subseteq {temp[w] : w \in Writers}
    /\ \A w \in Writers : writerAt[w] \in {"created", "writing"} =>
           temp[w] \in temps \ abandoned

\* A file under an artifact's name is the whole artifact, whenever the service
\* is killed and whoever publishes at the same time.
StoredIsComplete == \A a \in Artifacts : stored[a] \in {0, SizeOf[a]}

\* The artifacts never outgrow the quota, with several workers and with
\* temporaries that earlier services left behind.
StoredWithinQuota == StoredBytes <= MaxBytes

Complete(w) == writerAt[w] = "writing" /\ tempBytes[temp[w]] = SizeOf[writes[w]]

\* An artifact that is already there is published again even when abandoned
\* temporaries fill the quota (final > baseline, artifact_cache.py:189).
KnownArtifactFits ==
    \A w \in Writers : Complete(w) /\ stored[writes[w]] # 0 => HasRoom(w)

\* A publication is refused for bytes that really stay: artifacts and abandoned
\* temporaries.  The exception are the two moments in which another worker's
\* own temporary exists and is not registered (api_artifacts.py:161,181).
RefusalIsJustified ==
    \A w \in Writers :
        /\ Complete(w) /\ ~HasRoom(w)
        /\ \A v \in Writers : writerAt[v] \notin {"created", "unlinking"}
        => StoredBytes + BytesOf(abandoned) + SizeOf[writes[w]] > MaxBytes + stored[writes[w]]

\* services/science/README.md:53: the service retains at most the quota in
\* artifacts and abandoned temporaries.  Temporaries become abandoned by a kill,
\* which asks no quota.
RetainedWithinQuota == StoredBytes + BytesOf(abandoned) <= MaxBytes

\* services/science/README.md:211: a 404 means an identifier that is invalid,
\* missing or removed.  A reader that opened the file just before the same
\* artifact was published again sees a link count of zero and answers 404.
RefusedOnlyWhenGone ==
    \A r \in Readers : readerAt[r] = "refused" => stored[reads[r]] = 0
=============================================================================
