---------------------------- MODULE StreamService ----------------------------
(***************************************************************************)
(* The streaming service (crates/rust_stream): HTTP requests for playlists *)
(* and segments, the local catalog file that the admin service writes, the *)
(* caches of catalogs, manifests and segments, the semaphore over network  *)
(* fetches, and the segment fetches that concurrent requests share.        *)
(*                                                                         *)
(* A download is a call of the gateway client (GatewayCalls): it ends,     *)
(* well or badly.  What happens under one lock between two awaits is one   *)
(* action.  A time to live is abstracted to the moment it ends: an entry   *)
(* is fresh until it expires, at any moment.  Documents on the network     *)
(* never change.                                                           *)
(***************************************************************************)
EXTENDS Naturals, SequencesExt

CONSTANTS
  Request,      \* HTTP requests under way at a time
  Target,       \* what each request may ask for: see TargetType
  Video, Catalog, Manifest, Segment,    \* video IDs and network addresses
  Listing,      \* the videos in a catalog document, with their manifests
  Describes,    \* the video ID inside each manifest document
  SegmentsOf,   \* the segments of each manifest
  Contents,     \* what the catalog file may contain
  Bootstrap,    \* catalog_bootstrap_address, or None
  Size,         \* bytes of each segment
  MaxBytes,     \* segment_max_bytes; 0 disables the cache
  MaxDocuments, \* entries of a metadata cache (128 in the code)
  MaxPrune,     \* expired segments removed at a time (64 in the code)
  MaxFetches,   \* permits of fetch_slots (16 in the code)
  Channel,      \* watch channels of shared fetches (bound)
  None

Document == Catalog \cup Manifest

TargetType == [kind : {"playlist", "segment", "health"}, video : Video \cup {None},
               manifest : Manifest \cup {None}, segment : Segment \cup {None}]

ASSUME StreamAssumption ==
  /\ Target \in [Request -> SUBSET TargetType]
  /\ \A r \in Request : \A t \in Target[r] : t.video = None \/ t.manifest = None
  /\ Contents \subseteq [listing : {Listing[c] : c \in Catalog} \cup {None},
                         address : Catalog \cup {None}]
  /\ Bootstrap \in Catalog \cup {None}
  /\ Size \in [Segment -> Nat]
  /\ MaxBytes \in Nat /\ MaxFetches \in Nat /\ MaxPrune \in Nat
  /\ MaxDocuments \in Nat \ {0}
  /\ Listing \in [Catalog -> UNION {[vs -> Manifest] : vs \in SUBSET Video}]
  /\ SegmentsOf \in [Manifest -> SUBSET Segment]
  /\ IsFiniteSet(Request) /\ IsFiniteSet(Channel) /\ Request \cap Channel = {}
  /\ Catalog \cap Manifest = {}
  /\ None \notin Channel \cup Document \cup Segment \cup Video

VARIABLES
  file,       \* the catalog file; None when it cannot be read or parsed
  snapshot,   \* cache.local_catalog
  reading,    \* the read of the file under way under the lock of cache.local_catalog
  documents,  \* cache.catalogs and cache.manifests: the documents with a fresh entry
  segments,   \* cache.segments: entries from least to most recently used, byte counter
  slots,      \* free permits of fetch_slots
  fetches,    \* cache.segment_fetches: the channel of the fetch under way
  channel,    \* shared fetches: whether the task lives, and its result
  req,        \* the requests
  call,       \* the gateway call of each request and each shared fetch
  visible     \* videos listed by the file since the read under way, or the one that
              \* left the fresh snapshot, opened it (history)

streamVars == <<file, snapshot, reading, documents, segments, slots, fetches, channel, req,
                visible>>
vars == <<streamVars, call>>

-----------------------------------------------------------------------------

NoRequest == [pc |-> "none", target |-> None, doc |-> None, channel |-> None, seen |-> FALSE]
NoChannel == [segment |-> None, alive |-> FALSE, result |-> "none"]

\* A request and the task of a shared fetch each wait for one call at most.
Caller == Request \cup Channel
Begun(k) == [call EXCEPT ![k] = "pending"]
Dropped(k) == [call EXCEPT ![k] = "none"]

\* A channel is freed with the last reference to it.
Collected(ch, fs, rq) ==
  [c \in Channel |->
     IF ch[c].alive \/ (\E s \in Segment : fs[s] = c) \/ (\E r \in Request : rq[r].channel = c)
     THEN ch[c] ELSE NoChannel]

FreeChannels == {c \in Channel : channel[c] = NoChannel}

\* The request is answered, whatever the status.
Answered(r) == [req EXCEPT ![r] = NoRequest]

-----------------------------------------------------------------------------
\* The segment cache.

Bytes(entries) ==
  LET sum[n \in 0..Len(entries)] == IF n = 0 THEN 0 ELSE sum[n - 1] + Size[entries[n].segment]
  IN  sum[Len(entries)]

\* evict_address on the first n entries; the counter saturates at zero.
EvictFront(c, n) ==
  LET out == Bytes(SubSeq(c.entries, 1, n)) IN
  [entries |-> SubSeq(c.entries, n + 1, Len(c.entries)),
   bytes |-> IF out > c.bytes THEN 0 ELSE c.bytes - out]

\* remove and evict_address: the entry of an address, if there is one.
Without(c, s) ==
  LET at == {i \in DOMAIN c.entries : c.entries[i].segment = s} IN
  IF at = {} THEN c
  ELSE [entries |-> RemoveAt(c.entries, CHOOSE i \in at : TRUE),
        bytes |-> IF Size[s] > c.bytes THEN 0 ELSE c.bytes - Size[s]]

\* The expired entries at the front, at most MaxPrune of them; an entry behind a
\* fresh one stays.
PruneExpired(c) ==
  LET expired == {n \in 0..Len(c.entries) : n <= MaxPrune /\ \A i \in 1..n : ~c.entries[i].fresh}
  IN EvictFront(c, Max(expired))

EvictToLimit(c) ==
  LET enough == {n \in 0..Len(c.entries) : EvictFront(c, n).bytes <= MaxBytes}
  IN EvictFront(c, Min(enough \cup {Len(c.entries)}))

\* insert, when the old entry of the address is not taken out first.
InsertTwice(c, s) ==
  LET p == PruneExpired(c) IN
  IF MaxBytes = 0 \/ Size[s] > MaxBytes THEN p
  ELSE EvictToLimit([entries |-> Append(Without(p, s).entries, [segment |-> s, fresh |-> TRUE]),
                     bytes |-> p.bytes + Size[s]])

Insert(c, s) ==
  LET p == PruneExpired(c) IN
  IF MaxBytes = 0 \/ Size[s] > MaxBytes THEN p
  ELSE LET w == Without(p, s) IN
       EvictToLimit([entries |-> Append(w.entries, [segment |-> s, fresh |-> TRUE]),
                     bytes |-> w.bytes + Size[s]])

Hit(c, s) == \E i \in DOMAIN c.entries : c.entries[i] = [segment |-> s, fresh |-> TRUE]

\* get: a hit becomes the most recently used entry, an expired one is evicted.
Looked(c, s) ==
  IF ~Hit(c, s) THEN Without(c, s)
  ELSE [c EXCEPT !.entries = Append(Without(c, s).entries, [segment |-> s, fresh |-> TRUE])]

-----------------------------------------------------------------------------
\* The catalog file and the metadata caches.

ListedIn(f) ==
  CASE f = None -> {}
    [] f # None /\ f.listing # None -> DOMAIN f.listing
    [] f # None /\ f.listing = None /\ f.address # None -> DOMAIN Listing[f.address]
    [] OTHER -> {}

FreshSnapshot == snapshot # None /\ snapshot.fresh

\* Something is held of what the file was: by a read under way or in the cache.
Holding == reading # None \/ FreshSnapshot

\* What the file listed before counts for as long as something is held of it.
Forgets == visible' = IF Holding' THEN visible ELSE ListedIn(file)

\* The video of request r is looked up in a listing.
FoundIn(r, listing) ==
  IF req[r].target.video \in DOMAIN listing
  THEN [req EXCEPT ![r].pc = "load", ![r].doc = listing[req[r].target.video]]
  ELSE Answered(r)

\* A document has been loaded.  A catalog is searched for the video; a manifest
\* must be the video's own and leads to a playlist or to a segment.
Loaded(r) ==
  LET t == req[r].target
      d == req[r].doc
  IN  CASE d \in Catalog -> FoundIn(r, Listing[d])
        [] d \in Manifest /\ t.kind = "segment" /\ t.segment \in SegmentsOf[d]
             /\ (t.video = None \/ Describes[d] = t.video) ->
               [req EXCEPT ![r].pc = "segment", ![r].doc = None]
        [] OTHER -> Answered(r)

\* The cache that d belongs to.
SameCache(d) == IF d \in Catalog THEN Catalog ELSE Manifest

\* insert_metadata: expired entries go, then the oldest ones until there is room, in
\* number and in bytes.  Sizes and ages are left open: any of the others may stay.
InsertDocument(d, docs) ==
  LET kept == (documents \cap SameCache(d)) \ {d} IN
  \E stay \in SUBSET kept :
    /\ Cardinality(stay) < MaxDocuments
    /\ docs = (documents \ SameCache(d)) \cup stay \cup {d}

-----------------------------------------------------------------------------
\* Requests.

\* hls_manifest, hls_segment, their by-address forms, and health.
Get(r, t) ==
  /\ req[r] = NoRequest
  /\ req' = [req EXCEPT ![r] =
               [pc |-> IF t.kind = "health" THEN "health"
                       ELSE IF t.video # None THEN "catalog" ELSE "load",
                target |-> t, doc |-> t.manifest, channel |-> None, seen |-> t.video \in visible]]
  /\ call' = IF t.kind = "health" THEN Begun(r) ELSE call
  /\ UNCHANGED <<file, snapshot, reading, documents, segments, slots, fetches, channel, visible>>

\* load_video_manifest, with what local_catalog returned: the listing inside it.
LookUpLocally(r, local) ==
  /\ req[r].pc = "catalog"
  /\ req' = IF local # None /\ local.listing # None
            THEN FoundIn(r, local.listing)
            ELSE [req EXCEPT ![r].pc = "address"]

\* read_catalog_address, with what a second call of local_catalog returned: its
\* address, then the bootstrap address.  A file that only now could be read is
\* followed by its address, although it has a listing.
ReadCatalogAddress(r, local) ==
  LET listed == local # None /\ local.address # None
      address == IF listed THEN local.address ELSE Bootstrap
      follows == listed /\ local.listing # None
                   /\ req[r].target.video \in DOMAIN Listing[local.address]
  IN  /\ req[r].pc = "address"
      /\ req' = IF address = None THEN Answered(r)
                ELSE [req EXCEPT ![r].pc = "load", ![r].doc = address, ![r].seen = @ \/ follows]

\* What either of them does with the answer of local_catalog.
Consults(r, local) == LookUpLocally(r, local) \/ ReadCatalogAddress(r, local)

\* local_catalog: a fresh snapshot, once no other request holds the lock.
UseSnapshot(r) ==
  /\ reading = None
  /\ FreshSnapshot
  /\ Consults(r, snapshot.file)
  /\ UNCHANGED <<file, snapshot, reading, documents, segments, slots, fetches, channel, visible,
                 call>>

\* Fault: an expired snapshot is better than none.
UnreadableLast == IF snapshot = None THEN None ELSE snapshot.file

\* What local_catalog returns when the file cannot be read or parsed; an expired
\* snapshot stays in the cache.
Unreadable == None

\* local_catalog opens the file, and keeps the lock until it has read it: what it
\* opened is what it reads, for the admin service replaces the file by a rename.
OpenFile(r) ==
  /\ req[r].pc \in {"catalog", "address"}
  /\ reading = None
  /\ ~FreshSnapshot
  /\ \/ file # None /\ reading' = [by |-> r, file |-> file] /\ UNCHANGED req
     \/ file = None /\ Consults(r, Unreadable) /\ UNCHANGED reading
  /\ UNCHANGED <<file, snapshot, documents, segments, slots, fetches, channel, visible, call>>

\* The read ends: only now does the lifetime of the snapshot begin.  Or it fails.
EndRead(r) ==
  /\ reading # None /\ reading.by = r
  /\ reading' = None
  /\ \/ snapshot' = [file |-> reading.file, fresh |-> TRUE] /\ Consults(r, reading.file)
     \/ UNCHANGED snapshot /\ Consults(r, Unreadable)
  /\ Forgets
  /\ UNCHANGED <<file, documents, segments, slots, fetches, channel, call>>

\* load_catalog and load_manifest, up to the download.
LoadDocument(r) ==
  LET d == req[r].doc IN
  /\ req[r].pc = "load"
  /\ \/ /\ d \in documents
        /\ req' = Loaded(r)
        /\ UNCHANGED <<slots, call>>
     \/ /\ d \notin documents
        /\ \/ /\ slots = 0
              /\ req' = Answered(r)
              /\ UNCHANGED <<slots, call>>
           \/ /\ slots > 0
              /\ slots' = slots - 1
              /\ call' = Begun(r)
              /\ req' = [req EXCEPT ![r].pc = "fetch"]
  /\ UNCHANGED <<file, snapshot, reading, documents, segments, fetches, channel, visible>>

\* load_catalog and load_manifest, after the download; a document that is refused
\* (parse, validate) is a failed call.
StoreDocument(r) ==
  LET d == req[r].doc IN
  /\ req[r].pc = "fetch"
  /\ call[r] \in {"done", "failed"}
  /\ call' = Dropped(r)
  /\ slots' = slots + 1
  /\ \/ /\ call[r] = "failed"
        /\ req' = Answered(r)
        /\ UNCHANGED documents
     \/ /\ call[r] = "done"
        /\ InsertDocument(d, documents')
        /\ req' = Loaded(r)
  /\ UNCHANGED <<file, snapshot, reading, segments, fetches, channel, visible>>

\* health, once the gateway has answered or the call has failed.
AnswerHealth(r) ==
  /\ req[r].pc = "health"
  /\ call[r] \in {"done", "failed"}
  /\ call' = Dropped(r)
  /\ req' = Answered(r)
  /\ UNCHANGED <<file, snapshot, reading, documents, segments, slots, fetches, channel, visible>>

\* fetch_segment_data: the cache.
LookUpSegment(r) ==
  LET s == req[r].target.segment IN
  /\ req[r].pc = "segment"
  /\ segments' = IF MaxBytes = 0 THEN segments ELSE Looked(segments, s)
  /\ req' = IF Hit(segments, s) THEN Answered(r) ELSE [req EXCEPT ![r].pc = "join"]
  /\ UNCHANGED <<file, snapshot, reading, documents, slots, fetches, channel, visible, call>>

\* fetch_segment_data: join the fetch under way, or start one with a permit of
\* its own; the task that is spawned outlives the request.
JoinFetch(r) ==
  LET s == req[r].target.segment IN
  /\ req[r].pc = "join"
  /\ \/ /\ fetches[s] # None
        /\ req' = [req EXCEPT ![r].pc = "wait", ![r].channel = fetches[s]]
        /\ UNCHANGED <<slots, fetches, channel, call>>
     \/ /\ fetches[s] = None /\ slots = 0
        /\ req' = Answered(r)
        /\ UNCHANGED <<slots, fetches, channel, call>>
     \/ /\ fetches[s] = None /\ slots > 0
        /\ \E c \in FreeChannels :
             /\ fetches' = [fetches EXCEPT ![s] = c]
             /\ channel' = [channel EXCEPT ![c] = [segment |-> s, alive |-> TRUE, result |-> "none"]]
             /\ call' = Begun(c)
             /\ req' = [req EXCEPT ![r].pc = "wait", ![r].channel = c]
        /\ slots' = slots - 1
  /\ UNCHANGED <<file, snapshot, reading, documents, segments, visible>>

\* A waiter that finds its task stopped removes the entry, whoever made it.
FetchesWithoutAny(s, c) == [fetches EXCEPT ![s] = None]

\* The entry of segment s is removed if it still is channel c.
FetchesWithout(s, c) == IF fetches[s] = c THEN [fetches EXCEPT ![s] = None] ELSE fetches

\* fetch_segment_data: the shared result is there.
TakeResult(r) ==
  /\ req[r].pc = "wait"
  /\ channel[req[r].channel].result # "none"
  /\ req' = Answered(r)
  /\ channel' = Collected(channel, fetches, req')
  /\ UNCHANGED <<file, snapshot, reading, documents, segments, slots, fetches, visible, call>>

\* fetch_segment_data: the task is gone without a result.
FindStopped(r) ==
  LET c == req[r].channel IN
  /\ req[r].pc = "wait"
  /\ ~channel[c].alive /\ channel[c].result = "none"
  /\ req' = Answered(r)
  /\ fetches' = FetchesWithout(req[r].target.segment, c)
  /\ channel' = Collected(channel, fetches', req')
  /\ UNCHANGED <<file, snapshot, reading, documents, segments, slots, visible, call>>

\* The permit a dropped handler held: never returned, and as the code has it.
PermitKept(r) == 0
Permit(r) == IF req[r].pc = "fetch" THEN 1 ELSE 0

\* TimeoutLayer, or the client goes away: the handler is dropped where it waits,
\* with its permit, its call, its lock and its end of the channel.
DropRequest(r) ==
  /\ req[r] # NoRequest
  /\ req' = Answered(r)
  /\ reading' = IF reading # None /\ reading.by = r THEN None ELSE reading
  /\ slots' = slots + Permit(r)
  /\ call' = Dropped(r)
  /\ channel' = Collected(channel, fetches, req')
  /\ UNCHANGED <<file, snapshot, documents, segments, fetches>>
  /\ Forgets

-----------------------------------------------------------------------------
\* The task of a shared fetch.

\* fetch_segment_data_uncached puts the segment into the cache; send_replace.
StoreSegment(c) ==
  /\ call[c] = "done"
  /\ segments' = Insert(segments, channel[c].segment)
  /\ channel' = [channel EXCEPT ![c].result = "ok"]
  /\ call' = Dropped(c)
  /\ UNCHANGED <<file, snapshot, reading, documents, slots, fetches, req, visible>>

\* The call has failed, or the 60 s of the shared fetch are over; send_replace.
FailSegment(c) ==
  /\ call[c] \in {"pending", "failed"}
  /\ channel' = [channel EXCEPT ![c].result = "error"]
  /\ call' = Dropped(c)
  /\ UNCHANGED <<file, snapshot, reading, documents, segments, slots, fetches, req, visible>>

\* After send_replace: the entry is removed and the task ends with its permit.
RetireFetch(c) ==
  /\ channel[c].alive /\ channel[c].result # "none"
  /\ fetches' = FetchesWithout(channel[c].segment, c)
  /\ channel' = Collected([channel EXCEPT ![c].alive = FALSE], fetches', req)
  /\ slots' = slots + 1
  /\ UNCHANGED <<file, snapshot, reading, documents, segments, req, visible, call>>

\* The task panics before it has a result.
AbortFetch(c) ==
  /\ channel[c].alive /\ channel[c].result = "none"
  /\ channel' = Collected([channel EXCEPT ![c].alive = FALSE], fetches, req)
  /\ call' = Dropped(c)
  /\ slots' = slots + 1
  /\ UNCHANGED <<file, snapshot, reading, documents, segments, fetches, req, visible>>

-----------------------------------------------------------------------------
\* Time and the outside.

ExpireSegment(i) ==
  /\ i \in DOMAIN segments.entries /\ segments.entries[i].fresh
  /\ segments' = [segments EXCEPT !.entries[i].fresh = FALSE]
  /\ UNCHANGED <<file, snapshot, reading, documents, slots, fetches, channel, req, visible, call>>

ExpireDocument(d) ==
  /\ d \in documents
  /\ documents' = documents \ {d}
  /\ UNCHANGED <<file, snapshot, reading, segments, slots, fetches, channel, req, visible, call>>

ExpireSnapshot ==
  /\ FreshSnapshot
  /\ snapshot' = [snapshot EXCEPT !.fresh = FALSE]
  /\ UNCHANGED <<file, reading, documents, segments, slots, fetches, channel, req, call>>
  /\ Forgets

\* write_catalog_state of the admin service replaces the file, or it cannot be
\* read for a while.
ChangeFile(f) ==
  /\ f # file
  /\ file' = f
  /\ visible' = ListedIn(f) \cup (IF Holding THEN visible ELSE {})
  /\ req' = [r \in Request |->
               IF req[r].pc \in {"catalog", "address", "load", "fetch"}
                  /\ req[r].target.video \in ListedIn(f)
               THEN [req[r] EXCEPT !.seen = TRUE] ELSE req[r]]
  /\ UNCHANGED <<snapshot, reading, documents, segments, slots, fetches, channel, call>>

\* metrics: the snapshot of the cache prunes it.
Metrics ==
  /\ segments' = PruneExpired(segments)
  /\ UNCHANGED <<file, snapshot, reading, documents, slots, fetches, channel, req, visible, call>>

Init ==
  /\ call = [k \in Caller |-> "none"]
  /\ file \in Contents \cup {None}
  /\ snapshot = None
  /\ reading = None
  /\ documents = {}
  /\ segments = [entries |-> <<>>, bytes |-> 0]
  /\ slots = MaxFetches
  /\ fetches = [s \in Segment |-> None]
  /\ channel = [c \in Channel |-> NoChannel]
  /\ req = [r \in Request |-> NoRequest]
  /\ visible = ListedIn(file)

Handle(r) ==
  \/ UseSnapshot(r) \/ OpenFile(r) \/ EndRead(r) \/ LoadDocument(r) \/ StoreDocument(r)
  \/ AnswerHealth(r) \/ LookUpSegment(r) \/ JoinFetch(r) \/ TakeResult(r) \/ FindStopped(r)

Task(c) == StoreSegment(c) \/ FailSegment(c) \/ RetireFetch(c) \/ AbortFetch(c)

\* data_get_public or health of the client ends.
EndCall(k) ==
  /\ call[k] = "pending"
  /\ \E outcome \in {"done", "failed"} : call' = [call EXCEPT ![k] = outcome]
  /\ UNCHANGED streamVars

Next ==
  \/ \E r \in Request : (\E t \in Target[r] : Get(r, t)) \/ Handle(r) \/ DropRequest(r)
  \/ \E c \in Channel : Task(c)
  \/ \E k \in Caller : EndCall(k)
  \/ \E i \in 1..Cardinality(Segment) : ExpireSegment(i)
  \/ \E d \in Document : ExpireDocument(d)
  \/ ExpireSnapshot
  \/ \E f \in Contents \cup {None} : ChangeFile(f)
  \/ Metrics

Spec == Init /\ [][Next]_vars

-----------------------------------------------------------------------------

\* The byte counter of the segment cache (cache.rs) is what its entries hold,
\* through replacement, expiry, pruning and eviction, and never above the limit.
CacheBounded ==
  /\ segments.bytes = Bytes(segments.entries)
  /\ segments.bytes <= MaxBytes

\* A segment is downloaded by one task at a time, and a request that comes while
\* it is under way finds that task (fetch_segment_data), whatever happened to
\* earlier tasks and waiters of the same segment.
OneFetchPerSegment ==
  \A c \in Channel :
    channel[c].alive /\ channel[c].result = "none" => fetches[channel[c].segment] = c

\* The permits of fetch_slots are those of the downloads under way: none is lost
\* or returned twice by an error, a dropped request or a dead task.
SlotsReturned ==
  slots + Cardinality({c \in Channel : channel[c].alive})
        + Cardinality({r \in Request : req[r].pc = "fetch"}) = MaxFetches

\* A video that a request finds by its ID was listed by the catalog file during
\* the request, or before it but since the file was opened for a snapshot that was
\* still fresh or was still being read, or is in the bootstrap catalog: a hidden
\* video is found no longer than catalog_ttl after the end of a read (local_catalog)
\* that had begun before it was hidden.  Seen, too, is what the catalog at the file's
\* address lists, for a request that found the file unreadable and then readable.
HiddenWithinTtl ==
  \A r \in Request :
    req[r].target # None /\ req[r].doc \in Manifest /\ req[r].target.video # None =>
      \/ req[r].seen
      \/ Bootstrap # None /\ req[r].target.video \in DOMAIN Listing[Bootstrap]

=============================================================================
