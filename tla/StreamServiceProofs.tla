------------------------ MODULE StreamServiceProofs ------------------------
(***************************************************************************)
(* Theorems about StreamService: the shared fetches of segments, the       *)
(* permits of fetch_slots, the bytes of the segment cache and the          *)
(* visibility of hidden videos, for any number of requests, documents,     *)
(* segments and channels.                                                  *)
(***************************************************************************)
EXTENDS StreamService, FiniteSetTheorems, WellFoundedInduction, TLAPS

-----------------------------------------------------------------------------
\* The inductive invariant.

Listings == UNION {[vs -> Manifest] : vs \in SUBSET Video}
Pc == {"none", "health", "catalog", "address", "load", "fetch", "segment", "join", "wait"}

RequestType == [pc : Pc, target : TargetType \cup {None}, doc : Document \cup {None},
                channel : Channel \cup {None}, seen : BOOLEAN]
ChannelType == [segment : Segment \cup {None}, alive : BOOLEAN, result : {"none", "ok", "error"}]
SnapshotType == [file : Contents, fresh : BOOLEAN]
ReadingType == [by : Request, file : Contents]

\* A request for a segment names it once it has passed the manifest.
RequestOK(q) ==
  /\ q \in RequestType
  /\ q.pc # "none" => q.target \in TargetType
  /\ q.pc \in {"segment", "join", "wait"} => q.target.segment \in Segment

\* The video of request q may be found.
Allowed(q) == q.seen \/ (Bootstrap # None /\ q.target.video \in DOMAIN Listing[Bootstrap])

\* The video that q has found was allowed.
HiddenOK(q) == q.target # None /\ q.doc \in Manifest /\ q.target.video # None => Allowed(q)

\* Before the lookup: a video of vs was seen.  Between the choice of a catalog on the
\* network and its arrival: a video in it may be found.
SeenOK(q, vs) ==
  /\ q.pc \in {"catalog", "address"} /\ q.target.video \in vs => q.seen
  /\ q.pc \in {"load", "fetch"} /\ q.doc \in Catalog /\ q.target.video \in DOMAIN Listing[q.doc]
       => Allowed(q)

Safe(q, vs) == RequestOK(q) /\ HiddenOK(q) /\ SeenOK(q, vs)
RequestsOK(rq, vs) == rq \in [Request -> RequestType] /\ \A r \in Request : Safe(rq[r], vs)

RequestInv == RequestsOK(req, visible)

\* What local_catalog may return, now or when the read under way ends, is visible.
VisibleInv ==
  /\ file \in Contents \cup {None}
  /\ snapshot \in SnapshotType \cup {None}
  /\ reading \in ReadingType \cup {None}
  /\ ListedIn(file) \subseteq visible
  /\ FreshSnapshot => ListedIn(snapshot.file) \subseteq visible
  /\ reading # None => ListedIn(reading.file) \subseteq visible

ChannelsType == channel \in [Channel -> ChannelType] /\ fetches \in [Segment -> Channel \cup {None}]

\* The fetch under way in channel c is the one of its segment.
Downloads(c) == channel[c].alive /\ channel[c].result = "none"
FetchInv == \A c \in Channel :
  Downloads(c) => channel[c].segment \in Segment /\ fetches[channel[c].segment] = c

AliveIn(ch) == {c \in Channel : ch[c].alive}
FetchingIn(rq) == {r \in Request : rq[r].pc = "fetch"}
SlotInv == slots \in Nat /\ slots + Cardinality(AliveIn(channel)) + Cardinality(FetchingIn(req)) = MaxFetches

IInv == RequestInv /\ VisibleInv /\ ChannelsType /\ FetchInv /\ SlotInv

-----------------------------------------------------------------------------
\* Requests.

\* NoRequest is a request with nothing to show.
LEMMA NoRequestSafe == \A vs : Safe(NoRequest, vs)
  BY StreamAssumption DEF Safe, RequestOK, HiddenOK, SeenOK, RequestType, NoRequest, Pc, Document

\* Request q with a new pc and document.
At(q, p, d) == [q EXCEPT !.pc = p, !.doc = d]

\* At keeps the other fields.
LEMMA AtFields ==
  ASSUME NEW q \in RequestType, NEW p \in Pc, NEW d \in Document \cup {None}
  PROVE  /\ At(q, p, d) \in RequestType
         /\ At(q, p, d).pc = p /\ At(q, p, d).doc = d
         /\ At(q, p, d).target = q.target /\ At(q, p, d).seen = q.seen
  BY DEF RequestType, At

\* FoundIn answers the request or finds a manifest of the listing.
LEMMA FoundInSafe ==
  ASSUME RequestInv, NEW r \in Request, NEW listing \in Listings, req[r].pc # "none",
         req[r].target.video \in DOMAIN listing => Allowed(req[r])
  PROVE  \E x : FoundIn(r, listing) = [req EXCEPT ![r] = x] /\ Safe(x, visible) /\ x.pc # "fetch"
<1>1. CASE req[r].target.video \notin DOMAIN listing
  <2>1. FoundIn(r, listing) = [req EXCEPT ![r] = NoRequest]
    BY <1>1 DEF FoundIn, Answered
  <2>2. NoRequest.pc # "fetch"
    BY DEF NoRequest
  <2> QED BY <2>1, <2>2, NoRequestSafe
<1>2. CASE req[r].target.video \in DOMAIN listing
  <2> DEFINE m == listing[req[r].target.video]
             x == At(req[r], "load", m)
  <2>1. m \in Manifest
    BY <1>2 DEF Listings
  <2>2. req \in [Request -> RequestType] /\ RequestOK(req[r])
    BY DEF RequestInv, RequestsOK, Safe
  <2>3. /\ FoundIn(r, listing) = [req EXCEPT ![r] = x]
        /\ x \in RequestType /\ x.pc = "load" /\ x.doc = m
        /\ x.target = req[r].target /\ x.seen = req[r].seen
    <3>1. "load" \in Pc /\ m \in Document \cup {None}
      BY <2>1 DEF Pc, Document
    <3>2. FoundIn(r, listing) = [req EXCEPT ![r].pc = "load", ![r].doc = m]
      BY <1>2 DEF FoundIn
    <3> HIDE DEF m
    <3>3. [req EXCEPT ![r].pc = "load", ![r].doc = m] = [req EXCEPT ![r] = At(req[r], "load", m)]
      BY <2>2 DEF RequestType, At
    <3> QED BY <3>1, <3>2, <3>3, <2>2, AtFields
  <2>4. Safe(x, visible)
    <3>1. m \notin Catalog
      BY <2>1, StreamAssumption
    <3> QED BY <3>1, <2>2, <2>3, <1>2 DEF Safe, RequestOK, HiddenOK, SeenOK, Allowed
  <2> QED BY <2>3, <2>4
<1> QED BY <1>1, <1>2

\* Loaded: the catalog that has arrived was chosen for a video that may be found.
LEMMA LoadedSafe ==
  ASSUME RequestInv, NEW r \in Request, req[r].pc \in {"load", "fetch"}
  PROVE  \E x : Loaded(r) = [req EXCEPT ![r] = x] /\ Safe(x, visible) /\ x.pc # "fetch"
<1> DEFINE t == req[r].target
           d == req[r].doc
<1>0. /\ req \in [Request -> RequestType] /\ RequestOK(req[r]) /\ HiddenOK(req[r])
      /\ SeenOK(req[r], visible)
  BY DEF RequestInv, RequestsOK, Safe
<1>1. CASE d \in Catalog
  <2>1. Loaded(r) = FoundIn(r, Listing[d])
    BY <1>1, StreamAssumption DEF Loaded
  <2>2. Listing[d] \in Listings
    BY <1>1, StreamAssumption DEF Listings
  <2>3. t.video \in DOMAIN Listing[d] => Allowed(req[r])
    BY <1>0, <1>1 DEF SeenOK
  <2> QED BY <2>1, <2>2, <2>3, FoundInSafe
<1>2. CASE /\ d \in Manifest /\ t.kind = "segment" /\ t.segment \in SegmentsOf[d]
           /\ t.video = None \/ Describes[d] = t.video
  <2> DEFINE x == At(req[r], "segment", None)
  <2>1. Loaded(r) = [req EXCEPT ![r].pc = "segment", ![r].doc = None]
    <3>1. d \notin Catalog
      BY <1>2, StreamAssumption
    <3> QED BY <1>2, <3>1, Zenon DEF Loaded
  <2>2. /\ Loaded(r) = [req EXCEPT ![r] = x] /\ x \in RequestType
        /\ x.pc = "segment" /\ x.doc = None /\ x.target = t /\ x.seen = req[r].seen
    <3>1. "segment" \in Pc
      BY DEF Pc
    <3>2. [req EXCEPT ![r].pc = "segment", ![r].doc = None]
            = [req EXCEPT ![r] = At(req[r], "segment", None)]
      BY <1>0 DEF RequestType, At
    <3> QED BY <3>1, <3>2, <2>1, <1>0, AtFields
  <2>3. t \in TargetType /\ t.segment \in Segment
    BY <1>0, <1>2, StreamAssumption DEF RequestOK
  <2>4. Safe(x, visible)
    BY <2>2, <2>3, StreamAssumption DEF Safe, RequestOK, HiddenOK, SeenOK, Document
  <2> QED BY <2>2, <2>4
<1>3. CASE /\ d \notin Catalog
           /\ ~(/\ d \in Manifest /\ t.kind = "segment" /\ t.segment \in SegmentsOf[d]
                /\ t.video = None \/ Describes[d] = t.video)
  <2>1. Loaded(r) = [req EXCEPT ![r] = NoRequest]
    BY <1>3, Zenon DEF Loaded, Answered
  <2>2. NoRequest.pc # "fetch"
    BY DEF NoRequest
  <2> QED BY <2>1, <2>2, NoRequestSafe
<1> QED BY <1>1, <1>2, <1>3

\* A request that was safe is safe when less is visible.
LEMMA LessVisible ==
  ASSUME NEW q, NEW vs, NEW ws, ws \subseteq vs, Safe(q, vs)
  PROVE  Safe(q, ws)
  BY DEF Safe, SeenOK

\* A step of request r to the safe request x, after which no more is visible.
LEMMA MovedRequest ==
  ASSUME RequestInv, NEW r \in Request, NEW x, Safe(x, visible), req' = [req EXCEPT ![r] = x],
         visible' \subseteq visible
  PROVE  /\ RequestInv'
         /\ FetchingIn(req') =
              IF x.pc = "fetch" THEN FetchingIn(req) \cup {r} ELSE FetchingIn(req) \ {r}
<1>1. req \in [Request -> RequestType] /\ x \in RequestType
  BY DEF RequestInv, RequestsOK, Safe, RequestOK
<1>2. req' \in [Request -> RequestType] /\ req'[r] = x /\ \A q \in Request \ {r} : req'[q] = req[q]
  BY <1>1
<1>3. \A q \in Request : Safe(req'[q], visible')
  BY <1>2, LessVisible DEF RequestInv, RequestsOK
<1>4. RequestInv'
  BY <1>2, <1>3 DEF RequestInv, RequestsOK
<1> QED BY <1>1, <1>2, <1>4 DEF FetchingIn

\* What VisibleInv and ChannelsType speak of stays as it is.
LEMMA VisibleKept ==
  ASSUME VisibleInv, UNCHANGED <<file, snapshot, reading, visible>>
  PROVE  VisibleInv'
  BY DEF VisibleInv, FreshSnapshot, ListedIn

\* The channels and their entries stay as they are.
LEMMA ChannelsKept ==
  ASSUME ChannelsType, FetchInv, UNCHANGED <<fetches, channel>>
  PROVE  ChannelsType' /\ FetchInv' /\ AliveIn(channel') = AliveIn(channel)
  BY DEF ChannelsType, FetchInv, Downloads, AliveIn

\* The downloads under way can be counted.
LEMMA Counts ==
  ASSUME NEW ch, NEW rq
  PROVE  /\ IsFiniteSet(AliveIn(ch)) /\ Cardinality(AliveIn(ch)) \in Nat
         /\ IsFiniteSet(FetchingIn(rq)) /\ Cardinality(FetchingIn(rq)) \in Nat
<1>1. AliveIn(ch) \subseteq Channel /\ FetchingIn(rq) \subseteq Request
  BY DEF AliveIn, FetchingIn
<1> QED BY <1>1, StreamAssumption, FS_Subset, FS_CardinalityType

\* One more in a finite set, and one less.
LEMMA CountOne ==
  ASSUME NEW S, IsFiniteSet(S), NEW x
  PROVE  /\ x \notin S => Cardinality(S \cup {x}) = Cardinality(S) + 1
         /\ x \in S => Cardinality(S \ {x}) = Cardinality(S) - 1
  BY FS_AddElement, FS_RemoveElement

-----------------------------------------------------------------------------
\* The steps of a request.

\* hls_manifest, hls_segment, their by-address forms, and health.
LEMMA GetKeeps ==
  ASSUME IInv, NEW r \in Request, NEW t \in Target[r], Get(r, t)
  PROVE  IInv'
<1> DEFINE p == IF t.kind = "health" THEN "health" ELSE IF t.video # None THEN "catalog" ELSE "load"
           x == [pc |-> p, target |-> t, doc |-> t.manifest, channel |-> None,
                 seen |-> t.video \in visible]
<1>1. t \in TargetType /\ (t.video = None \/ t.manifest = None)
  BY StreamAssumption
<1>2. req' = [req EXCEPT ![r] = x]
  BY Zenon DEF Get
<1>3. Safe(x, visible)
  <2>1. x \in RequestType /\ p \in {"health", "catalog", "load"}
    BY <1>1 DEF RequestType, TargetType, Pc, Document
  <2>2. t.manifest \notin Catalog
    BY <1>1, StreamAssumption DEF TargetType, Document
  <2>3. None \notin Manifest
    BY StreamAssumption DEF Document
  <2> QED BY <1>1, <2>1, <2>2, <2>3 DEF Safe, RequestOK, HiddenOK, SeenOK
<1>4. req[r].pc = "none"
  BY DEF Get, NoRequest
<1>5. RequestInv' /\ FetchingIn(req') = FetchingIn(req)
  <2>0. x.pc # "fetch"
    OBVIOUS
  <2>1. \E y : req' = [req EXCEPT ![r] = y] /\ Safe(y, visible) /\ y.pc # "fetch"
    <3> HIDE DEF x
    <3> QED BY <1>2, <1>3, <2>0
  <2>2. RequestInv' /\ FetchingIn(req') = FetchingIn(req) \ {r}
    BY <2>1, MovedRequest DEF IInv, Get
  <2> QED BY <2>2, <1>4 DEF FetchingIn
<1> QED BY <1>5, VisibleKept, ChannelsKept DEF IInv, Get, SlotInv

\* The file of Contents, by field.
LEMMA ContentsFields ==
  ASSUME NEW f \in Contents
  PROVE  /\ f.listing # None => f.listing \in Listings
         /\ f.address # None => f.address \in Catalog
  BY StreamAssumption DEF Listings

\* load_video_manifest, with a local catalog of which all is visible.
LEMMA LookUpLocallySafe ==
  ASSUME IInv, NEW r \in Request, NEW local \in Contents \cup {None},
         ListedIn(local) \subseteq visible, LookUpLocally(r, local)
  PROVE  \E x : req' = [req EXCEPT ![r] = x] /\ Safe(x, visible) /\ x.pc # "fetch"
<1>1. CASE local # None /\ local.listing # None
  <2>1. local.listing \in Listings /\ DOMAIN local.listing \subseteq visible
    BY <1>1, ContentsFields DEF ListedIn
  <2>2. req[r].target.video \in DOMAIN local.listing => Allowed(req[r])
    BY <2>1 DEF IInv, RequestInv, RequestsOK, Safe, SeenOK, LookUpLocally, Allowed
  <2>3. req' = FoundIn(r, local.listing) /\ req[r].pc # "none"
    BY <1>1 DEF LookUpLocally
  <2> QED BY <2>1, <2>2, <2>3, FoundInSafe DEF IInv
<1>2. CASE ~(local # None /\ local.listing # None)
  <2> DEFINE x == [req[r] EXCEPT !.pc = "address"]
  <2>1. req \in [Request -> RequestType] /\ Safe(req[r], visible) /\ req[r].pc = "catalog"
    BY DEF IInv, RequestInv, RequestsOK, LookUpLocally
  <2>2. req' = [req EXCEPT ![r] = x]
    BY <1>2, <2>1 DEF LookUpLocally, RequestType
  <2>3. /\ x \in RequestType /\ x.pc = "address" /\ x.target = req[r].target
        /\ x.doc = req[r].doc /\ x.seen = req[r].seen
    BY <2>1 DEF RequestType, Pc
  <2>4. Safe(x, visible)
    BY <2>1, <2>3 DEF Safe, RequestOK, HiddenOK, SeenOK, Allowed
  <2> QED BY <2>2, <2>3, <2>4
<1> QED BY <1>1, <1>2

\* read_catalog_address: the address of such a catalog, or the bootstrap address.
LEMMA ReadCatalogAddressSafe ==
  ASSUME IInv, NEW r \in Request, NEW local \in Contents \cup {None},
         ListedIn(local) \subseteq visible, ReadCatalogAddress(r, local)
  PROVE  \E x : req' = [req EXCEPT ![r] = x] /\ Safe(x, visible) /\ x.pc # "fetch"
<1> DEFINE listed == local # None /\ local.address # None
           address == IF listed THEN local.address ELSE Bootstrap
           follows == listed /\ local.listing # None
                       /\ req[r].target.video \in DOMAIN Listing[local.address]
           x == [req[r] EXCEPT !.pc = "load", !.doc = address, !.seen = @ \/ follows]
<1>1. req \in [Request -> RequestType] /\ Safe(req[r], visible) /\ req[r].pc = "address"
  BY DEF IInv, RequestInv, RequestsOK, ReadCatalogAddress
<1>2. CASE address = None
  <2>1. req' = [req EXCEPT ![r] = NoRequest] /\ NoRequest.pc # "fetch"
    BY <1>2, Zenon DEF ReadCatalogAddress, Answered, NoRequest
  <2> QED BY <2>1, NoRequestSafe
<1>3. CASE address # None
  <2>1. address \in Catalog
    BY <1>3, ContentsFields, StreamAssumption
  <2>2. req' = [req EXCEPT ![r].pc = "load", ![r].doc = address, ![r].seen = @ \/ follows]
    BY <1>3, Zenon DEF ReadCatalogAddress
  <2>3. follows \in BOOLEAN /\ req[r].seen \in BOOLEAN
    BY <1>1 DEF RequestType
  <2>4. /\ req' = [req EXCEPT ![r] = x]
        /\ x \in RequestType /\ x.pc = "load" /\ x.target = req[r].target /\ x.doc = address
        /\ x.seen = (req[r].seen \/ follows)
    <3> HIDE DEF follows, address
    <3>1. "load" \in Pc /\ address \in Document \cup {None}
      BY <2>1 DEF Pc, Document
    <3> QED BY <1>1, <2>2, <2>3, <3>1 DEF RequestType
  <2>5. req[r].target.video \in DOMAIN Listing[address] => Allowed(x)
    <3>1. CASE ~listed
      BY <1>3, <2>4, <3>1 DEF Allowed
    <3>2. CASE listed /\ local.listing # None
      BY <2>4, <3>2 DEF Allowed
    <3>3. CASE listed /\ local.listing = None
      <4>1. DOMAIN Listing[address] \subseteq visible
        BY <3>3 DEF ListedIn
      <4> QED BY <1>1, <2>4, <4>1 DEF Safe, SeenOK, Allowed
    <3> QED BY <3>1, <3>2, <3>3
  <2>6. Safe(x, visible)
    <3>1. address \notin Manifest
      BY <2>1, StreamAssumption
    <3> HIDE DEF x, address
    <3> QED BY <1>1, <2>4, <2>5, <3>1 DEF Safe, RequestOK, HiddenOK, SeenOK
  <2> HIDE DEF x
  <2> QED BY <2>4, <2>6
<1> QED BY <1>2, <1>3

\* The channels and the permits are left alone, and no more is visible.
LEMMA OnlyVisible ==
  ASSUME IInv, VisibleInv', visible' \subseteq visible, UNCHANGED <<slots, fetches, channel, req>>
  PROVE  IInv'
<1>1. RequestInv'
  BY LessVisible DEF IInv, RequestInv, RequestsOK
<1> QED BY <1>1, ChannelsKept DEF IInv, SlotInv, FetchingIn

\* A request goes on with a local catalog of which all is visible.
LEMMA ConsultsKeeps ==
  ASSUME IInv, NEW r \in Request, NEW local \in Contents \cup {None},
         ListedIn(local) \subseteq visible, Consults(r, local),
         VisibleInv', visible' \subseteq visible, UNCHANGED <<slots, fetches, channel>>
  PROVE  IInv'
<1>1. \E x : req' = [req EXCEPT ![r] = x] /\ Safe(x, visible) /\ x.pc # "fetch"
  BY LookUpLocallySafe, ReadCatalogAddressSafe DEF Consults
<1>2. RequestInv' /\ FetchingIn(req') = FetchingIn(req) \ {r}
  BY <1>1, MovedRequest DEF IInv
<1>3. req[r].pc # "fetch"
  BY DEF Consults, LookUpLocally, ReadCatalogAddress
<1>4. FetchingIn(req') = FetchingIn(req)
  BY <1>2, <1>3 DEF FetchingIn
<1> QED BY <1>2, <1>4, ChannelsKept DEF IInv, SlotInv

\* local_catalog: a fresh snapshot.
LEMMA UseSnapshotKeeps ==
  ASSUME IInv, NEW r \in Request, UseSnapshot(r)
  PROVE  IInv'
<1>1. snapshot.file \in Contents /\ ListedIn(snapshot.file) \subseteq visible
  BY DEF UseSnapshot, IInv, VisibleInv, FreshSnapshot, SnapshotType
<1>2. VisibleInv' /\ visible' = visible
  BY VisibleKept DEF UseSnapshot, IInv
<1> QED BY <1>1, <1>2, ConsultsKeeps DEF UseSnapshot

\* Nothing is listed in no file.
LEMMA NothingListed == ListedIn(None) \subseteq visible
  BY DEF ListedIn

\* local_catalog: the file is opened, or it cannot be.
LEMMA OpenFileKeeps ==
  ASSUME IInv, NEW r \in Request, OpenFile(r)
  PROVE  IInv'
<1>1. CASE file # None /\ reading' = [by |-> r, file |-> file] /\ UNCHANGED req
  <2>1. reading' \in ReadingType /\ reading'.file = file
    BY <1>1 DEF IInv, VisibleInv, ReadingType
  <2>2. VisibleInv' /\ visible' = visible
    BY <2>1 DEF OpenFile, IInv, VisibleInv, FreshSnapshot, ListedIn
  <2> QED BY <1>1, <2>2, OnlyVisible DEF OpenFile
<1>2. CASE Consults(r, Unreadable) /\ UNCHANGED reading
  <2>1. VisibleInv' /\ visible' = visible
    BY <1>2, VisibleKept DEF OpenFile, IInv
  <2>2. Consults(r, None)
    BY <1>2 DEF Unreadable
  <2> QED BY <2>1, <2>2, NothingListed, ConsultsKeeps DEF OpenFile
<1> QED BY <1>1, <1>2 DEF OpenFile

\* What was listed is forgotten only once nothing is held of it.
LEMMA ForgetsKeeps ==
  ASSUME VisibleInv, Forgets, UNCHANGED file,
         snapshot' \in SnapshotType \cup {None}, reading' \in ReadingType \cup {None},
         FreshSnapshot' => ListedIn(snapshot'.file) \subseteq visible,
         reading' # None => ListedIn(reading'.file) \subseteq visible
  PROVE  VisibleInv' /\ visible' \subseteq visible
<1>1. CASE Holding'
  <2>1. visible' = visible
    BY <1>1 DEF Forgets
  <2> QED BY <2>1 DEF VisibleInv, ListedIn
<1>2. CASE ~Holding'
  <2>1. visible' = ListedIn(file) /\ ~FreshSnapshot' /\ reading' = None
    BY <1>2 DEF Forgets, Holding
  <2> QED BY <2>1 DEF VisibleInv, ListedIn
<1> QED BY <1>1, <1>2

\* local_catalog: the read ends, and the lifetime of the snapshot begins; or it fails.
LEMMA EndReadKeeps ==
  ASSUME IInv, NEW r \in Request, EndRead(r)
  PROVE  IInv'
<1>1. /\ VisibleInv /\ reading # None /\ reading' = None /\ Forgets
      /\ UNCHANGED <<file, slots, fetches, channel>>
  BY DEF EndRead, IInv
<1>2. reading.file \in Contents /\ ListedIn(reading.file) \subseteq visible
  BY <1>1 DEF VisibleInv, ReadingType
<1>3. CASE snapshot' = [file |-> reading.file, fresh |-> TRUE] /\ Consults(r, reading.file)
  <2>1. snapshot' \in SnapshotType /\ snapshot'.file = reading.file
    BY <1>2, <1>3 DEF SnapshotType
  <2>2. VisibleInv' /\ visible' \subseteq visible
    BY <1>1, <1>2, <2>1, ForgetsKeeps
  <2> QED BY <1>1, <1>2, <1>3, <2>2, ConsultsKeeps
<1>4. CASE UNCHANGED snapshot /\ Consults(r, Unreadable)
  <2>1. /\ snapshot' \in SnapshotType \cup {None}
        /\ FreshSnapshot' => ListedIn(snapshot'.file) \subseteq visible
    BY <1>1, <1>4 DEF VisibleInv, FreshSnapshot, ListedIn
  <2>2. VisibleInv' /\ visible' \subseteq visible
    BY <1>1, <2>1, ForgetsKeeps
  <2>3. Consults(r, None)
    BY <1>4 DEF Unreadable
  <2> QED BY <1>1, <2>2, <2>3, NothingListed, ConsultsKeeps
<1> QED BY <1>3, <1>4 DEF EndRead

\* load_catalog and load_manifest up to the download: from the cache, or with a permit.
LEMMA LoadDocumentKeeps ==
  ASSUME IInv, NEW r \in Request, LoadDocument(r)
  PROVE  IInv'
<1>1. /\ req \in [Request -> RequestType] /\ Safe(req[r], visible) /\ req[r].pc = "load"
      /\ r \notin FetchingIn(req)
  BY DEF IInv, RequestInv, RequestsOK, LoadDocument, FetchingIn
<1>2. VisibleInv' /\ ChannelsType' /\ FetchInv' /\ AliveIn(channel') = AliveIn(channel)
  BY VisibleKept, ChannelsKept DEF IInv, LoadDocument
<1>3. CASE UNCHANGED slots /\ \E x : req' = [req EXCEPT ![r] = x] /\ Safe(x, visible) /\ x.pc # "fetch"
  <2>1. RequestInv' /\ FetchingIn(req') = FetchingIn(req) \ {r}
    BY <1>3, MovedRequest DEF IInv, LoadDocument
  <2>2. FetchingIn(req') = FetchingIn(req)
    BY <2>1, <1>1 DEF FetchingIn
  <2> QED BY <1>2, <1>3, <2>1, <2>2 DEF IInv, SlotInv
<1>4. CASE slots > 0 /\ slots' = slots - 1 /\ req' = [req EXCEPT ![r].pc = "fetch"]
  <2> DEFINE x == [req[r] EXCEPT !.pc = "fetch"]
  <2>1. /\ req' = [req EXCEPT ![r] = x] /\ x \in RequestType
        /\ x.pc = "fetch" /\ x.target = req[r].target /\ x.doc = req[r].doc /\ x.seen = req[r].seen
    BY <1>1, <1>4 DEF RequestType, Pc
  <2>2. Safe(x, visible)
    BY <1>1, <2>1 DEF Safe, RequestOK, HiddenOK, SeenOK, Allowed
  <2>3. RequestInv' /\ FetchingIn(req') = FetchingIn(req) \cup {r}
    <3>1. \E y : req' = [req EXCEPT ![r] = y] /\ Safe(y, visible) /\ y.pc = "fetch"
      <4> HIDE DEF x
      <4> QED BY <2>1, <2>2
    <3> QED BY <3>1, MovedRequest DEF IInv, LoadDocument
  <2>4. Cardinality(FetchingIn(req')) = Cardinality(FetchingIn(req)) + 1
    BY <2>3, <1>1, Counts, CountOne
  <2> QED BY <1>2, <1>4, <2>3, <2>4, Counts DEF IInv, SlotInv
<1>5. QED
  <2>1. CASE req' = Loaded(r) /\ UNCHANGED slots
    BY <2>1, <1>1, <1>3, LoadedSafe DEF IInv
  <2>2. CASE req' = Answered(r) /\ UNCHANGED slots
    <3>1. req' = [req EXCEPT ![r] = NoRequest] /\ NoRequest.pc # "fetch"
      BY <2>2 DEF Answered, NoRequest
    <3> QED BY <3>1, <2>2, <1>3, NoRequestSafe
  <2> QED BY <2>1, <2>2, <1>4 DEF LoadDocument

\* The request has its answer or goes on, and the permit of its download is back.
LEMMA Returned ==
  ASSUME IInv, NEW r \in Request, NEW x, req' = [req EXCEPT ![r] = x], Safe(x, visible),
         x.pc # "fetch", req[r].pc = "fetch", slots' = slots + 1,
         UNCHANGED <<file, snapshot, reading, visible, fetches, channel>>
  PROVE  IInv'
<1>1. RequestInv' /\ FetchingIn(req') = FetchingIn(req) \ {r}
  BY MovedRequest DEF IInv
<1>2. Cardinality(FetchingIn(req')) = Cardinality(FetchingIn(req)) - 1
  <2>1. r \in FetchingIn(req)
    BY DEF FetchingIn
  <2> QED BY <1>1, <2>1, Counts, CountOne
<1>3. VisibleInv' /\ ChannelsType' /\ FetchInv' /\ AliveIn(channel') = AliveIn(channel)
  BY VisibleKept, ChannelsKept DEF IInv
<1> QED BY <1>1, <1>2, <1>3, Counts DEF IInv, SlotInv

\* load_catalog and load_manifest after the download.
LEMMA StoreDocumentKeeps ==
  ASSUME IInv, NEW r \in Request, StoreDocument(r)
  PROVE  IInv'
<1>1. /\ req[r].pc = "fetch" /\ slots' = slots + 1
      /\ UNCHANGED <<file, snapshot, reading, visible, fetches, channel>>
      /\ req' = Answered(r) \/ req' = Loaded(r)
  BY DEF StoreDocument
<1>2. \E x : req' = [req EXCEPT ![r] = x] /\ Safe(x, visible) /\ x.pc # "fetch"
  <2>1. CASE req' = Answered(r)
    <3>1. req' = [req EXCEPT ![r] = NoRequest] /\ NoRequest.pc # "fetch"
      BY <2>1 DEF Answered, NoRequest
    <3> QED BY <3>1, NoRequestSafe
  <2>2. CASE req' = Loaded(r)
    BY <1>1, <2>2, LoadedSafe DEF IInv
  <2> QED BY <1>1, <2>1, <2>2
<1> QED BY <1>1, <1>2, Returned

\* A step of a request that holds no permit, before and after.
LEMMA Passed ==
  ASSUME IInv, NEW r \in Request, NEW x, req' = [req EXCEPT ![r] = x], Safe(x, visible),
         x.pc # "fetch", req[r].pc # "fetch", UNCHANGED <<file, snapshot, reading, visible, slots>>
  PROVE  /\ RequestInv' /\ VisibleInv'
         /\ ChannelsType' /\ FetchInv' /\ AliveIn(channel') = AliveIn(channel) => IInv'
<1>1. RequestInv' /\ FetchingIn(req') = FetchingIn(req) \ {r}
  BY MovedRequest DEF IInv
<1>2. FetchingIn(req') = FetchingIn(req)
  BY <1>1 DEF FetchingIn
<1> QED BY <1>1, <1>2, VisibleKept DEF IInv, SlotInv

\* An answer, in the same way.
LEMMA Replied ==
  ASSUME IInv, NEW r \in Request, req' = Answered(r), req[r].pc # "fetch",
         UNCHANGED <<file, snapshot, reading, visible, slots>>
  PROVE  ChannelsType' /\ FetchInv' /\ AliveIn(channel') = AliveIn(channel) => IInv'
<1>1. req' = [req EXCEPT ![r] = NoRequest] /\ NoRequest.pc # "fetch"
  BY DEF Answered, NoRequest
<1> QED BY <1>1, NoRequestSafe, Passed

\* health is answered.
LEMMA AnswerHealthKeeps ==
  ASSUME IInv, NEW r \in Request, AnswerHealth(r)
  PROVE  IInv'
<1>1. /\ req' = Answered(r) /\ req[r].pc # "fetch"
      /\ UNCHANGED <<file, snapshot, reading, visible, slots, fetches, channel>>
  BY DEF AnswerHealth
<1> QED BY <1>1, Replied, ChannelsKept DEF IInv

\* fetch_segment_data: a hit is answered, a miss goes on to the shared fetches.
LEMMA LookUpSegmentKeeps ==
  ASSUME IInv, NEW r \in Request, LookUpSegment(r)
  PROVE  IInv'
<1> DEFINE x == [req[r] EXCEPT !.pc = "join"]
<1>1. /\ req \in [Request -> RequestType] /\ Safe(req[r], visible) /\ req[r].pc = "segment"
      /\ UNCHANGED <<file, snapshot, reading, visible, slots, fetches, channel>>
      /\ req' = Answered(r) \/ req' = [req EXCEPT ![r].pc = "join"]
  BY DEF IInv, RequestInv, RequestsOK, LookUpSegment
<1>2. CASE req' = Answered(r)
  BY <1>1, <1>2, Replied, ChannelsKept DEF IInv
<1>3. CASE req' = [req EXCEPT ![r].pc = "join"]
  <2>1. /\ req' = [req EXCEPT ![r] = x] /\ x \in RequestType
        /\ x.pc = "join" /\ x.target = req[r].target /\ x.doc = req[r].doc /\ x.seen = req[r].seen
    BY <1>1, <1>3 DEF RequestType, Pc
  <2>2. \E y : req' = [req EXCEPT ![r] = y] /\ Safe(y, visible) /\ y.pc # "fetch"
    <3>1. Safe(x, visible)
      BY <1>1, <2>1 DEF Safe, RequestOK, HiddenOK, SeenOK, Allowed
    <3> HIDE DEF x
    <3> QED BY <2>1, <3>1
  <2> QED BY <1>1, <2>2, Passed, ChannelsKept DEF IInv
<1> QED BY <1>1, <1>2, <1>3

\* A request that asks for its segment waits on channel c.
LEMMA WaitsSafe ==
  ASSUME RequestInv, NEW r \in Request, req[r].pc = "join", NEW c \in Channel
  PROVE  \E y : /\ [req EXCEPT ![r].pc = "wait", ![r].channel = c] = [req EXCEPT ![r] = y]
                /\ Safe(y, visible) /\ y.pc # "fetch"
<1> DEFINE x == [req[r] EXCEPT !.pc = "wait", !.channel = c]
<1>1. req \in [Request -> RequestType] /\ Safe(req[r], visible)
  BY DEF RequestInv, RequestsOK
<1>2. /\ [req EXCEPT ![r].pc = "wait", ![r].channel = c] = [req EXCEPT ![r] = x]
      /\ x \in RequestType
      /\ x.pc = "wait" /\ x.target = req[r].target /\ x.doc = req[r].doc /\ x.seen = req[r].seen
  BY <1>1 DEF RequestType, Pc
<1>3. Safe(x, visible)
  BY <1>1, <1>2 DEF Safe, RequestOK, HiddenOK, SeenOK, Allowed
<1> HIDE DEF x
<1> QED BY <1>2, <1>3

\* fetch_segment_data: the fetch under way is found, or there is none and one is begun.
LEMMA JoinFetchKeeps ==
  ASSUME IInv, NEW r \in Request, JoinFetch(r)
  PROVE  IInv'
<1> DEFINE s == req[r].target.segment
<1>1. /\ req[r].pc = "join" /\ UNCHANGED <<file, snapshot, reading, visible>>
      /\ s \in Segment
  BY DEF JoinFetch, IInv, RequestInv, RequestsOK, Safe, RequestOK
<1>2. CASE /\ fetches[s] # None
           /\ req' = [req EXCEPT ![r].pc = "wait", ![r].channel = fetches[s]]
           /\ UNCHANGED <<slots, fetches, channel>>
  <2>1. PICK c \in Channel : req' = [req EXCEPT ![r].pc = "wait", ![r].channel = c]
    BY <1>1, <1>2 DEF IInv, ChannelsType
  <2>2. \E y : /\ [req EXCEPT ![r].pc = "wait", ![r].channel = c] = [req EXCEPT ![r] = y]
               /\ Safe(y, visible) /\ y.pc # "fetch"
    BY <1>1, WaitsSafe, Zenon DEF IInv
  <2>3. \E y : req' = [req EXCEPT ![r] = y] /\ Safe(y, visible) /\ y.pc # "fetch"
    BY <2>1, <2>2, Zenon
  <2> QED BY <1>1, <1>2, <2>3, Passed, ChannelsKept DEF IInv
<1>3. CASE req' = Answered(r) /\ UNCHANGED <<slots, fetches, channel>>
  BY <1>1, <1>3, Replied, ChannelsKept DEF IInv
<1>4. ASSUME fetches[s] = None, slots > 0, slots' = slots - 1, NEW c \in FreeChannels,
             fetches' = [fetches EXCEPT ![s] = c],
             channel' = [channel EXCEPT ![c] = [segment |-> s, alive |-> TRUE, result |-> "none"]],
             req' = [req EXCEPT ![r].pc = "wait", ![r].channel = c]
      PROVE  IInv'
  <2>1. c \in Channel /\ channel[c] = NoChannel
    BY DEF FreeChannels
  <2>2. \E y : req' = [req EXCEPT ![r] = y] /\ Safe(y, visible) /\ y.pc # "fetch"
    <3>1. \E y : /\ [req EXCEPT ![r].pc = "wait", ![r].channel = c] = [req EXCEPT ![r] = y]
                 /\ Safe(y, visible) /\ y.pc # "fetch"
      BY <1>1, <2>1, WaitsSafe, Zenon DEF IInv
    <3> QED BY <1>4, <3>1, Zenon
  <2>3. RequestInv' /\ FetchingIn(req') = FetchingIn(req)
    <3>1. RequestInv' /\ FetchingIn(req') = FetchingIn(req) \ {r}
      BY <1>1, <2>2, MovedRequest DEF IInv
    <3> QED BY <1>1, <3>1 DEF FetchingIn
  <2>4. ChannelsType'
    BY <1>1, <1>4, <2>1 DEF IInv, ChannelsType, ChannelType
  <2>5. FetchInv'
    <3> SUFFICES ASSUME NEW k \in Channel, Downloads(k)'
                 PROVE  channel'[k].segment \in Segment /\ fetches'[channel'[k].segment] = k
      BY DEF FetchInv
    <3>1. CASE k = c
      BY <1>1, <1>4, <2>1, <3>1 DEF IInv, ChannelsType
    <3>2. CASE k # c
      <4>1. channel'[k] = channel[k]
        BY <1>4, <2>1, <3>2 DEF IInv, ChannelsType
      <4>2. channel[k].segment \in Segment /\ fetches[channel[k].segment] = k
        BY <4>1 DEF IInv, FetchInv, Downloads
      <4>3. channel[k].segment # s
        BY <4>2, <1>4, StreamAssumption
      <4> QED BY <1>1, <1>4, <4>1, <4>2, <4>3 DEF IInv, ChannelsType
    <3> QED BY <3>1, <3>2
  <2>6. Cardinality(AliveIn(channel')) = Cardinality(AliveIn(channel)) + 1
    <3>1. c \notin AliveIn(channel)
      BY <2>1 DEF AliveIn, NoChannel
    <3>2. AliveIn(channel') = AliveIn(channel) \cup {c}
      BY <1>4, <2>1 DEF AliveIn, IInv, ChannelsType
    <3> QED BY <3>1, <3>2, Counts, CountOne
  <2> QED BY <1>1, <1>4, <2>3, <2>4, <2>5, <2>6, VisibleKept, Counts DEF IInv, SlotInv
<1> QED BY <1>2, <1>3, <1>4 DEF JoinFetch

-----------------------------------------------------------------------------
\* Channels that are freed, and the entries of fetches.

\* Collected frees channels without a task: the tasks that live are where they were.
LEMMA CollectedKeeps ==
  ASSUME NEW ch \in [Channel -> ChannelType], NEW fs, NEW rq
  PROVE  /\ Collected(ch, fs, rq) \in [Channel -> ChannelType]
         /\ AliveIn(Collected(ch, fs, rq)) = AliveIn(ch)
         /\ \A c \in AliveIn(ch) : Collected(ch, fs, rq)[c] = ch[c]
  BY DEF Collected, AliveIn, NoChannel, ChannelType

\* The task of channel c has a result or is gone; its entry may go.
LEMMA EntryRemoved ==
  ASSUME ChannelsType, FetchInv, NEW c, NEW s, NEW ch \in [Channel -> ChannelType], NEW rq,
         fetches' = FetchesWithout(s, c) \/ fetches' = fetches,
         channel' = Collected(ch, fetches', rq),
         \A k \in Channel : ch[k].alive /\ ch[k].result = "none" => k # c /\ ch[k] = channel[k]
  PROVE  ChannelsType' /\ FetchInv' /\ AliveIn(channel') = AliveIn(ch)
<1>1. channel' \in [Channel -> ChannelType] /\ AliveIn(channel') = AliveIn(ch)
  BY CollectedKeeps
<1>2. fetches' \in [Segment -> Channel \cup {None}]
  BY DEF ChannelsType, FetchesWithout
<1>3. FetchInv'
  <2> SUFFICES ASSUME NEW k \in Channel, channel'[k].alive, channel'[k].result = "none"
               PROVE  channel'[k].segment \in Segment /\ fetches'[channel'[k].segment] = k
    BY DEF FetchInv, Downloads
  <2>1. channel'[k] = ch[k]
    BY <1>1, CollectedKeeps DEF AliveIn
  <2>2. k # c /\ ch[k] = channel[k]
    BY <2>1
  <2>3. channel[k].segment \in Segment /\ fetches[channel[k].segment] = k
    BY <2>1, <2>2 DEF FetchInv, Downloads
  <2> QED BY <2>1, <2>2, <2>3 DEF ChannelsType, FetchesWithout
<1> QED BY <1>1, <1>2, <1>3 DEF ChannelsType

\* fetch_segment_data: the shared result is taken, or the task is found gone.
LEMMA WaitEnds ==
  ASSUME IInv, NEW r \in Request, TakeResult(r) \/ FindStopped(r)
  PROVE  IInv'
<1> DEFINE c == req[r].channel
           s == req[r].target.segment
<1>1. /\ req' = Answered(r) /\ req[r].pc # "fetch" /\ UNCHANGED <<file, snapshot, reading, visible, slots>>
      /\ channel' = Collected(channel, fetches', req')
      /\ \/ fetches' = fetches
         \/ fetches' = FetchesWithout(s, c) /\ ~channel[c].alive
  BY DEF TakeResult, FindStopped
<1>2. ChannelsType' /\ FetchInv' /\ AliveIn(channel') = AliveIn(channel)
  <2>1. CASE fetches' = fetches
    <3>1. \A k \in Channel : channel[k].alive /\ channel[k].result = "none" => k # None /\ channel[k] = channel[k]
      BY StreamAssumption
    <3> QED BY <1>1, <2>1, <3>1, EntryRemoved DEF IInv, ChannelsType
  <2>2. CASE fetches' = FetchesWithout(s, c) /\ ~channel[c].alive
    <3>1. \A k \in Channel : channel[k].alive /\ channel[k].result = "none" => k # c /\ channel[k] = channel[k]
      BY <2>2
    <3> HIDE DEF c, s
    <3> QED BY <1>1, <2>2, <3>1, EntryRemoved DEF IInv, ChannelsType
  <2> QED BY <1>1, <2>1, <2>2
<1> QED BY <1>1, <1>2, Replied

\* A dropped handler gives its permit back, and its end of the channel.
LEMMA DropRequestKeeps ==
  ASSUME IInv, NEW r \in Request, DropRequest(r)
  PROVE  IInv'
<1>1. /\ req' = Answered(r) /\ UNCHANGED <<file, snapshot, fetches>>
      /\ channel' = Collected(channel, fetches', req') /\ slots' = slots + Permit(r)
      /\ reading' = None \/ reading' = reading
      /\ Forgets
  BY DEF DropRequest
<1>0. VisibleInv' /\ visible' \subseteq visible
  <2>1. VisibleInv
    BY DEF IInv
  <2>2. /\ snapshot' \in SnapshotType \cup {None} /\ reading' \in ReadingType \cup {None}
        /\ FreshSnapshot' => ListedIn(snapshot'.file) \subseteq visible
        /\ reading' # None => ListedIn(reading'.file) \subseteq visible
    BY <1>1, <2>1 DEF VisibleInv, FreshSnapshot, ListedIn
  <2> QED BY <1>1, <2>1, <2>2, ForgetsKeeps
<1>2. ChannelsType' /\ FetchInv' /\ AliveIn(channel') = AliveIn(channel)
  <2>1. \A k \in Channel : channel[k].alive /\ channel[k].result = "none" => k # None /\ channel[k] = channel[k]
    BY StreamAssumption
  <2> QED BY <1>1, <2>1, EntryRemoved DEF IInv, ChannelsType
<1>3. RequestInv' /\ FetchingIn(req') = FetchingIn(req) \ {r}
  <2>1. req' = [req EXCEPT ![r] = NoRequest] /\ NoRequest.pc # "fetch"
    BY <1>1 DEF Answered, NoRequest
  <2> QED BY <1>0, <2>1, NoRequestSafe, MovedRequest DEF IInv
<1>4. CASE req[r].pc = "fetch"
  <2>1. Cardinality(FetchingIn(req')) = Cardinality(FetchingIn(req)) - 1
    <3>1. r \in FetchingIn(req)
      BY <1>4 DEF FetchingIn
    <3> QED BY <1>3, <3>1, Counts, CountOne
  <2> QED BY <1>0, <1>1, <1>2, <1>3, <1>4, <2>1, Counts DEF IInv, SlotInv, Permit
<1>5. CASE req[r].pc # "fetch"
  <2>1. FetchingIn(req') = FetchingIn(req)
    BY <1>3, <1>5 DEF FetchingIn
  <2> QED BY <1>0, <1>1, <1>2, <1>3, <1>5, <2>1 DEF IInv, SlotInv, Permit
<1> QED BY <1>4, <1>5

-----------------------------------------------------------------------------
\* The steps of a task.

\* send_replace gives the channel a result; the task still lives.
LEMMA ResultKeeps ==
  ASSUME IInv, NEW c \in Channel, StoreSegment(c) \/ FailSegment(c)
  PROVE  IInv'
<1>1. /\ UNCHANGED <<file, snapshot, reading, visible, slots, fetches, req>>
      /\ \E v \in {"ok", "error"} : channel' = [channel EXCEPT ![c].result = v]
  BY DEF StoreSegment, FailSegment
<1>2. /\ channel' \in [Channel -> ChannelType]
      /\ \A k \in Channel : channel'[k].alive = channel[k].alive /\ channel'[k].segment = channel[k].segment
      /\ \A k \in Channel : channel'[k].result = "none" => channel[k].result = "none"
  BY <1>1 DEF IInv, ChannelsType, ChannelType
<1>3. ChannelsType' /\ FetchInv' /\ AliveIn(channel') = AliveIn(channel)
  BY <1>1, <1>2 DEF IInv, ChannelsType, FetchInv, Downloads, AliveIn
<1>4. RequestInv' /\ FetchingIn(req') = FetchingIn(req)
  BY <1>1 DEF IInv, RequestInv, FetchingIn
<1> QED BY <1>1, <1>3, <1>4, VisibleKept DEF IInv, SlotInv

\* The task ends, after it removed its entry or because it panicked: its permit is back.
LEMMA TaskEnds ==
  ASSUME IInv, NEW c \in Channel, RetireFetch(c) \/ AbortFetch(c)
  PROVE  IInv'
<1> DEFINE ch == [channel EXCEPT ![c].alive = FALSE]
           s == channel[c].segment
<1>1. /\ UNCHANGED <<file, snapshot, reading, visible, req>> /\ slots' = slots + 1 /\ channel[c].alive
      /\ fetches' = FetchesWithout(s, c) \/ fetches' = fetches
      /\ channel' = Collected(ch, fetches', req)
  BY DEF RetireFetch, AbortFetch
<1>2. /\ ch \in [Channel -> ChannelType] /\ ~ch[c].alive
      /\ \A k \in Channel \ {c} : ch[k] = channel[k]
  BY DEF IInv, ChannelsType, ChannelType
<1>3. ChannelsType' /\ FetchInv' /\ AliveIn(channel') = AliveIn(ch)
  <2>1. \A k \in Channel : ch[k].alive /\ ch[k].result = "none" => k # c /\ ch[k] = channel[k]
    BY <1>2
  <2> HIDE DEF ch, s
  <2> QED BY <1>1, <1>2, <2>1, EntryRemoved DEF IInv
<1>4. Cardinality(AliveIn(channel')) = Cardinality(AliveIn(channel)) - 1
  <2>1. AliveIn(ch) = AliveIn(channel) \ {c} /\ c \in AliveIn(channel)
    <3> HIDE DEF ch
    <3> QED BY <1>1, <1>2 DEF AliveIn
  <2> QED BY <1>3, <2>1, Counts, CountOne
<1>5. RequestInv' /\ FetchingIn(req') = FetchingIn(req)
  BY <1>1 DEF IInv, RequestInv, FetchingIn
<1> QED BY <1>1, <1>3, <1>4, <1>5, VisibleKept, Counts DEF IInv, SlotInv

-----------------------------------------------------------------------------
\* Time and the outside.

\* The snapshot of the catalog file expires.
LEMMA ExpireSnapshotKeeps ==
  ASSUME IInv, ExpireSnapshot
  PROVE  IInv'
<1>1. VisibleInv /\ Forgets /\ UNCHANGED <<file, reading, slots, fetches, channel, req>>
  BY DEF ExpireSnapshot, IInv
<1>2. snapshot' \in SnapshotType /\ ~FreshSnapshot'
  BY DEF ExpireSnapshot, IInv, VisibleInv, SnapshotType, FreshSnapshot
<1>3. /\ reading' \in ReadingType \cup {None}
      /\ reading' # None => ListedIn(reading'.file) \subseteq visible
  BY <1>1 DEF VisibleInv, ListedIn
<1>4. VisibleInv' /\ visible' \subseteq visible
  BY <1>1, <1>2, <1>3, ForgetsKeeps
<1> QED BY <1>1, <1>4, OnlyVisible

\* The file is replaced: what it lists is seen by the requests before their lookup.
LEMMA ChangeFileKeeps ==
  ASSUME IInv, NEW f \in Contents \cup {None}, ChangeFile(f)
  PROVE  IInv'
<1> DEFINE old == IF Holding THEN visible ELSE {}
           Early(q) == /\ q.pc \in {"catalog", "address", "load", "fetch"}
                       /\ q.target.video \in ListedIn(f)
           Now(q) == IF Early(q) THEN [q EXCEPT !.seen = TRUE] ELSE q
<1>1. /\ file' = f /\ visible' = ListedIn(f) \cup old
      /\ req' = [r \in Request |-> Now(req[r])]
      /\ UNCHANGED <<snapshot, reading, slots, fetches, channel>>
  BY Zenon DEF ChangeFile
<1>2. VisibleInv'
  BY <1>1 DEF IInv, VisibleInv, FreshSnapshot, Holding, ListedIn
<1>3. ASSUME NEW r \in Request
      PROVE  /\ req'[r] \in RequestType /\ req'[r].pc = req[r].pc
             /\ Safe(req'[r], visible')
  <2>1. req[r] \in RequestType /\ Safe(req[r], visible)
    BY DEF IInv, RequestInv, RequestsOK
  <2>2. CASE Early(req[r])
    <3>1. /\ req'[r] \in RequestType /\ req'[r].pc = req[r].pc /\ req'[r].target = req[r].target
          /\ req'[r].doc = req[r].doc /\ req'[r].seen
      BY <1>1, <2>1, <2>2 DEF RequestType
    <3> QED BY <2>1, <3>1 DEF Safe, RequestOK, HiddenOK, SeenOK, Allowed
  <2>3. CASE ~Early(req[r])
    <3>1. req'[r] = req[r]
      BY <1>1, <2>3
    <3> HIDE DEF old
    <3>2. req[r].target.video \in visible' /\ req[r].pc \in {"catalog", "address"}
            => req[r].target.video \in old
      BY <1>1, <2>3
    <3>3. old \subseteq visible
      BY DEF old
    <3> QED BY <2>1, <3>1, <3>2, <3>3 DEF Safe, SeenOK
  <2> QED BY <2>2, <2>3
<1>4. RequestInv' /\ FetchingIn(req') = FetchingIn(req)
  BY <1>1, <1>3 DEF RequestInv, RequestsOK, FetchingIn
<1> QED BY <1>1, <1>2, <1>4, ChannelsKept DEF IInv, SlotInv

\* A step that leaves all this alone.
LEMMA Aside ==
  ASSUME IInv, UNCHANGED <<file, snapshot, reading, visible, slots, fetches, channel, req>>
  PROVE  IInv'
<1>1. RequestInv' /\ FetchingIn(req') = FetchingIn(req)
  BY DEF IInv, RequestInv, FetchingIn
<1> QED BY <1>1, VisibleKept, ChannelsKept DEF IInv, SlotInv

-----------------------------------------------------------------------------
\* Induction over the numbers, for a set of them.

\* A set of numbers with zero and every successor holds them all.
LEMMA NatSet ==
  ASSUME NEW S \in SUBSET Nat, 0 \in S, \A n \in S : n + 1 \in S
  PROVE  S = Nat
<1> SUFFICES ASSUME Nat \ S # {} PROVE FALSE
  OBVIOUS
<1> DEFINE R == OpToRel(<, Nat)
<1>1. IsWellFoundedOn(R, Nat)
  BY NatLessThanWellFounded
<1>2. Nat \ S \subseteq Nat
  OBVIOUS
<1>3. \E x \in Nat \ S : \A y \in Nat \ S : ~ (<<y, x>> \in R)
  <2> HIDE DEF R
  <2> QED BY <1>1, <1>2, WFMin
<1>4. PICK x \in Nat \ S : \A y \in Nat \ S : ~ (<<y, x>> \in R)
  BY <1>3
<1>5. \A y \in Nat \ S : ~ (y < x)
  BY <1>4 DEF OpToRel
<1>6. x # 0 /\ x \in Nat
  OBVIOUS
<1>7. x - 1 \in Nat /\ x - 1 < x
  BY <1>6
<1>8. x - 1 \in S
  BY <1>5, <1>7
<1>9. (x - 1) + 1 \in S
  BY <1>8
<1> QED BY <1>6, <1>9

\* Running sums exist.
LEMMA SumExists ==
  ASSUME NEW N \in Nat, NEW w \in [1..N -> Nat]
  PROVE  \E f \in [0..N -> Nat] : f[0] = 0 /\ \A i \in 1..N : f[i] = f[i - 1] + w[i]
<1> DEFINE IsSum(f, n) == /\ f \in [0..n -> Nat]
                          /\ f[0] = 0 /\ \A i \in 1..n : f[i] = f[i - 1] + w[i]
           S == {n \in Nat : n <= N => \E f : IsSum(f, n)}
<1>1. 0 \in S
  <2>1. IsSum([i \in 0..0 |-> 0], 0)
    OBVIOUS
  <2> HIDE DEF IsSum
  <2> QED BY <2>1
<1>2. ASSUME NEW n \in S PROVE n + 1 \in S
  <2>1. SUFFICES ASSUME n + 1 <= N PROVE \E f : IsSum(f, n + 1)
    <3>1. n + 1 \in Nat
      OBVIOUS
    <3> HIDE DEF IsSum
    <3> QED BY <3>1
  <2>2. PICK f : IsSum(f, n)
    <3> HIDE DEF IsSum
    <3> QED BY <2>1
  <2> DEFINE g == [i \in 0..n + 1 |-> IF i <= n THEN f[i] ELSE f[n] + w[n + 1]]
  <2>3. IsSum(g, n + 1)
    BY <2>1, <2>2
  <2> HIDE DEF IsSum, g
  <2> QED BY <2>3
<1>3. S = Nat
  <2> HIDE DEF IsSum
  <2>1. S \in SUBSET Nat
    OBVIOUS
  <2> HIDE DEF S
  <2> QED BY <1>1, <1>2, <2>1, NatSet
<1>4. \E f : IsSum(f, N)
  <2> HIDE DEF IsSum
  <2>1. N \in S
    <3> HIDE DEF S
    <3> QED BY <1>3
  <2>2. N <= N
    OBVIOUS
  <2> QED BY <2>1, <2>2
<1> QED BY <1>4

-----------------------------------------------------------------------------
\* The segment cache.

Entry == [segment : Segment, fresh : BOOLEAN]

\* f is the running sum of the sizes of the entries.
RunningSum(f, s) ==
  /\ f \in [0..Len(s) -> Int]
  /\ f[0] = 0
  /\ \A i \in 1..Len(s) : f[i] = f[i - 1] + Size[s[i].segment]

\* The size of an entry.
LEMMA EntrySize ==
  ASSUME NEW s \in Seq(Entry), NEW i \in 1..Len(s)
  PROVE  s[i] \in Entry /\ s[i].segment \in Segment /\ Size[s[i].segment] \in Nat
<1>1. s[i] \in Entry
  OBVIOUS
<1>2. s[i].segment \in Segment
  BY <1>1 DEF Entry
<1>3. Size \in [Segment -> Nat]
  BY StreamAssumption
<1> QED BY <1>1, <1>2, <1>3

\* The recursion of Bytes computes the running sum.
LEMMA BytesOfSum ==
  ASSUME NEW s \in Seq(Entry), NEW f, RunningSum(f, s)
  PROVE  Bytes(s) = f[Len(s)]
<1> DEFINE F(g) == [n \in 0..Len(s) |-> IF n = 0 THEN 0 ELSE g[n - 1] + Size[s[n].segment]]
           sum == CHOOSE g : g = F(g)
<1>1. Bytes(s) = sum[Len(s)]
  BY DEF Bytes
<1>2. f = F(f)
  BY DEF RunningSum
<1>3. sum = F(sum)
  <2> HIDE DEF F
  <2> QED BY <1>2
<1>4. \A n \in 0..Len(s) : sum[n] = IF n = 0 THEN 0 ELSE sum[n - 1] + Size[s[n].segment]
  <2> HIDE DEF sum
  <2> QED BY <1>3
<1> HIDE DEF sum, F
<1> DEFINE T == {n \in Nat : n <= Len(s) => sum[n] = f[n]}
<1>5. 0 \in T
  BY <1>4 DEF RunningSum
<1>6. ASSUME NEW n \in T PROVE n + 1 \in T
  BY <1>4 DEF RunningSum
<1>7. T = Nat
  <2>1. T \in SUBSET Nat
    OBVIOUS
  <2> HIDE DEF T
  <2> QED BY <1>5, <1>6, <2>1, NatSet
<1> QED BY <1>1, <1>7

\* Every sequence of entries has a running sum; it ends with what Bytes returns.
LEMMA SumOf ==
  ASSUME NEW s \in Seq(Entry)
  PROVE  \E f : RunningSum(f, s) /\ f[Len(s)] = Bytes(s) /\ Bytes(s) \in Nat
<1> DEFINE N == Len(s)
           w == [i \in 1..N |-> Size[s[i].segment]]
<1>1. N \in Nat
  OBVIOUS
<1>2. w \in [1..N -> Nat]
  BY EntrySize
<1>3. \E f \in [0..N -> Nat] : f[0] = 0 /\ \A i \in 1..N : f[i] = f[i - 1] + w[i]
  <2> HIDE DEF w, N
  <2> QED BY <1>1, <1>2, SumExists
<1>4. PICK f \in [0..N -> Nat] : f[0] = 0 /\ \A i \in 1..N : f[i] = f[i - 1] + w[i]
  BY <1>3
<1>5. RunningSum(f, s) /\ f[N] \in Nat
  BY <1>4 DEF RunningSum
<1> QED BY <1>5, BytesOfSum

\* A part of a sequence holds the difference of two running sums.
LEMMA BytesOfPart ==
  ASSUME NEW s \in Seq(Entry), NEW f, RunningSum(f, s), NEW m \in 0..Len(s), NEW n \in m..Len(s)
  PROVE  /\ SubSeq(s, m + 1, n) \in Seq(Entry)
         /\ Bytes(SubSeq(s, m + 1, n)) = f[n] - f[m]
<1> DEFINE t == SubSeq(s, m + 1, n)
           g == [i \in 0..n - m |-> f[m + i] - f[m]]
<1>1. t \in Seq(Entry) /\ Len(t) = n - m /\ \A i \in 1..n - m : t[i] = s[m + i]
  OBVIOUS
<1>2. RunningSum(g, t)
  <2>1. g \in [0..n - m -> Int] /\ g[0] = 0
    BY DEF RunningSum
  <2>2. ASSUME NEW i \in 1..n - m PROVE g[i] = g[i - 1] + Size[t[i].segment]
    <3>1. /\ m + i \in 1..Len(s) /\ i \in 0..n - m /\ i - 1 \in 0..n - m
          /\ m + (i - 1) = (m + i) - 1
      OBVIOUS
    <3>2. f[m + i] = f[(m + i) - 1] + Size[s[m + i].segment]
      BY <3>1 DEF RunningSum
    <3>3. f[m] \in Int /\ f[m + i] \in Int /\ f[(m + i) - 1] \in Int
      <4>1. m + i \in 0..Len(s) /\ (m + i) - 1 \in 0..Len(s)
        BY <3>1
      <4> QED BY <4>1 DEF RunningSum
    <3>4. Size[s[m + i].segment] \in Int
      BY <3>1, EntrySize
    <3>5. g[i] = f[m + i] - f[m] /\ g[i - 1] = f[(m + i) - 1] - f[m]
      BY <3>1
    <3> HIDE DEF g
    <3> QED BY <3>2, <3>3, <3>4, <3>5, <1>1
  <2> QED BY <1>1, <2>1, <2>2 DEF RunningSum
<1>3. Bytes(t) = g[n - m]
  <2> HIDE DEF t, g
  <2> QED BY <1>1, <1>2, BytesOfSum
<1> QED BY <1>1, <1>3

\* The bytes of two sequences add up.
LEMMA BytesOfBoth ==
  ASSUME NEW s \in Seq(Entry), NEW t \in Seq(Entry)
  PROVE  Bytes(s \o t) = Bytes(s) + Bytes(t)
<1>1. PICK f : RunningSum(f, s) /\ f[Len(s)] = Bytes(s) /\ Bytes(s) \in Nat
  BY SumOf
<1>2. PICK g : RunningSum(g, t) /\ g[Len(t)] = Bytes(t) /\ Bytes(t) \in Nat
  BY SumOf
<1> DEFINE u == s \o t
           N == Len(s) + Len(t)
           h == [i \in 0..N |-> IF i <= Len(s) THEN f[i] ELSE Bytes(s) + g[i - Len(s)]]
<1>3. /\ u \in Seq(Entry) /\ Len(u) = N
      /\ \A i \in 1..N : u[i] = IF i <= Len(s) THEN s[i] ELSE t[i - Len(s)]
  OBVIOUS
<1>4. RunningSum(h, u)
  <2>1. h \in [0..N -> Int] /\ h[0] = 0
    BY <1>1, <1>2 DEF RunningSum
  <2>2. ASSUME NEW i \in 1..N PROVE h[i] = h[i - 1] + Size[u[i].segment]
    <3>1. CASE i <= Len(s)
      BY <3>1, <1>1, <1>3 DEF RunningSum
    <3>2. CASE i = Len(s) + 1
      <4>1. g[1] = g[0] + Size[t[1].segment] /\ g[0] = 0 /\ 1 \in 1..Len(t)
        BY <1>2, <3>2 DEF RunningSum
      <4>2. Size[t[1].segment] \in Int
        BY <4>1, EntrySize
      <4>3. h[i] = Bytes(s) + g[1] /\ h[i - 1] = Bytes(s) /\ u[i] = t[1]
        BY <3>2, <1>1, <1>3
      <4> HIDE DEF h, u
      <4> QED BY <4>1, <4>2, <4>3, <1>1
    <3>3. CASE i > Len(s) + 1
      <4>1. /\ i - Len(s) \in 1..Len(t) /\ (i - Len(s)) - 1 = (i - 1) - Len(s)
            /\ (i - 1) - Len(s) \in 0..Len(t)
        BY <3>3
      <4>2. g[i - Len(s)] = g[(i - 1) - Len(s)] + Size[t[i - Len(s)].segment]
        BY <1>2, <4>1 DEF RunningSum
      <4>3. Size[t[i - Len(s)].segment] \in Int /\ g[(i - 1) - Len(s)] \in Int
        <5>1. Size[t[i - Len(s)].segment] \in Int
          BY <4>1, EntrySize
        <5> QED BY <4>1, <1>2, <5>1 DEF RunningSum
      <4>4. /\ h[i] = Bytes(s) + g[i - Len(s)] /\ h[i - 1] = Bytes(s) + g[(i - 1) - Len(s)]
            /\ u[i] = t[i - Len(s)]
        BY <3>3, <1>3
      <4> HIDE DEF h, u
      <4> QED BY <4>2, <4>3, <4>4, <1>1
    <3> QED BY <3>1, <3>2, <3>3
  <2> QED BY <1>3, <2>1, <2>2 DEF RunningSum
<1>5. Bytes(u) = h[N]
  <2> HIDE DEF u, h, N
  <2> QED BY <1>3, <1>4, BytesOfSum
<1>6. h[N] = Bytes(s) + Bytes(t)
  <2>1. N \in 0..N /\ N - Len(s) = Len(t) /\ Len(s) \in Nat /\ Len(t) \in Nat
    OBVIOUS
  <2>2. CASE Len(t) = 0
    BY <2>1, <2>2, <1>1, <1>2 DEF RunningSum
  <2>3. CASE Len(t) > 0
    <3>1. ~ (N <= Len(s))
      BY <2>1, <2>3
    <3> QED BY <2>1, <3>1, <1>2
  <2> QED BY <2>1, <2>2, <2>3
<1> QED BY <1>5, <1>6

\* No entry, and one.
LEMMA BytesOfFew ==
  ASSUME NEW s \in Seq(Entry)
  PROVE  /\ Len(s) = 0 => Bytes(s) = 0
         /\ Len(s) = 1 => Bytes(s) = Size[s[1].segment]
<1>1. PICK f : RunningSum(f, s) /\ f[Len(s)] = Bytes(s)
  BY SumOf
<1>2. f[0] = 0
  BY <1>1 DEF RunningSum
<1>3. ASSUME Len(s) = 1 PROVE f[1] = Size[s[1].segment]
  <2>1. f[1] = f[1 - 1] + Size[s[1].segment] /\ 1 - 1 = 0
    BY <1>1, <1>3 DEF RunningSum
  <2>2. Size[s[1].segment] \in Nat
    BY <1>3, EntrySize
  <2> QED BY <1>2, <2>1, <2>2
<1> QED BY <1>1, <1>2, <1>3

\* An entry more.
LEMMA BytesOfAppend ==
  ASSUME NEW s \in Seq(Entry), NEW e \in Entry
  PROVE  Bytes(Append(s, e)) = Bytes(s) + Size[e.segment]
<1>1. <<e>> \in Seq(Entry) /\ Append(s, e) = s \o <<e>> /\ Len(<<e>>) = 1 /\ <<e>>[1] = e
  OBVIOUS
<1>2. Bytes(<<e>>) = Size[e.segment]
  BY <1>1, BytesOfFew
<1> QED BY <1>1, <1>2, BytesOfBoth

\* Bytes depends on the segments alone.
LEMMA BytesOfSame ==
  ASSUME NEW s \in Seq(Entry), NEW t \in Seq(Entry), Len(t) = Len(s),
         \A i \in 1..Len(s) : t[i].segment = s[i].segment
  PROVE  Bytes(t) = Bytes(s)
<1>1. PICK f : RunningSum(f, s) /\ f[Len(s)] = Bytes(s)
  BY SumOf
<1>2. RunningSum(f, t)
  BY <1>1 DEF RunningSum
<1> QED BY <1>1, <1>2, BytesOfSum

-----------------------------------------------------------------------------
\* The operations of the cache.

\* An address has one entry (LinkedHashMap).
OnePerSegment(s) == \A i, j \in 1..Len(s) : s[i].segment = s[j].segment => i = j

\* The counter is what the entries hold.
CacheOK(c) ==
  /\ c = [entries |-> c.entries, bytes |-> c.bytes]
  /\ c.entries \in Seq(Entry) /\ OnePerSegment(c.entries)
  /\ c.bytes = Bytes(c.entries)

\* A nonempty set of numbers has a least element.
LEMMA MinIn ==
  ASSUME NEW S \in SUBSET Nat, S # {}
  PROVE  Min(S) \in S /\ \A y \in S : Min(S) <= y
<1> DEFINE T == {n \in Nat : \A m \in S : n <= m}
<1>1. SUFFICES ASSUME ~ \E x \in S : \A y \in S : x <= y PROVE FALSE
  BY DEF Min
<1>2. T = Nat
  <2>1. 0 \in T
    OBVIOUS
  <2>2. ASSUME NEW n \in T PROVE n + 1 \in T
    BY <1>1
  <2> HIDE DEF T
  <2>3. T \in SUBSET Nat
    BY DEF T
  <2> QED BY <2>1, <2>2, <2>3, NatSet
<1>3. PICK m \in S : TRUE
  OBVIOUS
<1>4. m \in Nat /\ m + 1 \in Nat
  OBVIOUS
<1>5. \A n \in T : n <= m
  OBVIOUS
<1> QED
  <2> HIDE DEF T
  <2> QED BY <1>2, <1>4, <1>5

\* A nonempty set of numbers with a bound has a greatest element.
LEMMA MaxIn ==
  ASSUME NEW S \in SUBSET Nat, S # {}, NEW b \in Nat, \A x \in S : x <= b
  PROVE  Max(S) \in S
<1> DEFINE T == {b - x : x \in S}
<1>1. T \in SUBSET Nat /\ T # {}
  <2>1. \A x \in S : b - x \in Nat
    OBVIOUS
  <2> QED BY <2>1
<1>2. Min(T) \in T /\ \A y \in T : Min(T) <= y
  <2> HIDE DEF T
  <2> QED BY <1>1, MinIn
<1>3. PICK x \in S : Min(T) = b - x
  BY <1>2
<1>4. ASSUME NEW y \in S PROVE x >= y
  <2>1. b - y \in T
    OBVIOUS
  <2>2. b - x <= b - y
    BY <1>2, <1>3, <2>1
  <2> QED BY <2>2
<1> QED BY <1>4 DEF Max

\* evict_address at the front takes away what it evicts.
LEMMA EvictFrontOK ==
  ASSUME NEW c, CacheOK(c), NEW n \in 0..Len(c.entries)
  PROVE  /\ CacheOK(EvictFront(c, n))
         /\ EvictFront(c, n).bytes \in Nat /\ EvictFront(c, n).bytes <= c.bytes
         /\ n = Len(c.entries) => EvictFront(c, n).bytes = 0
<1> DEFINE s == c.entries
           N == Len(s)
           d == EvictFront(c, n)
<1>1. s \in Seq(Entry) /\ N \in Nat /\ n \in Nat /\ n <= N /\ OnePerSegment(s) /\ c.bytes = Bytes(s)
  BY DEF CacheOK
<1>2. PICK f : RunningSum(f, s) /\ f[N] = Bytes(s)
  BY <1>1, SumOf
<1>3. Bytes(SubSeq(s, 1, n)) = f[n] - f[0] /\ SubSeq(s, 1, n) \in Seq(Entry)
  BY <1>1, <1>2, BytesOfPart, 0 \in 0..N, n \in 0..N, 0 + 1 = 1
<1>4. Bytes(SubSeq(s, n + 1, N)) = f[N] - f[n] /\ SubSeq(s, n + 1, N) \in Seq(Entry)
  BY <1>1, <1>2, BytesOfPart, n \in 0..N, N \in n..N
<1>5. Bytes(SubSeq(s, 1, n)) \in Nat /\ Bytes(SubSeq(s, n + 1, N)) \in Nat
  BY <1>3, <1>4, SumOf
<1>6. f[0] = 0 /\ f[n] \in Int /\ f[N] \in Int
  <2>1. n \in 0..N /\ N \in 0..N
    BY <1>1
  <2> HIDE DEF N
  <2> QED BY <1>2, <2>1 DEF RunningSum, N
<1>7. /\ d = [entries |-> SubSeq(s, n + 1, N), bytes |-> Bytes(SubSeq(s, n + 1, N))]
      /\ d.entries = SubSeq(s, n + 1, N) /\ d.bytes = Bytes(SubSeq(s, n + 1, N))
  <2>1. ~ (Bytes(SubSeq(s, 1, n)) > c.bytes) /\ c.bytes - Bytes(SubSeq(s, 1, n)) = Bytes(SubSeq(s, n + 1, N))
    BY <1>1, <1>2, <1>3, <1>4, <1>5, <1>6
  <2> QED BY <2>1 DEF EvictFront
<1>8. OnePerSegment(SubSeq(s, n + 1, N))
  BY <1>1 DEF OnePerSegment
<1>9. Bytes(SubSeq(s, n + 1, N)) <= c.bytes
  BY <1>1, <1>2, <1>3, <1>4, <1>5, <1>6
<1>10. n = N => Bytes(SubSeq(s, n + 1, N)) = 0
  BY <1>4, <1>6
<1> QED BY <1>4, <1>5, <1>7, <1>8, <1>9, <1>10 DEF CacheOK

\* remove and evict_address: the counter loses the size of the entry.
LEMMA WithoutOK ==
  ASSUME NEW c, CacheOK(c), NEW x \in Segment
  PROVE  /\ CacheOK(Without(c, x))
         /\ \A i \in 1..Len(Without(c, x).entries) : Without(c, x).entries[i].segment # x
         /\ Without(c, x).bytes \in Nat
         /\ Without(c, x).bytes = c.bytes
              - (IF \E i \in 1..Len(c.entries) : c.entries[i].segment = x THEN Size[x] ELSE 0)
<1> DEFINE s == c.entries
           N == Len(s)
           at == {i \in DOMAIN s : s[i].segment = x}
           w == Without(c, x)
<1>1. s \in Seq(Entry) /\ N \in Nat /\ DOMAIN s = 1..N /\ OnePerSegment(s) /\ c.bytes = Bytes(s)
  BY DEF CacheOK
<1>2. Bytes(s) \in Nat /\ Size[x] \in Nat
  BY <1>1, SumOf, StreamAssumption
<1>3. CASE at = {}
  <2>1. w = c /\ ~ \E i \in 1..N : s[i].segment = x
    BY <1>1, <1>3 DEF Without
  <2> QED BY <1>1, <1>2, <2>1
<1>4. CASE at # {}
  <2> DEFINE k == CHOOSE i \in at : TRUE
             a == SubSeq(s, 1, k - 1)
             b == SubSeq(s, k + 1, N)
             t == a \o b
  <2>1. k \in 1..N /\ s[k].segment = x
    BY <1>1, <1>4
  <2> HIDE DEF k
  <2>2. PICK f : RunningSum(f, s) /\ f[N] = Bytes(s)
    BY <1>1, SumOf
  <2>3. Bytes(SubSeq(s, 1, k - 1)) = f[k - 1] - f[0] /\ SubSeq(s, 1, k - 1) \in Seq(Entry)
    <3>1. 0 \in 0..N /\ k - 1 \in 0..N /\ 0 + 1 = 1
      BY <1>1, <2>1
    <3> QED BY <1>1, <2>2, <3>1, BytesOfPart
  <2>4. Bytes(SubSeq(s, k + 1, N)) = f[N] - f[k] /\ SubSeq(s, k + 1, N) \in Seq(Entry)
    <3>1. k \in 0..N /\ N \in k..N
      BY <1>1, <2>1
    <3> QED BY <1>1, <2>2, <3>1, BytesOfPart
  <2>5. Bytes(t) = Bytes(a) + Bytes(b) /\ t \in Seq(Entry)
    <3> HIDE DEF a, b
    <3>1. a \in Seq(Entry) /\ b \in Seq(Entry)
      BY <2>3, <2>4 DEF a, b
    <3> QED BY <3>1, BytesOfBoth
  <2>6. f[k] = f[k - 1] + Size[x] /\ f[0] = 0 /\ f[k - 1] \in Int /\ f[k] \in Int /\ f[N] \in Int
    <3>1. k \in 0..N /\ k - 1 \in 0..N /\ N \in 0..N
      BY <1>1, <2>1
    <3> QED BY <1>1, <2>1, <2>2, <3>1 DEF RunningSum
  <2>7. Bytes(t) = Bytes(s) - Size[x] /\ Bytes(t) \in Nat
    <3>1. Bytes(t) \in Nat
      BY <2>5, SumOf
    <3> HIDE DEF t, s, N
    <3> QED BY <1>2, <2>2, <2>3, <2>4, <2>5, <2>6, <3>1
  <2>8. w = [entries |-> t, bytes |-> Bytes(t)]
    <3>1. ~ (Size[x] > c.bytes) /\ c.bytes - Size[x] = Bytes(t)
      BY <1>1, <1>2, <2>7
    <3>2. w = [entries |-> RemoveAt(c.entries, CHOOSE i \in at : TRUE),
               bytes |-> IF Size[x] > c.bytes THEN 0 ELSE c.bytes - Size[x]]
      BY <1>4 DEF Without
    <3>3. RemoveAt(c.entries, k) = t
      BY DEF RemoveAt
    <3> HIDE DEF w, at, t
    <3> QED BY <3>1, <3>2, <3>3 DEF k
  <2>9. /\ Len(t) = N - 1
        /\ \A i \in 1..N - 1 : t[i] = IF i < k THEN s[i] ELSE s[i + 1]
    <3>1. a \in Seq(Entry) /\ Len(a) = k - 1 /\ \A i \in 1..k - 1 : a[i] = s[i]
      BY <1>1, <2>1, <2>3
    <3>2. b \in Seq(Entry) /\ Len(b) = N - k /\ \A i \in 1..N - k : b[i] = s[k + i]
      BY <1>1, <2>1, <2>4
    <3>3. Len(t) = N - 1
      <4> HIDE DEF a, b, N
      <4>1. Len(t) = Len(a) + Len(b)
        BY <3>1, <3>2
      <4>2. k \in Int /\ N \in Int
        BY <1>1, <2>1
      <4> QED BY <4>1, <4>2, <3>1, <3>2
    <3>4. ASSUME NEW i \in 1..N - 1 PROVE t[i] = IF i < k THEN s[i] ELSE s[i + 1]
      <4> HIDE DEF a, b
      <4>1. t[i] = IF i <= Len(a) THEN a[i] ELSE b[i - Len(a)]
        BY <3>1, <3>2, <3>3
      <4>2. CASE i < k
        BY <4>1, <4>2, <3>1, <1>1, <2>1
      <4>3. CASE i >= k
        <5>1. i - (k - 1) \in 1..N - k /\ k + (i - (k - 1)) = i + 1 /\ ~ (i <= k - 1) /\ ~ (i < k)
          BY <4>3, <1>1, <2>1
        <5> QED BY <4>1, <5>1, <3>1, <3>2
      <4>4. i < k \/ i >= k
        BY <1>1, <2>1
      <4> HIDE DEF t
      <4> QED BY <4>2, <4>3, <4>4
    <3> QED BY <3>3, <3>4
  <2>10. OnePerSegment(t) /\ \A i \in 1..N - 1 : t[i].segment # x
    <3> DEFINE g(i) == IF i < k THEN i ELSE i + 1
    <3>1. \A i \in 1..N - 1 : g(i) \in 1..N /\ g(i) # k
      BY <1>1, <2>1
    <3>2. \A i, j \in 1..N - 1 : g(i) = g(j) => i = j
      BY <1>1, <2>1
    <3>3. \A i \in 1..N - 1 : t[i] = s[g(i)]
      BY <2>9
    <3> HIDE DEF t, g, N, s
    <3>4. ASSUME NEW i \in 1..N - 1 PROVE t[i].segment # x
      BY <1>1, <2>1, <3>1, <3>3 DEF OnePerSegment
    <3>5. ASSUME NEW i \in 1..N - 1, NEW j \in 1..N - 1, t[i].segment = t[j].segment PROVE i = j
      <4>1. g(i) = g(j)
        BY <1>1, <3>1, <3>3, <3>5 DEF OnePerSegment, N
      <4> QED BY <4>1, <3>2
    <3>6. Len(t) = N - 1
      BY <2>9
    <3> QED BY <3>4, <3>5, <3>6 DEF OnePerSegment
  <2>11. \E i \in 1..N : s[i].segment = x
    BY <2>1
  <2>12. w.entries = t /\ w.bytes = Bytes(t)
    <3> HIDE DEF t, w
    <3> QED BY <2>8
  <2> HIDE DEF t, w, a, b
  <2>13. CacheOK(w)
    BY <2>5, <2>8, <2>10, <2>12 DEF CacheOK
  <2>14. w.bytes \in Nat /\ w.bytes = c.bytes - Size[x]
    BY <1>1, <2>7, <2>12
  <2>15. \A i \in 1..Len(w.entries) : w.entries[i].segment # x
    BY <2>9, <2>10, <2>12
  <2> QED BY <2>11, <2>13, <2>14, <2>15 DEF w
<1> QED BY <1>3, <1>4

\* prune_expired.
LEMMA PruneOK ==
  ASSUME NEW c, CacheOK(c)
  PROVE  CacheOK(PruneExpired(c)) /\ PruneExpired(c).bytes \in Nat /\ PruneExpired(c).bytes <= c.bytes
<1> DEFINE N == Len(c.entries)
           expired == {n \in 0..N : n <= MaxPrune /\ \A i \in 1..n : ~c.entries[i].fresh}
<1>1. N \in Nat
  BY DEF CacheOK
<1>2. expired \in SUBSET Nat /\ 0 \in expired /\ \A n \in expired : n <= N
  BY <1>1, StreamAssumption
<1>3. Max(expired) \in expired
  <2> HIDE DEF expired
  <2> QED BY <1>1, <1>2, MaxIn
<1>4. Max(expired) \in 0..N
  BY <1>3
<1>5. PruneExpired(c) = EvictFront(c, Max(expired))
  BY DEF PruneExpired
<1> HIDE DEF expired
<1> QED BY <1>4, <1>5, EvictFrontOK

\* evict_to_limit ends within the limit; the entries that fit without eviction stay.
LEMMA LimitOK ==
  ASSUME NEW c, CacheOK(c)
  PROVE  /\ CacheOK(EvictToLimit(c)) /\ EvictToLimit(c).bytes \in Nat
         /\ EvictToLimit(c).bytes <= MaxBytes
         /\ \A m \in 0..Len(c.entries) : EvictFront(c, m).bytes <= MaxBytes =>
              \E n \in 0..m : EvictToLimit(c) = EvictFront(c, n)
<1> DEFINE N == Len(c.entries)
           enough == {n \in 0..N : EvictFront(c, n).bytes <= MaxBytes}
           least == Min(enough \cup {N})
<1>1. N \in Nat
  BY DEF CacheOK
<1>2. enough \cup {N} \in SUBSET Nat /\ enough \cup {N} # {}
  BY <1>1
<1>3. least \in enough \cup {N} /\ \A m \in enough : least <= m
  <2> HIDE DEF enough
  <2> QED BY <1>2, MinIn
<1>4. EvictToLimit(c) = EvictFront(c, least)
  BY DEF EvictToLimit
<1> HIDE DEF least
<1>5. least \in 0..N
  BY <1>1, <1>3
<1>6. /\ CacheOK(EvictFront(c, least)) /\ EvictFront(c, least).bytes \in Nat
      /\ least = N => EvictFront(c, least).bytes = 0
  BY <1>5, EvictFrontOK
<1>7. EvictFront(c, least).bytes <= MaxBytes
  <2>1. MaxBytes \in Nat
    BY StreamAssumption
  <2> QED BY <1>3, <1>6, <2>1
<1>8. ASSUME NEW m \in 0..N, EvictFront(c, m).bytes <= MaxBytes PROVE least \in 0..m
  BY <1>3, <1>5, <1>8
<1> QED BY <1>4, <1>6, <1>7, <1>8

\* An entry at the end, for an address that has none.
LEMMA AppendOK ==
  ASSUME NEW c, CacheOK(c), c.bytes \in Nat, NEW x \in Segment, NEW b \in BOOLEAN,
         \A i \in 1..Len(c.entries) : c.entries[i].segment # x
  PROVE  CacheOK([entries |-> Append(c.entries, [segment |-> x, fresh |-> b]),
                  bytes |-> c.bytes + Size[x]])
<1> DEFINE s == c.entries
           e == [segment |-> x, fresh |-> b]
           t == Append(s, e)
<1>1. s \in Seq(Entry) /\ OnePerSegment(s) /\ c.bytes = Bytes(s)
  BY DEF CacheOK
<1>2. e \in Entry /\ e.segment = x
  BY DEF Entry
<1>3. Bytes(t) = c.bytes + Size[x]
  <2> HIDE DEF e, s
  <2> QED BY <1>1, <1>2, BytesOfAppend
<1>4. t \in Seq(Entry) /\ Len(t) = Len(s) + 1 /\ t[Len(s) + 1] = e /\ \A i \in 1..Len(s) : t[i] = s[i]
  <2> HIDE DEF e, s
  <2> QED BY <1>1, <1>2
<1>5. OnePerSegment(t)
  <2> HIDE DEF e, t
  <2>1. SUFFICES ASSUME NEW i \in 1..Len(s) + 1, NEW j \in 1..Len(s) + 1, t[i].segment = t[j].segment
                 PROVE  i = j
    BY <1>4 DEF OnePerSegment
  <2>2. Len(s) \in Nat
    BY <1>1
  <2>3. \A n \in 1..Len(s) : t[n].segment = s[n].segment /\ s[n].segment # x
    BY <1>4
  <2>4. t[Len(s) + 1].segment = x
    BY <1>2, <1>4
  <2> HIDE DEF s
  <2>5. CASE i = Len(s) + 1 \/ j = Len(s) + 1
    BY <2>1, <2>2, <2>3, <2>4, <2>5
  <2>6. CASE i \in 1..Len(s) /\ j \in 1..Len(s)
    BY <1>1, <2>1, <2>3, <2>6 DEF OnePerSegment
  <2> QED BY <2>2, <2>5, <2>6
<1> QED BY <1>3, <1>4, <1>5 DEF CacheOK

\* insert keeps the cache within its limit, and keeps the segment it has inserted.
LEMMA InsertOK ==
  ASSUME NEW c, CacheOK(c), c.bytes \in Nat, c.bytes <= MaxBytes, NEW x \in Segment
  PROVE  /\ CacheOK(Insert(c, x)) /\ Insert(c, x).bytes \in Nat /\ Insert(c, x).bytes <= MaxBytes
         /\ MaxBytes # 0 /\ Size[x] <= MaxBytes => Hit(Insert(c, x), x)
<1> DEFINE p == PruneExpired(c)
           w == Without(p, x)
           e == [segment |-> x, fresh |-> TRUE]
           a == [entries |-> Append(w.entries, e), bytes |-> w.bytes + Size[x]]
<1>0. MaxBytes \in Nat /\ Size[x] \in Nat
  BY StreamAssumption
<1>1. CacheOK(p) /\ p.bytes \in Nat /\ p.bytes <= c.bytes
  BY PruneOK
<1>2. CASE MaxBytes = 0 \/ Size[x] > MaxBytes
  <2>1. Insert(c, x) = p /\ ~ (MaxBytes # 0 /\ Size[x] <= MaxBytes)
    BY <1>0, <1>2 DEF Insert
  <2> HIDE DEF p
  <2> QED BY <1>0, <1>1, <2>1
<1>3. CASE ~ (MaxBytes = 0 \/ Size[x] > MaxBytes)
  <2>1. Insert(c, x) = EvictToLimit(a)
    BY <1>3 DEF Insert
  <2>2. CacheOK(w) /\ w.bytes \in Nat /\ \A i \in 1..Len(w.entries) : w.entries[i].segment # x
    <3> HIDE DEF p
    <3> QED BY <1>1, WithoutOK
  <2>3. CacheOK(a)
    <3> HIDE DEF w
    <3> QED BY <2>2, AppendOK
  <2>4. /\ CacheOK(EvictToLimit(a)) /\ EvictToLimit(a).bytes \in Nat
        /\ EvictToLimit(a).bytes <= MaxBytes
        /\ \A m \in 0..Len(a.entries) : EvictFront(a, m).bytes <= MaxBytes =>
             \E n \in 0..m : EvictToLimit(a) = EvictFront(a, n)
    <3> HIDE DEF a
    <3> QED BY <2>3, LimitOK
  <2>5. Hit(EvictToLimit(a), x)
    <3> DEFINE m == Len(w.entries)
    <3>1. w.entries \in Seq(Entry) /\ e \in Entry /\ m \in Nat
      BY <2>2 DEF CacheOK, Entry
    <3>2. a.entries = Append(w.entries, e) /\ a.bytes = w.bytes + Size[x]
      OBVIOUS
    <3>3. a.entries \in Seq(Entry) /\ Len(a.entries) = m + 1 /\ a.entries[m + 1] = e
      <4> HIDE DEF a, w, e
      <4> QED BY <3>1, <3>2
    <3> HIDE DEF a, w
    <3> DEFINE u == a.entries
               last == SubSeq(u, m + 1, m + 1)
    <3>4. last \in Seq(Entry) /\ Len(last) = 1 /\ last[1] = e
      <4> HIDE DEF u
      <4> QED BY <3>1, <3>3 DEF u
    <3>5. EvictFront(a, m).bytes <= MaxBytes
      <4>1. m \in 0..Len(a.entries)
        BY <3>1, <3>3
      <4>2. CacheOK(EvictFront(a, m))
        BY <2>3, <4>1, EvictFrontOK
      <4>3. EvictFront(a, m).entries = last
        BY <3>3 DEF EvictFront
      <4>4. Bytes(last) = Size[x]
        <5>1. e.segment = x
          OBVIOUS
        <5> HIDE DEF last, e
        <5> QED BY <3>4, <5>1, BytesOfFew
      <4> HIDE DEF e, last
      <4> QED BY <1>0, <1>3, <4>2, <4>3, <4>4 DEF CacheOK
    <3>6. PICK n \in 0..m : EvictToLimit(a) = EvictFront(a, n)
      BY <2>4, <3>1, <3>3, <3>5
    <3>7. EvictToLimit(a).entries = SubSeq(a.entries, n + 1, m + 1)
      BY <3>3, <3>6 DEF EvictFront
    <3> DEFINE v == SubSeq(u, n + 1, m + 1)
               k == (m + 1) - n
    <3>8. v \in Seq(Entry) /\ Len(v) = k /\ v[k] = u[m + 1] /\ k \in 1..k
      <4> HIDE DEF u
      <4>1. u \in Seq(Entry) /\ Len(u) = m + 1 /\ n \in 0..m /\ m \in Nat
        BY <3>1, <3>3 DEF u
      <4> HIDE DEF m
      <4>2. v \in Seq(Entry) /\ Len(v) = k /\ \A i \in 1..k : v[i] = u[n + i]
        BY <4>1
      <4>3. k \in 1..k /\ n + k = m + 1
        BY <4>1
      <4> HIDE DEF v, k
      <4> QED BY <4>2, <4>3
    <3>9. k \in DOMAIN EvictToLimit(a).entries /\ EvictToLimit(a).entries[k] = e
      <4>1. EvictToLimit(a).entries = v
        BY <3>7
      <4> HIDE DEF v, k, u
      <4> QED BY <3>3, <3>8, <4>1 DEF u
    <3> QED BY <3>9 DEF Hit
  <2> HIDE DEF a
  <2> QED BY <2>1, <2>4, <2>5
<1> QED BY <1>2, <1>3

\* get: nothing is lost or gained but an expired entry.
LEMMA LookedOK ==
  ASSUME NEW c, CacheOK(c), c.bytes \in Nat, c.bytes <= MaxBytes, NEW x \in Segment
  PROVE  CacheOK(Looked(c, x)) /\ Looked(c, x).bytes \in Nat /\ Looked(c, x).bytes <= MaxBytes
<1> DEFINE w == Without(c, x)
<1>0. MaxBytes \in Nat /\ Size[x] \in Nat
  BY StreamAssumption
<1>1. /\ CacheOK(w) /\ w.bytes \in Nat /\ \A i \in 1..Len(w.entries) : w.entries[i].segment # x
      /\ w.bytes = c.bytes
           - (IF \E i \in 1..Len(c.entries) : c.entries[i].segment = x THEN Size[x] ELSE 0)
  BY WithoutOK
<1>2. CASE ~Hit(c, x)
  <2>1. Looked(c, x) = w
    BY <1>2 DEF Looked
  <2> HIDE DEF w
  <2> QED BY <1>0, <1>1, <2>1
<1>3. CASE Hit(c, x)
  <2> DEFINE e == [segment |-> x, fresh |-> TRUE]
             a == [entries |-> Append(w.entries, e), bytes |-> w.bytes + Size[x]]
  <2>1. CacheOK(a)
    <3> HIDE DEF w
    <3> QED BY <1>1, AppendOK
  <2>2. \E i \in 1..Len(c.entries) : c.entries[i].segment = x
    BY <1>3 DEF Hit, CacheOK
  <2>3. w.bytes + Size[x] = c.bytes
    <3> HIDE DEF w
    <3> QED BY <1>0, <1>1, <2>2
  <2>4. Looked(c, x) = a
    <3>1. c = [entries |-> c.entries, bytes |-> c.bytes]
      BY DEF CacheOK
    <3>2. Looked(c, x) = [c EXCEPT !.entries = Append(w.entries, e)]
      BY <1>3 DEF Looked
    <3> HIDE DEF w, e
    <3> QED BY <2>3, <3>1, <3>2
  <2> HIDE DEF w
  <2> QED BY <2>1, <2>3, <2>4
<1> QED BY <1>2, <1>3

\* Expiry changes no size.
LEMMA ExpiredOK ==
  ASSUME NEW c, CacheOK(c), NEW i \in DOMAIN c.entries
  PROVE  /\ CacheOK([c EXCEPT !.entries[i].fresh = FALSE])
         /\ [c EXCEPT !.entries[i].fresh = FALSE].bytes = c.bytes
<1> DEFINE s == c.entries
           t == [s EXCEPT ![i].fresh = FALSE]
<1>1. s \in Seq(Entry) /\ DOMAIN s = 1..Len(s) /\ OnePerSegment(s) /\ c.bytes = Bytes(s)
  BY DEF CacheOK
<1>2. s[i] \in Entry
  BY <1>1
<1>3. [s[i] EXCEPT !.fresh = FALSE] \in Entry /\ [s[i] EXCEPT !.fresh = FALSE].segment = s[i].segment
  BY <1>2 DEF Entry
<1>4. t \in Seq(Entry) /\ Len(t) = Len(s) /\ \A n \in 1..Len(s) : t[n].segment = s[n].segment
  <2> HIDE DEF s
  <2>1. t \in [1..Len(s) -> Entry] /\ t[i].segment = s[i].segment
    <3> DEFINE e == [s[i] EXCEPT !.fresh = FALSE]
    <3>1. t = [s EXCEPT ![i] = e]
      OBVIOUS
    <3>2. s \in [1..Len(s) -> Entry] /\ i \in 1..Len(s)
      BY <1>1 DEF s
    <3> HIDE DEF t, e
    <3>3. t \in [1..Len(s) -> Entry] /\ t[i] = e
      BY <1>3, <3>1, <3>2 DEF e
    <3> QED BY <1>3, <3>3 DEF e
  <2>2. \A n \in 1..Len(s) : t[n].segment = s[n].segment
    BY <1>1, <2>1
  <2>3. Len(s) \in Nat
    BY <1>1
  <2> HIDE DEF t
  <2> QED BY <2>1, <2>2, <2>3
<1>5. [c EXCEPT !.entries[i].fresh = FALSE] = [entries |-> t, bytes |-> c.bytes]
  <2>1. [c EXCEPT !.entries[i].fresh = FALSE] = [c EXCEPT !.entries = t]
    OBVIOUS
  <2>2. c = [entries |-> c.entries, bytes |-> c.bytes]
    BY DEF CacheOK
  <2> HIDE DEF t
  <2> QED BY <2>1, <2>2
<1>6. Bytes(t) = Bytes(s)
  <2> HIDE DEF s, t
  <2> QED BY <1>1, <1>4, BytesOfSame
<1>7. OnePerSegment(t)
  <2> HIDE DEF s, t
  <2> QED BY <1>1, <1>4 DEF OnePerSegment
<1> HIDE DEF t
<1> QED BY <1>1, <1>4, <1>5, <1>6, <1>7 DEF CacheOK
-----------------------------------------------------------------------------
\* The calls of the gateway client, and the cache they fill.

\* A call belongs to a request that waits for it, or to a task without a result.
CallInv ==
  /\ call \in [Caller -> {"none", "pending", "done", "failed"}]
  /\ \A c \in Channel : call[c] # "none" => Downloads(c)
  /\ \A r \in Request : call[r] # "none" => req[r].pc \in {"fetch", "health"}

\* The segment cache within its limit.
CacheInv == CacheOK(segments) /\ segments.bytes \in Nat /\ segments.bytes <= MaxBytes

\* A channel is no request.
LEMMA CallerIs ==
  ASSUME NEW c \in Channel, NEW r \in Request
  PROVE  c \in Caller /\ r \in Caller /\ c # r
  BY StreamAssumption DEF Caller

\* A step of request r that ends its call, or finds it without one.
LEMMA CallOver ==
  ASSUME CallInv, NEW r \in Request, call' = Dropped(r) \/ (call' = call /\ call[r] = "none"),
         req \in [Request -> RequestType], NEW x, req' = [req EXCEPT ![r] = x],
         \A c \in Channel : Downloads(c) => Downloads(c)'
  PROVE  CallInv'
<1>1. /\ call' \in [Caller -> {"none", "pending", "done", "failed"}] /\ call'[r] = "none"
      /\ \A k \in Caller \ {r} : call'[k] = call[k]
  BY CallerIs DEF CallInv, Dropped, Caller
<1>2. \A q \in Request \ {r} : req'[q] = req[q]
  OBVIOUS
<1>3. ASSUME NEW c \in Channel, call'[c] # "none" PROVE Downloads(c)'
  BY <1>1, <1>3, CallerIs DEF CallInv
<1>4. ASSUME NEW q \in Request, call'[q] # "none" PROVE req'[q].pc \in {"fetch", "health"}
  BY <1>1, <1>2, <1>4 DEF CallInv, Caller
<1> QED BY <1>1, <1>3, <1>4 DEF CallInv

\* A step of request r that begins its call.
LEMMA CallBegun ==
  ASSUME CallInv, NEW r \in Request, call' = Begun(r),
         req \in [Request -> RequestType], NEW x, req' = [req EXCEPT ![r] = x],
         x.pc \in {"fetch", "health"}, UNCHANGED channel
  PROVE  CallInv'
<1>1. /\ call' \in [Caller -> {"none", "pending", "done", "failed"}]
      /\ \A k \in Caller \ {r} : call'[k] = call[k]
  BY CallerIs DEF CallInv, Begun, Caller
<1>2. req'[r] = x /\ \A q \in Request \ {r} : req'[q] = req[q]
  OBVIOUS
<1>3. ASSUME NEW c \in Channel, call'[c] # "none" PROVE Downloads(c)'
  BY <1>1, <1>3, CallerIs DEF CallInv, Downloads
<1>4. ASSUME NEW q \in Request, call'[q] # "none" PROVE req'[q].pc \in {"fetch", "health"}
  BY <1>1, <1>2, <1>4 DEF CallInv, Caller
<1> QED BY <1>1, <1>3, <1>4 DEF CallInv

\* A step of the task of channel c that ends its call, or finds it without one.
LEMMA TaskCallOver ==
  ASSUME CallInv, NEW c \in Channel, call' = Dropped(c) \/ (call' = call /\ call[c] = "none"),
         req' = req, \A k \in Channel \ {c} : Downloads(k) => Downloads(k)'
  PROVE  CallInv'
<1>1. /\ call' \in [Caller -> {"none", "pending", "done", "failed"}] /\ call'[c] = "none"
      /\ \A k \in Caller \ {c} : call'[k] = call[k]
  BY CallerIs DEF CallInv, Dropped, Caller
<1>2. ASSUME NEW k \in Channel, call'[k] # "none" PROVE Downloads(k)'
  BY <1>1, <1>2 DEF CallInv, Caller
<1>3. ASSUME NEW q \in Request, call'[q] # "none" PROVE req'[q].pc \in {"fetch", "health"}
  BY <1>1, <1>3, CallerIs DEF CallInv
<1> QED BY <1>1, <1>2, <1>3 DEF CallInv

\* A channel with a live task and no result outlives the collection.
LEMMA DownloadsKept ==
  ASSUME IInv, NEW ch \in [Channel -> ChannelType], NEW fs, NEW rq, channel' = Collected(ch, fs, rq),
         NEW k \in Channel, ch[k] = channel[k], Downloads(k)
  PROVE  Downloads(k)'
  BY CollectedKeeps DEF AliveIn, Downloads

\* A handler keeps CallInv.
LEMMA HandleCalls ==
  ASSUME IInv, CallInv, NEW r \in Request, Handle(r) \/ DropRequest(r)
  PROVE  CallInv'
<1>0. /\ req \in [Request -> RequestType] /\ RequestInv /\ channel \in [Channel -> ChannelType]
      /\ call[r] # "none" => req[r].pc \in {"fetch", "health"}
  BY DEF IInv, RequestInv, RequestsOK, ChannelsType, CallInv
<1>1. CASE UseSnapshot(r) \/ OpenFile(r) \/ EndRead(r) \/ LookUpSegment(r)
  <2> DEFINE Local == \E local : Consults(r, local)
  <2>1. /\ \/ Local
           \/ LookUpSegment(r)
           \/ req[r].pc \in {"catalog", "address"} /\ UNCHANGED req
        /\ UNCHANGED <<call, channel>>
    BY <1>1 DEF UseSnapshot, OpenFile, EndRead, LookUpSegment
  <2>2. call[r] = "none"
    BY <1>0, <2>1 DEF Consults, LookUpLocally, ReadCatalogAddress, LookUpSegment
  <2>3. \E x : req' = [req EXCEPT ![r] = x]
    <3>1. CASE Local
      BY <3>1 DEF Consults, LookUpLocally, ReadCatalogAddress, FoundIn, Answered
    <3>2. CASE LookUpSegment(r)
      BY <3>2 DEF LookUpSegment, Answered
    <3>3. CASE UNCHANGED req
      BY <1>0, <3>3
    <3> QED BY <2>1, <3>1, <3>2, <3>3
  <2> QED BY <1>0, <2>1, <2>2, <2>3, CallOver DEF Downloads
<1>2. CASE LoadDocument(r)
  <2>1. req[r].pc = "load" /\ call[r] = "none" /\ UNCHANGED channel
    BY <1>0, <1>2 DEF LoadDocument
  <2>2. CASE call' = Begun(r) /\ req' = [req EXCEPT ![r].pc = "fetch"]
    <3>1. \E x : req' = [req EXCEPT ![r] = x] /\ x.pc = "fetch"
      <4> DEFINE x == [req[r] EXCEPT !.pc = "fetch"]
      <4>1. req' = [req EXCEPT ![r] = x] /\ x.pc = "fetch"
        BY <1>0, <2>2 DEF RequestType
      <4> QED BY <4>1
    <3> QED BY <1>0, <2>1, <2>2, <3>1, CallBegun
  <2>3. CASE call' = call /\ (req' = Loaded(r) \/ req' = Answered(r))
    <3>1. \E x : req' = [req EXCEPT ![r] = x]
      BY <1>0, <2>1, <2>3, LoadedSafe DEF Answered
    <3> QED BY <1>0, <2>1, <2>3, <3>1, CallOver DEF Downloads
  <2> QED BY <1>2, <2>2, <2>3 DEF LoadDocument
<1>3. CASE StoreDocument(r) \/ AnswerHealth(r)
  <2>1. call' = Dropped(r) /\ UNCHANGED channel
    BY <1>3 DEF StoreDocument, AnswerHealth
  <2>2. \E x : req' = [req EXCEPT ![r] = x]
    BY <1>0, <1>3, LoadedSafe DEF StoreDocument, AnswerHealth, Answered
  <2> QED BY <1>0, <2>1, <2>2, CallOver DEF Downloads
<1>4. CASE JoinFetch(r)
  <2>1. req[r].pc = "join" /\ call[r] = "none" /\ \E x : req' = [req EXCEPT ![r] = x]
    BY <1>0, <1>4 DEF JoinFetch, Answered, RequestType
  <2>2. CASE UNCHANGED <<channel, call>>
    BY <1>0, <2>1, <2>2, CallOver DEF Downloads
  <2>3. ASSUME NEW c \in FreeChannels, call' = Begun(c),
               channel' = [channel EXCEPT ![c] =
                             [segment |-> req[r].target.segment, alive |-> TRUE, result |-> "none"]]
        PROVE  CallInv'
    <3>1. c \in Channel
      BY DEF FreeChannels
    <3>2. /\ call' \in [Caller -> {"none", "pending", "done", "failed"}]
          /\ \A k \in Caller \ {c} : call'[k] = call[k]
      BY <2>3, <3>1, CallerIs DEF CallInv, Begun, Caller
    <3>3. channel'[c].alive /\ channel'[c].result = "none" /\ \A k \in Channel \ {c} : channel'[k] = channel[k]
      BY <1>0, <2>3, <3>1
    <3>4. ASSUME NEW k \in Channel, call'[k] # "none" PROVE Downloads(k)'
      BY <3>2, <3>3, <3>4 DEF CallInv, Downloads, Caller
    <3>5. ASSUME NEW q \in Request, call'[q] # "none" PROVE req'[q].pc \in {"fetch", "health"}
      <4>1. call'[q] = call[q]
        BY <3>1, <3>2, CallerIs
      <4>2. q # r
        BY <2>1, <3>5, <4>1
      <4> QED BY <1>0, <2>1, <3>5, <4>1, <4>2 DEF CallInv
    <3> QED BY <3>2, <3>4, <3>5 DEF CallInv
  <2> QED BY <1>4, <2>2, <2>3 DEF JoinFetch
<1>5. CASE TakeResult(r) \/ FindStopped(r) \/ DropRequest(r)
  <2>1. /\ req' = [req EXCEPT ![r] = NoRequest]
        /\ (call' = Dropped(r) \/ (call' = call /\ call[r] = "none"))
        /\ channel' = Collected(channel, fetches', req')
    BY <1>0, <1>5 DEF TakeResult, FindStopped, DropRequest, Answered
  <2>2. \A k \in Channel : Downloads(k) => Downloads(k)'
    BY <1>0, <2>1, DownloadsKept
  <2> QED BY <1>0, <2>1, <2>2, CallOver
<1> QED BY <1>1, <1>2, <1>3, <1>4, <1>5 DEF Handle

\* A task keeps CallInv.
LEMMA TaskCalls ==
  ASSUME IInv, CallInv, NEW c \in Channel, Task(c)
  PROVE  CallInv'
<1>0. channel \in [Channel -> ChannelType]
  BY DEF IInv, ChannelsType
<1>1. CASE StoreSegment(c) \/ FailSegment(c)
  <2>1. /\ call' = Dropped(c) /\ req' = req
        /\ \E v \in {"ok", "error"} : channel' = [channel EXCEPT ![c].result = v]
    BY <1>1 DEF StoreSegment, FailSegment
  <2>2. \A k \in Channel \ {c} : channel'[k] = channel[k]
    BY <1>0, <2>1
  <2> QED BY <2>1, <2>2, TaskCallOver DEF Downloads
<1>2. CASE RetireFetch(c) \/ AbortFetch(c)
  <2> DEFINE ch == [channel EXCEPT ![c].alive = FALSE]
  <2>1. /\ (call' = Dropped(c) \/ (call' = call /\ call[c] = "none")) /\ req' = req
        /\ channel' = Collected(ch, fetches', req)
    BY <1>2 DEF RetireFetch, AbortFetch, CallInv, Downloads
  <2>2. ch \in [Channel -> ChannelType] /\ \A k \in Channel \ {c} : ch[k] = channel[k]
    BY <1>0 DEF ChannelType
  <2>3. \A k \in Channel \ {c} : Downloads(k) => Downloads(k)'
    <3> HIDE DEF ch
    <3> QED BY <2>1, <2>2, DownloadsKept
  <2>4. req' = req /\ (call' = Dropped(c) \/ (call' = call /\ call[c] = "none"))
    BY <1>2 DEF RetireFetch, AbortFetch, CallInv, Downloads
  <2> QED BY <2>3, <2>4, TaskCallOver
<1> QED BY <1>1, <1>2 DEF Task

\* A step that changes neither calls nor channels nor the pc of a request.
LEMMA CallsAside ==
  ASSUME CallInv, UNCHANGED <<call, channel>>, \A r \in Request : req'[r].pc = req[r].pc
  PROVE  CallInv'
  BY DEF CallInv, Downloads

\* Every step keeps CallInv.
LEMMA NextCallInv ==
  ASSUME IInv, CallInv, [Next]_vars
  PROVE  CallInv'
<1>0. req \in [Request -> RequestType]
  BY DEF IInv, RequestInv, RequestsOK
<1>1. ASSUME NEW r \in Request, NEW t \in Target[r], Get(r, t)
      PROVE  CallInv'
  <2> DEFINE p == IF t.kind = "health" THEN "health" ELSE IF t.video # None THEN "catalog" ELSE "load"
             x == [pc |-> p, target |-> t, doc |-> t.manifest, channel |-> None,
                   seen |-> t.video \in visible]
  <2>1. req' = [req EXCEPT ![r] = x] /\ UNCHANGED channel
    BY <1>1, Zenon DEF Get
  <2>2. call[r] = "none" /\ call' = (IF t.kind = "health" THEN Begun(r) ELSE call)
    BY <1>1 DEF Get, CallInv, NoRequest
  <2>3. t.kind = "health" => x.pc = "health"
    OBVIOUS
  <2>4. \A c \in Channel : Downloads(c) => Downloads(c)'
    BY <2>1 DEF Downloads
  <2> HIDE DEF x
  <2>5. CASE t.kind = "health"
    BY <1>0, <2>1, <2>2, <2>3, <2>5, CallBegun
  <2>6. CASE t.kind # "health"
    BY <1>0, <2>1, <2>2, <2>4, <2>6, CallOver
  <2> QED BY <2>5, <2>6
<1>2. ASSUME NEW r \in Request, Handle(r) \/ DropRequest(r)
      PROVE  CallInv'
  BY <1>2, HandleCalls
<1>3. ASSUME NEW c \in Channel, Task(c)
      PROVE  CallInv'
  BY <1>3, TaskCalls
<1>4. ASSUME NEW k \in Caller, EndCall(k)
      PROVE  CallInv'
  <2>1. call[k] = "pending" /\ UNCHANGED <<req, channel>>
        /\ \E v \in {"done", "failed"} : call' = [call EXCEPT ![k] = v]
    BY <1>4 DEF EndCall, streamVars
  <2>2. /\ call' \in [Caller -> {"none", "pending", "done", "failed"}]
        /\ \A l \in Caller : call'[l] # "none" => call[l] # "none"
    BY <2>1 DEF CallInv
  <2> QED BY <2>1, <2>2 DEF CallInv, Downloads, Caller
<1>5. ASSUME NEW i, ExpireSegment(i)
      PROVE  CallInv'
  BY <1>5, CallsAside DEF ExpireSegment
<1>6. ASSUME NEW d \in Document, ExpireDocument(d)
      PROVE  CallInv'
  BY <1>6, CallsAside DEF ExpireDocument
<1>7. CASE ExpireSnapshot \/ Metrics \/ UNCHANGED vars
  BY <1>7, CallsAside DEF ExpireSnapshot, Metrics, vars, streamVars
<1>8. ASSUME NEW f \in Contents \cup {None}, ChangeFile(f)
      PROVE  CallInv'
  <2>1. UNCHANGED <<call, channel>>
    BY <1>8 DEF ChangeFile
  <2>2. \A r \in Request : req'[r].pc = req[r].pc
    BY <1>0, <1>8 DEF ChangeFile, RequestType
  <2> QED BY <2>1, <2>2, CallsAside
<1> QED BY <1>1, <1>2, <1>3, <1>4, <1>5, <1>6, <1>7, <1>8 DEF Next

\* Every step keeps the cache within its limit.
LEMMA NextCacheInv ==
  ASSUME IInv, CallInv, CacheInv, [Next]_vars
  PROVE  CacheInv'
<1>1. CASE UNCHANGED segments
  BY <1>1 DEF CacheInv
<1>2. ASSUME NEW r \in Request, LookUpSegment(r)
      PROVE  CacheInv'
  <2>1. req[r].target.segment \in Segment
    BY <1>2 DEF LookUpSegment, IInv, RequestInv, RequestsOK, Safe, RequestOK
  <2>2. segments' = segments \/ segments' = Looked(segments, req[r].target.segment)
    BY <1>2 DEF LookUpSegment
  <2> QED BY <1>1, <2>1, <2>2, LookedOK DEF CacheInv
<1>3. ASSUME NEW c \in Channel, StoreSegment(c)
      PROVE  CacheInv'
  <2>1. channel[c].segment \in Segment
    BY <1>3 DEF StoreSegment, CallInv, IInv, FetchInv
  <2>2. segments' = Insert(segments, channel[c].segment)
    BY <1>3 DEF StoreSegment
  <2> QED BY <2>1, <2>2, InsertOK DEF CacheInv
<1>4. ASSUME NEW i, ExpireSegment(i)
      PROVE  CacheInv'
  <2>1. i \in DOMAIN segments.entries /\ segments' = [segments EXCEPT !.entries[i].fresh = FALSE]
    BY <1>4 DEF ExpireSegment
  <2> QED BY <2>1, ExpiredOK DEF CacheInv
<1>5. CASE Metrics
  <2>1. segments' = PruneExpired(segments)
    BY <1>5 DEF Metrics
  <2>2. MaxBytes \in Nat
    BY StreamAssumption
  <2>3. CacheOK(segments') /\ segments'.bytes \in Nat /\ segments'.bytes <= segments.bytes
    BY <2>1, PruneOK DEF CacheInv
  <2> QED BY <2>2, <2>3 DEF CacheInv
<1>6. ASSUME ~ UNCHANGED segments
      PROVE  \/ \E r \in Request : LookUpSegment(r)
             \/ \E c \in Channel : StoreSegment(c)
             \/ \E i \in 1..Cardinality(Segment) : ExpireSegment(i)
             \/ Metrics
  <2>1. ASSUME NEW r \in Request, (\E t \in Target[r] : Get(r, t)) \/ Handle(r) \/ DropRequest(r)
        PROVE  UNCHANGED segments \/ LookUpSegment(r)
    BY <2>1 DEF Get, Handle, DropRequest, UseSnapshot, OpenFile, EndRead, LoadDocument,
       StoreDocument, AnswerHealth, JoinFetch, TakeResult, FindStopped
  <2>2. ASSUME NEW c \in Channel, Task(c)
        PROVE  UNCHANGED segments \/ StoreSegment(c)
    BY <2>2 DEF Task, FailSegment, RetireFetch, AbortFetch
  <2>3. \/ \E k \in Caller : EndCall(k)
        \/ \E d \in Document : ExpireDocument(d)
        \/ ExpireSnapshot
        \/ \E f \in Contents \cup {None} : ChangeFile(f)
        \/ UNCHANGED vars
        => UNCHANGED segments
    BY DEF EndCall, ExpireDocument, ExpireSnapshot, ChangeFile, vars, streamVars
  <2> QED BY <1>6, <2>1, <2>2, <2>3 DEF Next
<1> QED BY <1>1, <1>2, <1>3, <1>4, <1>5, <1>6

-----------------------------------------------------------------------------
\* The theorems.

\* A service that starts has its permits and no request.
LEMMA InitIInv ==
  ASSUME Init
  PROVE  IInv
<1>1. RequestInv
  <2>1. req \in [Request -> RequestType] /\ \A r \in Request : req[r] = NoRequest
    BY NoRequestSafe DEF Init, Safe, RequestOK
  <2> QED BY <2>1, NoRequestSafe DEF RequestInv, RequestsOK
<1>2. VisibleInv
  BY DEF Init, VisibleInv, FreshSnapshot
<1>3. ChannelsType /\ FetchInv
  BY DEF Init, ChannelsType, FetchInv, ChannelType, NoChannel, Downloads
<1>4. SlotInv
  <2>1. AliveIn(channel) = {} /\ FetchingIn(req) = {}
    BY DEF Init, AliveIn, FetchingIn, NoChannel, NoRequest
  <2>2. Cardinality(AliveIn(channel)) = 0 /\ Cardinality(FetchingIn(req)) = 0
    BY <2>1, FS_EmptySet, Zenon
  <2>3. slots = MaxFetches /\ MaxFetches \in Nat
    BY StreamAssumption DEF Init
  <2> QED BY <2>2, <2>3 DEF SlotInv
<1> QED BY <1>1, <1>2, <1>3, <1>4 DEF IInv

\* Every step keeps the inductive invariant.
LEMMA NextIInv ==
  ASSUME IInv, [Next]_vars
  PROVE  IInv'
<1>1. ASSUME NEW r \in Request, NEW t \in Target[r], Get(r, t)
      PROVE  IInv'
  BY <1>1, GetKeeps
<1>2. ASSUME NEW r \in Request, Handle(r)
      PROVE  IInv'
  BY <1>2, UseSnapshotKeeps, OpenFileKeeps, EndReadKeeps, LoadDocumentKeeps,
     StoreDocumentKeeps, AnswerHealthKeeps, LookUpSegmentKeeps, JoinFetchKeeps, WaitEnds DEF Handle
<1>3. ASSUME NEW r \in Request, DropRequest(r)
      PROVE  IInv'
  BY <1>3, DropRequestKeeps
<1>4. ASSUME NEW c \in Channel, Task(c)
      PROVE  IInv'
  BY <1>4, ResultKeeps, TaskEnds DEF Task
<1>5. ASSUME NEW k \in Caller, EndCall(k)
      PROVE  IInv'
  BY <1>5, Aside DEF EndCall, streamVars
<1>6. ASSUME NEW i \in 1..Cardinality(Segment), ExpireSegment(i)
      PROVE  IInv'
  BY <1>6, Aside DEF ExpireSegment
<1>7. ASSUME NEW d \in Document, ExpireDocument(d)
      PROVE  IInv'
  BY <1>7, Aside DEF ExpireDocument
<1>8. CASE ExpireSnapshot
  BY <1>8, ExpireSnapshotKeeps
<1>9. ASSUME NEW f \in Contents \cup {None}, ChangeFile(f)
      PROVE  IInv'
  BY <1>9, ChangeFileKeeps
<1>10. CASE Metrics
  BY <1>10, Aside DEF Metrics
<1>11. CASE UNCHANGED vars
  BY <1>11, Aside DEF vars, streamVars
<1> QED BY <1>1, <1>2, <1>3, <1>4, <1>5, <1>6, <1>7, <1>8, <1>9, <1>10, <1>11 DEF Next

\* The inductive invariant is an invariant.
LEMMA StreamInvariant == Spec => []IInv
  BY InitIInv, NextIInv, PTL DEF Spec

\* fetch_segment_data: a segment is downloaded by one task at a time, which every
\* request for it finds.
THEOREM OneFetch == Spec => []OneFetchPerSegment
<1>1. IInv => OneFetchPerSegment
  BY DEF IInv, FetchInv, Downloads, OneFetchPerSegment
<1> QED BY <1>1, StreamInvariant, PTL

\* fetch_slots: no permit is lost or returned twice.
THEOREM PermitsReturn == Spec => []SlotsReturned
<1>1. IInv => SlotsReturned
  BY DEF IInv, SlotInv, SlotsReturned, AliveIn, FetchingIn
<1> QED BY <1>1, StreamInvariant, PTL

\* local_catalog and read_catalog_address: a video that a request finds by its ID was
\* listed during the request, or before it but since the file was opened for a snapshot
\* that was still fresh or still being read.
THEOREM HiddenStays == Spec => []HiddenWithinTtl
<1>1. IInv => HiddenWithinTtl
  BY DEF IInv, RequestInv, RequestsOK, Safe, HiddenOK, Allowed, HiddenWithinTtl
<1> QED BY <1>1, StreamInvariant, PTL

\* The calls and the cache, along with the inductive invariant.
LEMMA CacheInvariant == Spec => [](IInv /\ CallInv /\ CacheInv)
<1>1. Init => CallInv /\ CacheInv
  <2>1. SUFFICES ASSUME Init PROVE CallInv /\ CacheInv
    OBVIOUS
  <2>2. CallInv
    BY <2>1 DEF Init, CallInv, Caller
  <2>3. segments = [entries |-> << >>, bytes |-> 0] /\ segments.entries = << >> /\ segments.bytes = 0
    BY <2>1 DEF Init
  <2>4. << >> \in Seq(Entry) /\ Len(<< >>) = 0 /\ Bytes(<< >>) = 0
    <3>1. << >> \in Seq(Entry) /\ Len(<< >>) = 0
      OBVIOUS
    <3> QED BY <3>1, BytesOfFew
  <2>5. OnePerSegment(<< >>)
    BY DEF OnePerSegment
  <2> QED BY <2>2, <2>3, <2>4, <2>5, StreamAssumption DEF CacheInv, CacheOK
<1>2. IInv /\ CallInv /\ CacheInv /\ [Next]_vars => (CallInv /\ CacheInv)'
  BY NextCallInv, NextCacheInv
<1> QED BY <1>1, <1>2, InitIInv, NextIInv, PTL DEF Spec

\* cache.rs: through replacement, expiry, pruning and eviction the byte counter is what
\* the entries hold, and it stays within segment_max_bytes.
THEOREM CacheWithinLimit == Spec => []CacheBounded
<1>1. CacheInv => CacheBounded
  BY DEF CacheInv, CacheOK, CacheBounded
<1> QED BY <1>1, CacheInvariant, PTL

\* fetch_segment_data_uncached: a segment that fits in the cache is in it when its
\* waiters are told: evict_to_limit, called by its own insert, does not reach it.
NewestStays ==
  [][\A c \in Channel :
       StoreSegment(c) /\ MaxBytes # 0 /\ Size[channel[c].segment] <= MaxBytes =>
         Hit(segments', channel[c].segment)]_vars

\* insert: evict_to_limit stops before the entry that has just been made.
THEOREM FetchedIsCached == Spec => NewestStays
<1>1. ASSUME IInv, CallInv, CacheInv, NEW c \in Channel, StoreSegment(c),
             MaxBytes # 0, Size[channel[c].segment] <= MaxBytes
      PROVE  Hit(segments', channel[c].segment)
  <2>1. channel[c].segment \in Segment
    BY <1>1 DEF StoreSegment, CallInv, IInv, FetchInv
  <2>2. segments' = Insert(segments, channel[c].segment)
    BY <1>1 DEF StoreSegment
  <2> QED BY <1>1, <2>1, <2>2, InsertOK DEF CacheInv
<1>2. /\ IInv /\ CallInv /\ CacheInv
      => \A c \in Channel :
           StoreSegment(c) /\ MaxBytes # 0 /\ Size[channel[c].segment] <= MaxBytes =>
             Hit(segments', channel[c].segment)
  BY <1>1
<1> QED BY <1>2, CacheInvariant, PTL DEF NewestStays

\* Downloads that the gateway client has under way.
Downloading ==
  {k \in Caller : call[k] # "none" /\ (k \in Request => req[k].pc = "fetch")}

\* fetch_slots: dropped requests, dead tasks and errors included, the gateway never has
\* more downloads of this service under way than there are permits.
DownloadsBounded == IsFiniteSet(Downloading) /\ Cardinality(Downloading) <= MaxFetches

\* Every download under way has a permit of its own.
THEOREM NeverMoreDownloads == Spec => []DownloadsBounded
<1>1. ASSUME IInv, CallInv PROVE DownloadsBounded
  <2> DEFINE A == AliveIn(channel)
             B == FetchingIn(req)
  <2>1. Downloading \subseteq A \cup B
    BY <1>1 DEF Downloading, AliveIn, FetchingIn, CallInv, Downloads, Caller
  <2>2. IsFiniteSet(A) /\ IsFiniteSet(B) /\ Cardinality(A) \in Nat /\ Cardinality(B) \in Nat
    BY Counts
  <2>3. A \cap B = {}
    BY StreamAssumption DEF AliveIn, FetchingIn
  <2> HIDE DEF A, B
  <2>4. IsFiniteSet(A \cup B) /\ Cardinality(A \cup B) = Cardinality(A) + Cardinality(B)
    <3>1. Cardinality(A \cap B) = 0
      BY <2>3, FS_EmptySet
    <3>2. /\ IsFiniteSet(A \cup B)
          /\ Cardinality(A \cup B) = Cardinality(A) + Cardinality(B) - Cardinality(A \cap B)
      BY <2>2, FS_Union
    <3> QED BY <2>2, <3>1, <3>2
  <2>5. IsFiniteSet(Downloading) /\ Cardinality(Downloading) <= Cardinality(A \cup B)
        /\ Cardinality(Downloading) \in Nat
    BY <2>1, <2>4, FS_Subset, FS_CardinalityType
  <2>6. slots \in Nat /\ slots + Cardinality(A) + Cardinality(B) = MaxFetches
    BY <1>1 DEF IInv, SlotInv, A, B
  <2> QED BY <2>2, <2>4, <2>5, <2>6 DEF DownloadsBounded
<1>2. IInv /\ CallInv => DownloadsBounded
  BY <1>1
<1> QED BY <1>2, CacheInvariant, PTL
=============================================================================
