-------------------------- MODULE MCStreamService --------------------------
(* A small instance of StreamService for TLC: one request by ID, one by    *)
(* manifest address, and a bootstrap catalog without the video.            *)
EXTENDS StreamService

CONSTANTS r1, r2, v1, c1, c2, m1, s1, s2

MCListing == [c \in Catalog |-> IF c = c1 THEN [v \in {v1} |-> m1] ELSE [v \in {} |-> m1]]
MCDescribes == [m \in Manifest |-> v1]
MCSegmentsOf == [m \in Manifest |-> {s1, s2}]
\* The video is listed, or hidden while the published catalog still lists it.
MCContents == {[listing |-> MCListing[c1], address |-> None],
               [listing |-> MCListing[c2], address |-> c1]}
MCSize == [s \in Segment |-> IF s = s1 THEN 1 ELSE 2]
ById == [kind |-> "segment", video |-> v1, manifest |-> None, segment |-> s1]
Playlist == [kind |-> "playlist", video |-> None, manifest |-> m1, segment |-> None]
ByAddress(s) == [kind |-> "segment", video |-> None, manifest |-> m1, segment |-> s]
Health == [kind |-> "health", video |-> None, manifest |-> None, segment |-> None]
MCTarget == [r \in Request |-> IF r = r1 THEN {ById, Health}
                               ELSE {ByAddress(s1), ByAddress(s2), Playlist}]

\* Channels are only compared for equality.
Interchangeable == Permutations(Channel)

=============================================================================
