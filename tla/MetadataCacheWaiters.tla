------------------------ MODULE MetadataCacheWaiters ------------------------
(***************************************************************************)
(* MetadataCache with a history of the requests whose stat_resolver was    *)
(* discarded: nothing in the code settles the promise of such a request,   *)
(* and what becomes of every other one that waits is stated here.          *)
(***************************************************************************)
EXTENDS MetadataCache

VARIABLE abandoned  \* history: requests whose resolver was discarded unsettled

allVars == <<vars, abandoned>>

\* The resolver a request waits on is on an entry.
ResolverOn(r, n) == /\ waitsOn[r] # NotWaiting
                    /\ n \in waitsOn[r].name
                    /\ entries[n].resolver = waitsOn[r].batch

\* The ways to discard a resolver: its entry leaves the cache, by expiry or an
\* invalidation, or is overwritten by a listing.  updateMetadata, which replaces
\* the entry as well, is not one of them: it has to fire the resolver.
Discards(n) == entries'[n] = NoEntry \/ ListingArrives

Abandons == {r \in Requests : answer[r] = "pending"
                                /\ \E n \in Names : ResolverOn(r, n) /\ Discards(n)}

WaitersInit == Init /\ abandoned = {}
WaitersNext == Next /\ abandoned' = abandoned \cup Abandons
WaitersSpec == WaitersInit /\ [][WaitersNext]_allVars /\ Fairness

BatchFailed(r) == waitsOn[r] # NotWaiting /\ answer[waitsOn[r].batch] = "failed"

\* A request that waits on the stat_resolver of a batch is answered, unless the
\* batch fails, which rejects none of its resolvers, or the resolver is discarded
\* with its entry: a batch that succeeds answers everyone who waits on it, even when
\* the reply to another request has replaced the entry first.
WaitersAnswered ==
    \A r \in Requests :
        answer[r] = "pending" /\ waitsOn[r] # NotWaiting
          ~> Answered(r) \/ BatchFailed(r) \/ r \in abandoned
=============================================================================
