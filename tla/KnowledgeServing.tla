-------------------------- MODULE KnowledgeServing --------------------------
(***************************************************************************)
(* What a search returns while the administrator changes the knowledge:    *)
(* activates and collects releases, pins them in configurations, deletes   *)
(* documents.  A search is a sequence of database reads, and its result    *)
(* goes to a cache that others may have cleared just before.               *)
(***************************************************************************)
EXTENDS Naturals, FiniteSets

CONSTANTS
  Releases, Docs, DocsOf,   \* the releases that are built, and their documents
  NoRelease,
  Searchers, Admins,
  MaxHead                   \* bound on the versions of the head

VARIABLES
  status,    \* of the releases
  kept,      \* the releases whose retained_until is ahead
  deleted,   \* the tombstones of documents
  head,      \* the row of knowledge_heads
  pinned,    \* the releases that the configuration manifests name
  cache,     \* the cached results: the documents of their citations
  admin,     \* a request of an administrator between its reads and its write
  search,    \* a search: where it is, its release and its hits
  before     \* what was deleted and retired before a search began

vars == <<status, kept, deleted, head, pinned, cache, admin, search, before>>



TypeOK ==
  /\ status \in [Releases -> {"ready", "retired"}]
  /\ kept \subseteq Releases /\ pinned \subseteq Releases
  /\ deleted \subseteq Docs
  /\ head \in [release: Releases \union {NoRelease}, version: 0 .. MaxHead]
  /\ cache \in [Releases -> SUBSET Docs]
  /\ admin \in [Admins -> [pc: {"idle", "activate", "draft"},
                           release: Releases \union {NoRelease},
                           expected: 0 .. MaxHead]]
  /\ search \in [Searchers ->
       [pc: {"idle", "cache", "index", "tombstones", "release", "items",
             "recheck", "put", "done"},
        release: Releases \union {NoRelease}, hits: SUBSET Docs]]
  /\ before \in [Searchers -> [docs: SUBSET Docs, retired: SUBSET Releases]]

Idle == [pc |-> "idle", release |-> NoRelease, expected |-> 0]

Init ==
  /\ status = [r \in Releases |-> "ready"]
  /\ kept = Releases /\ pinned = {} /\ deleted = {}
  /\ head = [release |-> NoRelease, version |-> 0]
  /\ cache = [r \in Releases |-> {}]
  /\ admin = [a \in Admins |-> Idle]
  /\ search = [s \in Searchers |-> [pc |-> "idle", release |-> NoRelease, hits |-> {}]]
  /\ before = [s \in Searchers |-> [docs |-> {}, retired |-> {}]]

Cleared(S) == [r \in Releases |-> IF r \in S THEN {} ELSE cache[r]]

-----------------------------------------------------------------------------
(* The administrator *)

\* activate() reads the release and its documents before it writes the head;
\* the release "" withdraws what is active.
ActivateReads(a) ==
  /\ admin[a].pc = "idle" /\ head.version < MaxHead
  /\ \E r \in Releases \union {NoRelease} :
       /\ r # NoRelease =>
            status[r] = "ready" /\ r \in kept /\ DocsOf[r] \intersect deleted = {}
       /\ admin' = [admin EXCEPT ![a] = [pc |-> "activate", release |-> r,
                                         expected |-> head.version]]
  /\ UNCHANGED <<status, kept, deleted, head, pinned, cache, search, before>>

Activate(a) ==
  /\ admin[a].pc = "activate"
  /\ admin' = [admin EXCEPT ![a] = Idle]
  /\ IF head.version = admin[a].expected
       THEN /\ head' = [release |-> admin[a].release, version |-> head.version + 1]
            /\ cache' = Cleared(Releases)
       ELSE UNCHANGED <<head, cache>>
  /\ UNCHANGED <<status, kept, deleted, pinned, search, before>>

\* draft() of a configuration reads the release before it stores the manifest.
DraftReads(a) ==
  /\ admin[a].pc = "idle"
  /\ \E r \in Releases \ pinned :
       /\ status[r] = "ready"
       /\ admin' = [admin EXCEPT ![a].pc = "draft", ![a].release = r]
  /\ UNCHANGED <<status, kept, deleted, head, pinned, cache, search, before>>

Draft(a) ==
  /\ admin[a].pc = "draft"
  /\ pinned' = pinned \union {admin[a].release}
  /\ admin' = [admin EXCEPT ![a] = Idle]
  /\ UNCHANGED <<status, kept, deleted, head, cache, search, before>>

Protected == pinned \union {head.release}

\* collect(), which locks the head.
Collect ==
  LET retired == {r \in Releases \ (kept \union Protected) : status[r] = "ready"}
  IN  /\ retired # {}
      /\ status' = [r \in Releases |-> IF r \in retired THEN "retired" ELSE status[r]]
      /\ cache' = Cleared(retired)
      /\ UNCHANGED <<kept, deleted, head, pinned, admin, search, before>>

DeleteDocument(d) ==
  /\ d \notin deleted
  /\ deleted' = deleted \union {d}
  /\ cache' = Cleared(Releases)
  /\ UNCHANGED <<status, kept, head, pinned, admin, search, before>>

RetentionEnds(r) ==
  /\ r \in kept
  /\ kept' = kept \ {r}
  /\ UNCHANGED <<status, deleted, head, pinned, cache, admin, search, before>>

-----------------------------------------------------------------------------
(* HybridRetrieval.search *)

Goto(s, pc) == search' = [search EXCEPT ![s].pc = pc]

\* A configuration's release, or the head's.
Begin(s) ==
  /\ search[s].pc = "idle"
  /\ \E r \in Protected \ {NoRelease} :
       search' = [search EXCEPT ![s] = [pc |-> "cache", release |-> r, hits |-> {}]]
  /\ before' = [before EXCEPT ![s] =
       [docs |-> deleted, retired |-> {r \in Releases : status[r] = "retired"}]]
  /\ UNCHANGED <<status, kept, deleted, head, pinned, cache, admin>>

CacheGet(s) ==
  /\ search[s].pc = "cache"
  /\ LET hits == cache[search[s].release]
     IN  search' = [search EXCEPT ![s].hits = hits,
                                  ![s].pc = IF hits = {} THEN "release" ELSE "index"]
  /\ UNCHANGED <<status, kept, deleted, head, pinned, cache, admin, before>>

\* validate_citations reads the index, which collect() empties, and then the
\* tombstones; a citation that is not valid any more leads to a fresh search.
ValidateIndex(s) ==
  /\ search[s].pc = "index"
  /\ Goto(s, IF status[search[s].release] = "retired" THEN "release" ELSE "tombstones")
  /\ UNCHANGED <<status, kept, deleted, head, pinned, cache, admin, before>>

\* (mutant of Valid: the tombstones are left to the search)
ValidAlways(hits) == TRUE

Valid(hits) == hits \intersect deleted = {}

ValidateTombstones(s) ==
  /\ search[s].pc = "tombstones"
  /\ Goto(s, IF Valid(search[s].hits) THEN "done" ELSE "release")
  /\ UNCHANGED <<status, kept, deleted, head, pinned, cache, admin, before>>

\* _search() refuses a release that is not ready.
ReadRelease(s) ==
  /\ search[s].pc = "release"
  /\ search' = [search EXCEPT ![s].hits = {},
       ![s].pc = IF status[search[s].release] = "ready" THEN "items" ELSE "done"]
  /\ UNCHANGED <<status, kept, deleted, head, pinned, cache, admin, before>>

\* Applicability, the two rankings and the evidence rule select the hits among
\* the documents that have no tombstone yet.
Select(s) ==
  /\ search[s].pc = "items"
  /\ \E hits \in SUBSET (DocsOf[search[s].release] \ deleted) :
       search' = [search EXCEPT ![s].hits = hits, ![s].pc = "recheck"]
  /\ UNCHANGED <<status, kept, deleted, head, pinned, cache, admin, before>>

\* The tombstones are read once more when the result is put together.
Recheck(s) ==
  /\ search[s].pc = "recheck"
  /\ LET live == search[s].hits \ deleted
     IN  search' = [search EXCEPT ![s].hits = live,
                                  ![s].pc = IF live = {} THEN "done" ELSE "put"]
  /\ UNCHANGED <<status, kept, deleted, head, pinned, cache, admin, before>>

\* Two searches may insert under one key; the second is content with the first.
CachePut(s) ==
  /\ search[s].pc = "put"
  /\ cache' = [cache EXCEPT ![search[s].release] = search[s].hits]
  /\ Goto(s, "done")
  /\ UNCHANGED <<status, kept, deleted, head, pinned, admin, before>>

Return(s) ==
  /\ search[s].pc = "done"
  /\ search' = [search EXCEPT ![s] = [pc |-> "idle", release |-> NoRelease, hits |-> {}]]
  /\ before' = [before EXCEPT ![s] = [docs |-> {}, retired |-> {}]]
  /\ UNCHANGED <<status, kept, deleted, head, pinned, cache, admin>>

\* A cached result lives for a minute.
CacheExpires(r) ==
  /\ cache[r] # {}
  /\ cache' = Cleared({r})
  /\ UNCHANGED <<status, kept, deleted, head, pinned, admin, search, before>>

Next ==
  \/ \E a \in Admins : \/ ActivateReads(a) \/ Activate(a)
                       \/ DraftReads(a) \/ Draft(a)
  \/ Collect
  \/ \E d \in Docs : DeleteDocument(d)
  \/ \E r \in Releases : RetentionEnds(r) \/ CacheExpires(r)
  \/ \E s \in Searchers :
       \/ Begin(s) \/ CacheGet(s) \/ ValidateIndex(s) \/ ValidateTombstones(s)
       \/ ReadRelease(s) \/ Select(s) \/ Recheck(s) \/ CachePut(s) \/ Return(s)

Spec == Init /\ [][Next]_vars

-----------------------------------------------------------------------------

\* A search returns no document that was deleted, and nothing of a release that
\* was retired, before it began: not from a result that another search put into
\* the cache after the deletion had cleared it, and not from a head or a manifest
\* that names a retired release.
WithdrawnNeverReturned ==
  \A s \in Searchers : search[s].pc = "done" =>
    /\ search[s].hits \intersect before[s].docs = {}
    /\ search[s].release \in before[s].retired => search[s].hits = {}

-----------------------------------------------------------------------------
(* Why it holds *)

RetiredReleases == {r \in Releases : status[r] = "retired"}

\* A request that will write has read a head that may move, or a release.
AdminOK(a) ==
  /\ admin[a].pc = "activate" => admin[a].expected < MaxHead
  /\ admin[a].pc = "draft" => admin[a].release \in Releases

\* What was withdrawn stays so, and a search has looked at the release, and then
\* at the tombstones, since it began.
SearchOK(s) ==
  /\ before[s].docs \subseteq deleted
  /\ before[s].retired \subseteq RetiredReleases
  /\ search[s].pc # "idle" => search[s].release \in Releases
  /\ search[s].pc \in {"tombstones", "items", "recheck", "put"} =>
       search[s].release \notin before[s].retired
  /\ search[s].pc \in {"recheck", "put"} =>
       search[s].hits \intersect before[s].docs = {}

\* The inductive invariant behind WithdrawnNeverReturned.
IInv ==
  /\ TypeOK
  /\ \A a \in Admins : AdminOK(a)
  /\ \A s \in Searchers : SearchOK(s)
  /\ WithdrawnNeverReturned

=============================================================================
