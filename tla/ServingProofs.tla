---------------------------- MODULE ServingProofs ----------------------------
(***************************************************************************)
(* What searches, exports and remote tools serve, for every value of the   *)
(* parameters of Platform: inductive invariants and what follows from      *)
(* them.                                                                   *)
(***************************************************************************)
EXTENDS Platform, TLAPS

-----------------------------------------------------------------------------
(* Searches *)

CuratorStates ==
  [pc: {"idle", "activate", "draft"}, release: Indexes \union {NoIndex},
   expected: 0 .. MaxIndexHead]

SearchStates ==
  [pc: {"idle", "cache", "index", "tombstones", "release", "items",
        "recheck", "put", "done"},
   release: Indexes \union {NoIndex}, hits: SUBSET Docs]

LEMMA KnowledgeTypes ==
  Knowledge!TypeOK <=>
    /\ indexStatus \in [Indexes -> {"ready", "retired"}]
    /\ kept \subseteq Indexes /\ pinned \subseteq Indexes
    /\ deleted \subseteq Docs
    /\ indexHead \in [release: Indexes \union {NoIndex}, version: 0 .. MaxIndexHead]
    /\ cache \in [Indexes -> SUBSET Docs]
    /\ curator \in [Curators -> CuratorStates]
    /\ search \in [Searchers -> SearchStates]
    /\ before \in [Searchers -> [docs: SUBSET Docs, retired: SUBSET Indexes]]
BY DEF Knowledge!TypeOK, CuratorStates, SearchStates

LEMMA CuratorIdle == Knowledge!Idle \in CuratorStates /\ Knowledge!Idle.pc = "idle"
BY KnowledgeAssumption DEF Knowledge!Idle, CuratorStates

LEMMA KnowledgeInit == Knowledge!Init => Knowledge!IInv
<1> SUFFICES ASSUME Knowledge!Init PROVE Knowledge!IInv
  OBVIOUS
<1>1. Knowledge!TypeOK
  BY KnowledgeTypes, CuratorIdle, KnowledgeAssumption
     DEF Knowledge!Init, SearchStates
<1>2. \A a \in Curators : Knowledge!AdminOK(a)
  BY CuratorIdle DEF Knowledge!Init, Knowledge!AdminOK
<1>3. \A s \in Searchers : Knowledge!SearchOK(s)
  BY DEF Knowledge!Init, Knowledge!SearchOK
<1>4. Knowledge!WithdrawnNeverReturned
  BY DEF Knowledge!Init, Knowledge!WithdrawnNeverReturned
<1>5. QED
  BY <1>1, <1>2, <1>3, <1>4 DEF Knowledge!IInv

\* Clearing cached results leaves a cache.
LEMMA ClearedTyped ==
  ASSUME cache \in [Indexes -> SUBSET Docs], NEW S
  PROVE  Knowledge!Cleared(S) \in [Indexes -> SUBSET Docs]
BY DEF Knowledge!Cleared

\* A step that leaves the searches alone and takes no withdrawal back.
LEMMA KnowledgeAround ==
  ASSUME Knowledge!IInv, Knowledge!TypeOK', UNCHANGED <<search, before>>,
         deleted \subseteq deleted',
         Knowledge!RetiredReleases \subseteq Knowledge!RetiredReleases',
         \A a \in Curators : Knowledge!AdminOK(a)'
  PROVE  Knowledge!IInv'
<1>1. \A s \in Searchers : Knowledge!SearchOK(s)'
  BY DEF Knowledge!IInv, Knowledge!SearchOK
<1>2. Knowledge!WithdrawnNeverReturned'
  BY DEF Knowledge!IInv, Knowledge!WithdrawnNeverReturned
<1>3. QED
  BY <1>1, <1>2 DEF Knowledge!IInv

\* What a request of an administrator does to the requests.
LEMMA CuratorMoves ==
  ASSUME Knowledge!IInv, NEW a \in Curators, NEW r \in CuratorStates,
         curator' = [curator EXCEPT ![a] = r],
         r.pc = "activate" => r.expected < MaxIndexHead,
         r.pc = "draft" => r.release \in Indexes
  PROVE  /\ curator' \in [Curators -> CuratorStates]
         /\ \A b \in Curators : Knowledge!AdminOK(b)'
<1>1. curator \in [Curators -> CuratorStates]
  BY KnowledgeTypes DEF Knowledge!IInv
<1>2. curator' \in [Curators -> CuratorStates]
  BY <1>1
<1>3. ASSUME NEW b \in Curators PROVE Knowledge!AdminOK(b)'
  BY <1>1 DEF Knowledge!AdminOK, Knowledge!IInv
<1>4. QED
  BY <1>2, <1>3

LEMMA KnowledgeActivateReads ==
  ASSUME Knowledge!IInv, NEW a \in Curators, Knowledge!ActivateReads(a)
  PROVE  Knowledge!IInv'
<1>0. Knowledge!TypeOK
  BY DEF Knowledge!IInv
<1>1. PICK r \in Indexes \union {NoIndex} :
        curator' = [curator EXCEPT ![a] = [pc |-> "activate", release |-> r,
                                           expected |-> indexHead.version]]
  BY DEF Knowledge!ActivateReads
<1>2. /\ indexHead.version < MaxIndexHead
      /\ UNCHANGED <<indexStatus, kept, deleted, indexHead, pinned, cache, search, before>>
  BY DEF Knowledge!ActivateReads
<1>3. [pc |-> "activate", release |-> r, expected |-> indexHead.version] \in CuratorStates
  BY <1>0, KnowledgeTypes DEF CuratorStates
<1>4. /\ curator' \in [Curators -> CuratorStates]
      /\ \A b \in Curators : Knowledge!AdminOK(b)'
  BY <1>1, <1>2, <1>3, CuratorMoves
<1>5. Knowledge!TypeOK'
  BY <1>0, <1>2, <1>4, KnowledgeTypes DEF Knowledge!TypeOK, CuratorStates
<1>6. QED
  BY <1>2, <1>4, <1>5, KnowledgeAround DEF Knowledge!RetiredReleases

LEMMA KnowledgeActivate ==
  ASSUME Knowledge!IInv, NEW a \in Curators, Knowledge!Activate(a)
  PROVE  Knowledge!IInv'
<1>0. Knowledge!TypeOK
  BY DEF Knowledge!IInv
<1>1. /\ curator' = [curator EXCEPT ![a] = Knowledge!Idle]
      /\ UNCHANGED <<indexStatus, kept, deleted, pinned, search, before>>
  BY DEF Knowledge!Activate
<1>2. /\ curator' \in [Curators -> CuratorStates]
      /\ \A b \in Curators : Knowledge!AdminOK(b)'
  BY <1>1, CuratorIdle, CuratorMoves
<1>3. /\ indexHead' \in [release: Indexes \union {NoIndex}, version: 0 .. MaxIndexHead]
      /\ cache' \in [Indexes -> SUBSET Docs]
  <2>1. CASE indexHead.version = curator[a].expected
    <3>1. /\ indexHead' = [release |-> curator[a].release,
                           version |-> indexHead.version + 1]
          /\ cache' = Knowledge!Cleared(Indexes)
      BY <2>1 DEF Knowledge!Activate
    <3>2. indexHead.version < MaxIndexHead
      BY <2>1 DEF Knowledge!Activate, Knowledge!IInv, Knowledge!AdminOK
    <3>3. curator[a].release \in Indexes \union {NoIndex}
      BY <1>0, KnowledgeTypes DEF CuratorStates
    <3>4. QED
      BY <1>0, <3>1, <3>2, <3>3, KnowledgeTypes, ClearedTyped, KnowledgeAssumption
  <2>2. CASE indexHead.version # curator[a].expected
    BY <1>0, <2>2, KnowledgeTypes DEF Knowledge!Activate
  <2>3. QED
    BY <2>1, <2>2
<1>4. Knowledge!TypeOK'
  BY <1>0, <1>1, <1>2, <1>3 DEF Knowledge!TypeOK, CuratorStates
<1>5. QED
  BY <1>1, <1>2, <1>4, KnowledgeAround DEF Knowledge!RetiredReleases

LEMMA KnowledgeDraftReads ==
  ASSUME Knowledge!IInv, NEW a \in Curators, Knowledge!DraftReads(a)
  PROVE  Knowledge!IInv'
<1>0. Knowledge!TypeOK
  BY DEF Knowledge!IInv
<1>1. PICK r \in Indexes : curator' = [curator EXCEPT ![a].pc = "draft", ![a].release = r]
  BY DEF Knowledge!DraftReads
<1>2. UNCHANGED <<indexStatus, kept, deleted, indexHead, pinned, cache, search, before>>
  BY DEF Knowledge!DraftReads
<1>3. curator[a] \in CuratorStates
  BY <1>0, KnowledgeTypes
<1> DEFINE q == [pc |-> "draft", release |-> r, expected |-> curator[a].expected]
<1>4. q \in CuratorStates /\ curator' = [curator EXCEPT ![a] = q]
  <2>1. q \in CuratorStates
    BY <1>3 DEF CuratorStates
  <2>2. [[curator[a] EXCEPT !.pc = "draft"] EXCEPT !.release = r] = q
    <3> DEFINE x == [curator[a] EXCEPT !.pc = "draft"]
    <3>1. /\ x \in CuratorStates
          /\ x.pc = "draft" /\ x.expected = curator[a].expected
      BY <1>3 DEF CuratorStates
    <3>2. ASSUME NEW y \in CuratorStates, y.pc = "draft",
                 y.expected = curator[a].expected
          PROVE  [y EXCEPT !.release = r] = q
      BY <3>2 DEF CuratorStates
    <3>3. QED
      BY <3>1, <3>2
  <2>3. curator \in [Curators -> CuratorStates]
    BY <1>0, KnowledgeTypes
  <2>4. curator' = [[curator EXCEPT ![a] = [curator[a] EXCEPT !.pc = "draft"]]
                      EXCEPT ![a] = [[curator[a] EXCEPT !.pc = "draft"] EXCEPT !.release = r]]
    BY <1>1, <2>3
  <2>5. QED
    BY <2>1, <2>2, <2>3, <2>4
<1>5. /\ curator' \in [Curators -> CuratorStates]
      /\ \A b \in Curators : Knowledge!AdminOK(b)'
  BY <1>4, CuratorMoves
<1>6. Knowledge!TypeOK'
  BY <1>0, <1>2, <1>5 DEF Knowledge!TypeOK, CuratorStates
<1>7. QED
  BY <1>2, <1>5, <1>6, KnowledgeAround DEF Knowledge!RetiredReleases

LEMMA KnowledgeDraft ==
  ASSUME Knowledge!IInv, NEW a \in Curators, Knowledge!Draft(a)
  PROVE  Knowledge!IInv'
<1>0. Knowledge!TypeOK
  BY DEF Knowledge!IInv
<1>1. /\ curator' = [curator EXCEPT ![a] = Knowledge!Idle]
      /\ pinned' = pinned \union {curator[a].release}
      /\ UNCHANGED <<indexStatus, kept, deleted, indexHead, cache, search, before>>
  BY DEF Knowledge!Draft
<1>2. curator[a].release \in Indexes
  BY DEF Knowledge!Draft, Knowledge!IInv, Knowledge!AdminOK
<1>3. /\ curator' \in [Curators -> CuratorStates]
      /\ \A b \in Curators : Knowledge!AdminOK(b)'
  BY <1>1, CuratorIdle, CuratorMoves
<1>4. Knowledge!TypeOK'
  BY <1>0, <1>1, <1>2, <1>3 DEF Knowledge!TypeOK, CuratorStates
<1>5. QED
  BY <1>1, <1>3, <1>4, KnowledgeAround DEF Knowledge!RetiredReleases

\* Retiring releases, deleting a document, the end of a retention and of a cached
\* result: nothing that was withdrawn comes back.
LEMMA KnowledgeWithdrawals ==
  ASSUME Knowledge!IInv,
         \/ Knowledge!Collect
         \/ \E d \in Docs : Knowledge!DeleteDocument(d)
         \/ \E r \in Indexes : Knowledge!RetentionEnds(r) \/ Knowledge!CacheExpires(r)
  PROVE  Knowledge!IInv'
<1>0. Knowledge!TypeOK
  BY DEF Knowledge!IInv
<1>1. UNCHANGED <<indexHead, pinned, curator, search, before>>
  BY DEF Knowledge!Collect, Knowledge!DeleteDocument, Knowledge!RetentionEnds,
         Knowledge!CacheExpires
<1>2. /\ kept' \subseteq kept /\ deleted \subseteq deleted' /\ deleted' \subseteq Docs
      /\ cache' \in [Indexes -> SUBSET Docs]
      /\ indexStatus' \in [Indexes -> {"ready", "retired"}]
      /\ \A r \in Indexes : indexStatus[r] = "retired" => indexStatus'[r] = "retired"
  <2>1. CASE Knowledge!Collect
    BY <1>0, <2>1, ClearedTyped DEF Knowledge!Collect, Knowledge!TypeOK
  <2>2. ASSUME NEW d \in Docs, Knowledge!DeleteDocument(d) PROVE <1>2
    BY <1>0, <2>2, ClearedTyped DEF Knowledge!DeleteDocument, Knowledge!TypeOK
  <2>3. ASSUME NEW r \in Indexes, Knowledge!RetentionEnds(r) PROVE <1>2
    BY <1>0, <2>3 DEF Knowledge!RetentionEnds, Knowledge!TypeOK
  <2>4. ASSUME NEW r \in Indexes, Knowledge!CacheExpires(r) PROVE <1>2
    BY <1>0, <2>4, ClearedTyped DEF Knowledge!CacheExpires, Knowledge!TypeOK
  <2>5. QED
    BY <2>1, <2>2, <2>3, <2>4
<1>5. Knowledge!TypeOK'
  BY <1>0, <1>1, <1>2 DEF Knowledge!TypeOK
<1>6. \A a \in Curators : Knowledge!AdminOK(a)'
  BY <1>1 DEF Knowledge!IInv, Knowledge!AdminOK
<1>7. QED
  BY <1>1, <1>2, <1>5, <1>6, KnowledgeAround DEF Knowledge!RetiredReleases

\* What a step of one search has to keep.
LEMMA SearchMoves ==
  ASSUME Knowledge!IInv, NEW s \in Searchers, NEW q \in SearchStates,
         NEW b \in [docs: SUBSET Docs, retired: SUBSET Indexes],
         search' = [search EXCEPT ![s] = q], before' = [before EXCEPT ![s] = b],
         cache' \in [Indexes -> SUBSET Docs],
         UNCHANGED <<indexStatus, kept, deleted, indexHead, pinned, curator>>,
         b.docs \subseteq deleted, b.retired \subseteq Knowledge!RetiredReleases,
         q.pc # "idle" => q.release \in Indexes,
         q.pc \in {"tombstones", "items", "recheck", "put"} => q.release \notin b.retired,
         q.pc \in {"recheck", "put"} => q.hits \intersect b.docs = {},
         q.pc = "done" => /\ q.hits \intersect b.docs = {}
                          /\ q.release \in b.retired => q.hits = {}
  PROVE  Knowledge!IInv'
<1>0. Knowledge!TypeOK
  BY DEF Knowledge!IInv
<1>1. Knowledge!TypeOK'
  BY <1>0 DEF Knowledge!TypeOK, SearchStates
<1>2. search'[s] = q /\ before'[s] = b
  BY <1>0 DEF Knowledge!TypeOK
<1>3. \A u \in Searchers : u # s => search'[u] = search[u] /\ before'[u] = before[u]
  BY <1>0 DEF Knowledge!TypeOK
<1>4. Knowledge!RetiredReleases' = Knowledge!RetiredReleases
  BY DEF Knowledge!RetiredReleases
<1>5. ASSUME NEW u \in Searchers PROVE Knowledge!SearchOK(u)'
  <2>1. CASE u = s
    BY <1>2, <1>4, <2>1 DEF Knowledge!SearchOK
  <2>2. CASE u # s
    BY <1>3, <1>4, <2>2 DEF Knowledge!SearchOK, Knowledge!IInv
  <2>3. QED
    BY <2>1, <2>2
<1>6. Knowledge!WithdrawnNeverReturned'
  BY <1>2, <1>3 DEF Knowledge!WithdrawnNeverReturned, Knowledge!IInv
<1>7. \A a \in Curators : Knowledge!AdminOK(a)'
  BY DEF Knowledge!IInv, Knowledge!AdminOK
<1>8. QED
  BY <1>1, <1>5, <1>6, <1>7 DEF Knowledge!IInv

\* The steps of a search, as a new state for it.
LEMMA SearchSteps ==
  ASSUME Knowledge!IInv, NEW s \in Searchers,
         \/ Knowledge!CacheGet(s) \/ Knowledge!ValidateIndex(s)
         \/ Knowledge!ValidateTombstones(s) \/ Knowledge!ReadRelease(s)
         \/ Knowledge!Select(s) \/ Knowledge!Recheck(s) \/ Knowledge!CachePut(s)
  PROVE  Knowledge!IInv'
<1> DEFINE q == search[s]
           b == before[s]
<1>0. Knowledge!TypeOK /\ Knowledge!SearchOK(s)
  BY DEF Knowledge!IInv
<1>1. /\ q \in SearchStates
      /\ search \in [Searchers -> SearchStates]
      /\ before \in [Searchers -> [docs: SUBSET Docs, retired: SUBSET Indexes]]
      /\ b \in [docs: SUBSET Docs, retired: SUBSET Indexes]
  BY <1>0, KnowledgeTypes
<1>2. /\ q.pc # "idle" /\ q.release \in Indexes
      /\ UNCHANGED <<indexStatus, kept, deleted, indexHead, pinned, curator, before>>
  BY <1>0
     DEF Knowledge!SearchOK, Knowledge!CacheGet, Knowledge!ValidateIndex,
         Knowledge!ValidateTombstones, Knowledge!ReadRelease, Knowledge!Select,
         Knowledge!Recheck, Knowledge!CachePut
<1>3. before' = [before EXCEPT ![s] = b]
  BY <1>1, <1>2
<1>4. /\ b.docs \subseteq deleted /\ b.retired \subseteq Knowledge!RetiredReleases
      /\ b.docs \subseteq Docs
  BY <1>0, <1>1 DEF Knowledge!SearchOK
<1>5. indexStatus[q.release] # "retired" => q.release \notin b.retired
  BY <1>4 DEF Knowledge!RetiredReleases
<1>6. SUFFICES /\ cache' \in [Indexes -> SUBSET Docs]
               /\ \E pc \in {"index", "tombstones", "release", "items", "recheck",
                             "put", "done"}, hits \in SUBSET Docs :
                 /\ search' = [search EXCEPT ![s] =
                                 [pc |-> pc, release |-> q.release, hits |-> hits]]
                 /\ pc \in {"tombstones", "items", "recheck", "put"} =>
                      q.release \notin b.retired
                 /\ pc \in {"recheck", "put"} => hits \intersect b.docs = {}
                 /\ pc = "done" => /\ hits \intersect b.docs = {}
                                   /\ q.release \in b.retired => hits = {}
  <2>1. PICK pc \in {"index", "tombstones", "release", "items", "recheck",
                     "put", "done"}, hits \in SUBSET Docs :
           /\ search' = [search EXCEPT ![s] =
                           [pc |-> pc, release |-> q.release, hits |-> hits]]
           /\ pc \in {"tombstones", "items", "recheck", "put"} =>
                q.release \notin b.retired
           /\ pc \in {"recheck", "put"} => hits \intersect b.docs = {}
           /\ pc = "done" => /\ hits \intersect b.docs = {}
                             /\ q.release \in b.retired => hits = {}
    BY <1>6
  <2>2. [pc |-> pc, release |-> q.release, hits |-> hits] \in SearchStates
    BY <1>2 DEF SearchStates
  <2>3. QED
    BY <1>1, <1>2, <1>3, <1>4, <1>6, <2>1, <2>2, SearchMoves
<1>7. \A pc : Knowledge!Goto(s, pc) =>
        search' = [search EXCEPT ![s] =
                     [pc |-> pc, release |-> q.release, hits |-> q.hits]]
  <2>1. \A pc : [q EXCEPT !.pc = pc] = [pc |-> pc, release |-> q.release, hits |-> q.hits]
    BY <1>1 DEF SearchStates
  <2>2. QED
    BY <1>1, <2>1 DEF Knowledge!Goto
<1>8. \A pc, hits :
        search' = [search EXCEPT ![s].hits = hits, ![s].pc = pc] =>
          search' = [search EXCEPT ![s] =
                       [pc |-> pc, release |-> q.release, hits |-> hits]]
  <2>1. ASSUME NEW hits, NEW pc
        PROVE  [[q EXCEPT !.hits = hits] EXCEPT !.pc = pc] =
                 [pc |-> pc, release |-> q.release, hits |-> hits]
    <3>1. q = [pc |-> q.pc, release |-> q.release, hits |-> q.hits]
      BY <1>1 DEF SearchStates
    <3>2. [q EXCEPT !.hits = hits] = [pc |-> q.pc, release |-> q.release, hits |-> hits]
      BY <3>1
    <3>3. ASSUME NEW y, y = [pc |-> q.pc, release |-> q.release, hits |-> hits]
          PROVE  [y EXCEPT !.pc = pc] = [pc |-> pc, release |-> q.release, hits |-> hits]
      BY <3>3
    <3>4. QED
      BY <3>2, <3>3
  <2>2. QED
    BY <1>1, <2>1
<1>9. q.hits \in SUBSET Docs /\ cache \in [Indexes -> SUBSET Docs]
  BY <1>0, <1>1, KnowledgeTypes DEF SearchStates
<1>10. CASE Knowledge!CacheGet(s)
  <2> DEFINE found == cache[q.release]
             to == IF found = {} THEN "release" ELSE "index"
  <2>1. search' = [search EXCEPT ![s].hits = found, ![s].pc = to]
    BY <1>10 DEF Knowledge!CacheGet
  <2>2. search' = [search EXCEPT ![s] =
                     [pc |-> to, release |-> q.release, hits |-> found]]
    BY <1>8, <2>1
  <2>3. found \in SUBSET Docs /\ to \in {"release", "index"}
    BY <1>2, <1>9
  <2>4. QED
    BY <1>9, <1>10, <2>2, <2>3 DEF Knowledge!CacheGet
<1>11. CASE Knowledge!ValidateIndex(s)
  BY <1>5, <1>7, <1>9, <1>11 DEF Knowledge!ValidateIndex
<1>12. CASE Knowledge!ValidateTombstones(s)
  <2>1. q.release \notin b.retired
    BY <1>0, <1>12 DEF Knowledge!ValidateTombstones, Knowledge!SearchOK
  <2>2. Knowledge!Valid(q.hits) => q.hits \intersect b.docs = {}
    BY <1>4 DEF Knowledge!Valid
  <2>3. QED
    BY <1>7, <1>9, <1>12, <2>1, <2>2 DEF Knowledge!ValidateTombstones
<1>13. CASE Knowledge!ReadRelease(s)
  <2> DEFINE to == IF indexStatus[q.release] = "ready" THEN "items" ELSE "done"
  <2>1. search' = [search EXCEPT ![s].hits = {}, ![s].pc = to]
    BY <1>13 DEF Knowledge!ReadRelease
  <2>2. search' = [search EXCEPT ![s] =
                     [pc |-> to, release |-> q.release, hits |-> {}]]
    BY <1>8, <2>1
  <2>3. /\ to \in {"items", "done"}
        /\ to = "items" => q.release \notin b.retired
        /\ cache' \in [Indexes -> SUBSET Docs]
    BY <1>5, <1>9, <1>13 DEF Knowledge!ReadRelease
  <2>4. {} \in SUBSET Docs /\ {} \intersect b.docs = {}
    OBVIOUS
  <2>5. QED
    BY <2>2, <2>3, <2>4
<1>14. CASE Knowledge!Select(s)
  <2>1. q.release \notin b.retired
    BY <1>0, <1>14 DEF Knowledge!Select, Knowledge!SearchOK
  <2>2. PICK hits \in SUBSET (DocsOf[q.release] \ deleted) :
          search' = [search EXCEPT ![s].hits = hits, ![s].pc = "recheck"]
    BY <1>14 DEF Knowledge!Select
  <2>3. hits \in SUBSET Docs /\ hits \intersect b.docs = {}
    BY <1>2, <1>4, <2>2, KnowledgeAssumption
  <2>4. QED
    BY <1>8, <1>9, <1>14, <2>1, <2>2, <2>3 DEF Knowledge!Select
<1>15. CASE Knowledge!Recheck(s)
  <2>1. q.release \notin b.retired /\ q.hits \intersect b.docs = {}
    BY <1>0, <1>15 DEF Knowledge!Recheck, Knowledge!SearchOK
  <2> DEFINE live == q.hits \ deleted
             to == IF live = {} THEN "done" ELSE "put"
  <2>2. search' = [search EXCEPT ![s].hits = live, ![s].pc = to]
    BY <1>15 DEF Knowledge!Recheck
  <2>3. live \in SUBSET Docs /\ live \intersect b.docs = {}
    BY <1>9, <2>1
  <2>4. search' = [search EXCEPT ![s] =
                     [pc |-> to, release |-> q.release, hits |-> live]]
    BY <1>8, <2>2
  <2>5. QED
    BY <1>9, <1>15, <2>1, <2>3, <2>4 DEF Knowledge!Recheck
<1>16. CASE Knowledge!CachePut(s)
  <2>1. q.release \notin b.retired /\ q.hits \intersect b.docs = {}
    BY <1>0, <1>16 DEF Knowledge!CachePut, Knowledge!SearchOK
  <2>2. cache' \in [Indexes -> SUBSET Docs]
    BY <1>9, <1>16 DEF Knowledge!CachePut
  <2>3. QED
    BY <1>7, <1>9, <1>16, <2>1, <2>2 DEF Knowledge!CachePut
<1>17. QED
  BY <1>10, <1>11, <1>12, <1>13, <1>14, <1>15, <1>16

\* A search begins by writing down what is withdrawn already; it ends with nothing.
LEMMA SearchEnds ==
  ASSUME Knowledge!IInv, NEW s \in Searchers,
         Knowledge!Begin(s) \/ Knowledge!Return(s)
  PROVE  Knowledge!IInv'
<1>0. Knowledge!TypeOK
  BY DEF Knowledge!IInv
<1>1. /\ cache' \in [Indexes -> SUBSET Docs]
      /\ UNCHANGED <<indexStatus, kept, deleted, indexHead, pinned, curator>>
  BY <1>0, KnowledgeTypes DEF Knowledge!Begin, Knowledge!Return
<1>2. CASE Knowledge!Begin(s)
  <2>1. PICK r \in Knowledge!Protected \ {NoIndex} :
          search' = [search EXCEPT ![s] = [pc |-> "cache", release |-> r, hits |-> {}]]
    BY <1>2 DEF Knowledge!Begin
  <2>2. r \in Indexes
    BY <1>0, KnowledgeTypes DEF Knowledge!Protected
  <2> DEFINE b == [docs |-> deleted, retired |-> Knowledge!RetiredReleases]
  <2>3. before' = [before EXCEPT ![s] = b]
    BY <1>2 DEF Knowledge!Begin, Knowledge!RetiredReleases
  <2>4. b \in [docs: SUBSET Docs, retired: SUBSET Indexes]
    BY <1>0, KnowledgeTypes DEF Knowledge!RetiredReleases
  <2>5. [pc |-> "cache", release |-> r, hits |-> {}] \in SearchStates
    BY <2>2 DEF SearchStates
  <2>6. QED
    BY <1>1, <2>1, <2>2, <2>3, <2>4, <2>5, SearchMoves
<1>3. CASE Knowledge!Return(s)
  <2>1. /\ search' = [search EXCEPT ![s] = [pc |-> "idle", release |-> NoIndex, hits |-> {}]]
        /\ before' = [before EXCEPT ![s] = [docs |-> {}, retired |-> {}]]
    BY <1>3 DEF Knowledge!Return
  <2>2. [pc |-> "idle", release |-> NoIndex, hits |-> {}] \in SearchStates
    BY DEF SearchStates
  <2>3. [docs |-> {}, retired |-> {}] \in [docs: SUBSET Docs, retired: SUBSET Indexes]
    OBVIOUS
  <2>4. QED
    BY <1>1, <2>1, <2>2, <2>3, SearchMoves
<1>4. QED
  BY <1>2, <1>3

LEMMA KnowledgeStep ==
  Knowledge!IInv /\ [Knowledge!Next]_(Knowledge!vars) => Knowledge!IInv'
<1> SUFFICES ASSUME Knowledge!IInv, [Knowledge!Next]_(Knowledge!vars)
             PROVE  Knowledge!IInv'
  OBVIOUS
<1>1. CASE UNCHANGED Knowledge!vars
  BY <1>1
     DEF Knowledge!vars, Knowledge!IInv, Knowledge!TypeOK, Knowledge!AdminOK,
         Knowledge!SearchOK, Knowledge!RetiredReleases,
         Knowledge!WithdrawnNeverReturned
<1>2. CASE Knowledge!Next
  BY <1>2, KnowledgeActivateReads, KnowledgeActivate, KnowledgeDraftReads,
     KnowledgeDraft, KnowledgeWithdrawals, SearchSteps, SearchEnds
     DEF Knowledge!Next
<1>3. QED
  BY <1>1, <1>2

\* A search returns no document that was deleted and nothing of a release that was
\* retired before it began, whatever the administrators activate, pin, collect and
\* delete between its reads and whatever the cache was filled with meanwhile
\* (HybridRetrieval.search).
THEOREM NothingWithdrawnReturns == Knowledge!Spec => []WithdrawnNeverReturned
<1>1. Knowledge!IInv => WithdrawnNeverReturned
  BY DEF Knowledge!IInv, WithdrawnNeverReturned
<1>2. QED
  BY <1>1, KnowledgeInit, KnowledgeStep, PTL DEF Knowledge!Spec

-----------------------------------------------------------------------------
(* Exports of the reviews *)

ReviewerStates ==
  [pc: {"idle", "save", "import"}, case: ReviewCases, expected: 0 .. MaxReview,
   project: 0 .. MaxReview]

ExportStates ==
  [pc: {"idle", "rows", "done"}, revision: 0 .. MaxReview, at: Review!Rows,
   rows: Review!Rows]

LEMMA ReviewTypes ==
  Review!TypeOK <=>
    /\ revision \in 0 .. MaxReview
    /\ annotation \in Review!Rows
    /\ reviewLock \in Exporters \union {Review!Nobody}
    /\ reviewer \in [Reviewers -> ReviewerStates]
    /\ export \in [Exporters -> ExportStates]
BY DEF Review!TypeOK, ReviewerStates, ExportStates

LEMMA NoRowsValid == Review!NoRows \in Review!ValidRows /\ Review!NoRows \in Review!Rows
<1>1. Review!NoAnnotation \in Review!Annotations
  BY DEF Review!NoAnnotation, Review!Annotations, Review!Outcomes
<1>2. Review!NoRows \in Review!Rows
  BY <1>1, ReviewAssumption DEF Review!NoRows, Review!Rows
<1>3. Review!Valid(Review!NoAnnotation)
  BY DEF Review!Valid, Review!NoAnnotation
<1>4. QED
  BY <1>2, <1>3 DEF Review!ValidRows, Review!NoRows

LEMMA NoReviewTyped ==
  /\ Review!NoSave \in ReviewerStates
  /\ Review!NoExport \in ExportStates
  /\ Review!NoExport.pc = "idle" /\ Review!NoExport.rows = Review!NoRows
<1>1. (CHOOSE c \in ReviewCases : TRUE) \in ReviewCases
  BY ReviewAssumption
<1>2. QED
  BY <1>1, NoRowsValid, ReviewAssumption
     DEF Review!NoSave, Review!NoExport, ReviewerStates, ExportStates

LEMMA ReviewInit == Review!Init => Review!IInv
<1> SUFFICES ASSUME Review!Init PROVE Review!IInv
  OBVIOUS
<1>1. Review!TypeOK
  BY ReviewTypes, NoRowsValid, NoReviewTyped, ReviewAssumption DEF Review!Init
<1>2. annotation \in Review!ValidRows /\ Review!BehindOK
  BY NoRowsValid DEF Review!Init, Review!BehindOK, Review!NoRows
<1>3. \A x \in Exporters : Review!ExportOK(x)
  BY NoRowsValid, NoReviewTyped DEF Review!Init, Review!ExportOK
<1>4. QED
  BY <1>1, <1>2, <1>3 DEF Review!IInv

\* Looking at a case, and giving up after a conflict, change a reviewer only.
LEMMA ReviewLooks ==
  ASSUME Review!IInv, NEW u \in Reviewers, Review!Look(u) \/ Review!Conflict(u)
  PROVE  Review!IInv'
<1> USE DEF Review!IInv
<1>1. UNCHANGED <<revision, annotation, reviewLock, export>>
  BY DEF Review!Look, Review!Conflict
<1>2. \E r \in ReviewerStates : reviewer' = [reviewer EXCEPT ![u] = r]
  <2>1. CASE Review!Look(u)
    <3>1. PICK c \in ReviewCases, pc \in {"save", "import"} :
            reviewer' = [reviewer EXCEPT ![u] =
              [pc |-> pc, case |-> c, project |-> revision,
               expected |-> annotation[c].revision]]
      BY <2>1 DEF Review!Look
    <3>2. annotation[c].revision \in 0 .. MaxReview
      BY DEF Review!TypeOK, Review!Rows
    <3>3. [pc |-> pc, case |-> c, project |-> revision,
           expected |-> annotation[c].revision] \in ReviewerStates
      BY <3>2, ReviewTypes DEF ReviewerStates
    <3>4. QED
      BY <3>1, <3>3
  <2>2. CASE Review!Conflict(u)
    BY <2>2, NoReviewTyped DEF Review!Conflict
  <2>3. QED
    BY <2>1, <2>2
<1>3. Review!TypeOK'
  BY <1>1, <1>2 DEF Review!TypeOK, ReviewerStates
<1>4. QED
  BY <1>1, <1>3 DEF Review!BehindOK, Review!ExportOK

\* The writes wait for the lock, so no export is between its two reads.
LEMMA ReviewWrites ==
  ASSUME Review!IInv, NEW u \in Reviewers, NEW v \in Review!Annotations,
         Review!Save(u, v) \/ Review!ImportDrafts(u, v)
  PROVE  Review!IInv'
<1> USE ReviewAssumption DEF Review!IInv
<1>1. /\ reviewLock = Review!Nobody /\ revision < MaxReview
      /\ revision' = revision + 1 /\ Review!Valid(v)
      /\ reviewer' = [reviewer EXCEPT ![u] = Review!NoSave]
      /\ UNCHANGED <<reviewLock, export>>
  BY DEF Review!Save, Review!ImportDrafts, Review!Changes, Review!Free
<1>2. revision \in Nat /\ annotation \in Review!Rows
  BY DEF Review!TypeOK
<1>3. \A c \in ReviewCases :
        /\ annotation[c].revision \in 0 .. MaxReview
        /\ annotation[c].revision <= revision
        /\ annotation[c].value \in Review!Annotations /\ Review!Valid(annotation[c].value)
  BY <1>2 DEF Review!Rows, Review!BehindOK, Review!ValidRows
<1>4. \A c \in ReviewCases :
        /\ Review!Written(c, v) \in [revision: 0 .. MaxReview, value: Review!Annotations]
        /\ Review!Written(c, v).revision <= revision'
        /\ Review!Written(c, v).value = v
  BY <1>1, <1>2, <1>3 DEF Review!Written
<1>5. /\ annotation' \in Review!Rows
      /\ \A c \in ReviewCases :
           annotation'[c] = annotation[c] \/ annotation'[c] = Review!Written(c, v)
  <2>1. CASE Review!Save(u, v)
    <3>1. reviewer[u].case \in ReviewCases
      BY DEF Review!TypeOK
    <3>2. annotation' = [annotation EXCEPT ![reviewer[u].case] =
                           Review!Written(reviewer[u].case, v)]
      BY <2>1 DEF Review!Save
    <3>3. QED
      BY <1>2, <1>4, <3>1, <3>2 DEF Review!Rows
  <2>2. CASE Review!ImportDrafts(u, v)
    BY <1>4, <2>2 DEF Review!ImportDrafts, Review!Rows
  <2>3. QED
    BY <2>1, <2>2
<1>6. Review!TypeOK'
  BY <1>1, <1>2, <1>5, NoReviewTyped DEF Review!TypeOK, ReviewerStates
<1>7. annotation' \in Review!ValidRows
  BY <1>1, <1>3, <1>4, <1>5 DEF Review!ValidRows
<1>8. Review!BehindOK'
  BY <1>1, <1>2, <1>3, <1>4, <1>5 DEF Review!BehindOK
<1>9. \A x \in Exporters : Review!ExportOK(x)'
  BY <1>1 DEF Review!ExportOK
<1>10. QED
  BY <1>6, <1>7, <1>8, <1>9

\* What a step of one export has to keep.
LEMMA ExportMoves ==
  ASSUME Review!IInv, NEW x \in Exporters, NEW e \in ExportStates,
         export' = [export EXCEPT ![x] = e],
         reviewLock' \in Exporters \union {Review!Nobody},
         UNCHANGED <<revision, annotation, reviewer>>,
         e.pc = "rows" => reviewLock' = x /\ e.at = annotation,
         e.pc = "done" => e.rows = e.at,
         e.rows \in Review!ValidRows,
         \A y \in Exporters : y # x => export[y].pc # "rows"
  PROVE  Review!IInv'
<1> USE DEF Review!IInv
<1>1. Review!TypeOK'
  BY DEF Review!TypeOK, ExportStates
<1>2. export'[x] = e /\ \A y \in Exporters : y # x => export'[y] = export[y]
  BY DEF Review!TypeOK
<1>3. \A y \in Exporters : Review!ExportOK(y)'
  BY <1>2 DEF Review!ExportOK
<1>4. QED
  BY <1>1, <1>3 DEF Review!BehindOK

LEMMA ReviewExports ==
  ASSUME Review!IInv, NEW x \in Exporters,
         Review!ExportLocks(x) \/ Review!ExportReads(x)
  PROVE  Review!IInv'
<1> USE ReviewAssumption DEF Review!IInv
<1>1. UNCHANGED <<revision, annotation, reviewer>>
  BY DEF Review!ExportLocks, Review!ExportReads
<1>2. \A y \in Exporters : y # x => export[y].pc # "rows"
  BY DEF Review!ExportLocks, Review!ExportReads, Review!Free, Review!ExportOK
<1>3. CASE Review!ExportLocks(x)
  <2> DEFINE e == [pc |-> "rows", revision |-> revision, at |-> annotation,
                   rows |-> Review!NoRows]
  <2>1. export' = [export EXCEPT ![x] = e] /\ reviewLock' = x
    BY <1>3 DEF Review!ExportLocks
  <2>2. e \in ExportStates
    BY NoRowsValid DEF ExportStates, Review!TypeOK
  <2>3. QED
    BY <1>1, <1>2, <2>1, <2>2, NoRowsValid, ExportMoves
<1>4. CASE Review!ExportReads(x)
  <2> DEFINE q == export[x]
             e == [pc |-> "done", revision |-> q.revision, at |-> q.at,
                   rows |-> annotation]
  <2>1. q \in ExportStates /\ export \in [Exporters -> ExportStates]
    BY ReviewTypes
  <2>2. [[q EXCEPT !.pc = "done"] EXCEPT !.rows = annotation] = e
    <3>1. q = [pc |-> q.pc, revision |-> q.revision, at |-> q.at, rows |-> q.rows]
      BY <2>1 DEF ExportStates
    <3>2. [q EXCEPT !.pc = "done"] =
            [pc |-> "done", revision |-> q.revision, at |-> q.at, rows |-> q.rows]
      BY <3>1
    <3>3. ASSUME NEW y, y = [pc |-> "done", revision |-> q.revision, at |-> q.at,
                             rows |-> q.rows]
          PROVE  [y EXCEPT !.rows = annotation] = e
      BY <3>3
    <3>4. QED
      BY <3>2, <3>3
  <2>3. export' = [export EXCEPT ![x] = e]
    BY <1>4, <2>1, <2>2 DEF Review!ExportReads
  <2>4. e \in ExportStates /\ q.at = annotation /\ reviewLock' = Review!Nobody
    BY <1>4, <2>1
       DEF ExportStates, Review!TypeOK, Review!ExportReads, Review!ExportOK
  <2>5. QED
    BY <1>1, <1>2, <2>3, <2>4, ExportMoves
<1>5. QED
  BY <1>3, <1>4

LEMMA ReviewDeliver ==
  ASSUME Review!IInv, NEW x \in Exporters, Review!Deliver(x)
  PROVE  Review!IInv'
<1> USE DEF Review!IInv
<1>1. /\ export' = [export EXCEPT ![x] = Review!NoExport]
      /\ UNCHANGED <<revision, annotation, reviewLock, reviewer>>
  BY DEF Review!Deliver
<1>2. Review!TypeOK'
  BY <1>1, NoReviewTyped DEF Review!TypeOK, ExportStates
<1>3. /\ export'[x] = Review!NoExport
      /\ \A y \in Exporters : y # x => export'[y] = export[y]
  BY <1>1 DEF Review!TypeOK
<1>4. \A y \in Exporters : Review!ExportOK(y)'
  BY <1>1, <1>3, NoReviewTyped, NoRowsValid DEF Review!ExportOK
<1>5. QED
  BY <1>1, <1>2, <1>4 DEF Review!BehindOK

LEMMA ReviewStep == Review!IInv /\ [Review!Next]_(Review!vars) => Review!IInv'
<1> SUFFICES ASSUME Review!IInv, [Review!Next]_(Review!vars) PROVE Review!IInv'
  OBVIOUS
<1>1. CASE UNCHANGED Review!vars
  BY <1>1 DEF Review!vars, Review!IInv, Review!TypeOK, Review!BehindOK, Review!ExportOK
<1>2. CASE Review!Next
  BY <1>2, ReviewLooks, ReviewWrites, ReviewExports, ReviewDeliver DEF Review!Next
<1>3. QED
  BY <1>1, <1>2

\* What was validated and approved passes the check that knows nothing of it.
LEMMA ValidIsApplied ==
  ASSUME NEW rows \in Review!ValidRows, Review!HumanReviewed(rows)
  PROVE  Review!Applied(rows)
<1> SUFFICES ASSUME NEW c \in ReviewCases
             PROVE  /\ rows[c].value.status = "approved" /\ rows[c].value.notes
                    /\ rows[c].value.gold = {} <=> rows[c].value.outcome = "no_evidence"
                    /\ rows[c].value.evidence \subseteq rows[c].value.gold
                    /\ rows[c].value.evidence = rows[c].value.gold
  BY DEF Review!Applied
<1>1. Review!Valid(rows[c].value) /\ rows[c].value.status = "approved"
  BY DEF Review!ValidRows, Review!HumanReviewed
<1>2. CASE rows[c].value.outcome = "no_evidence"
  BY <1>1, <1>2 DEF Review!Valid
<1>3. CASE rows[c].value.outcome # "no_evidence"
  BY <1>1, <1>3 DEF Review!Valid
<1>4. QED
  BY <1>2, <1>3

\* An export holds the annotations of one revision while reviewers save and
\* import, and one that calls itself human_reviewed passes apply_review, for any
\* corpus and any number of reviewers and exports (ReviewWorkspace.export).
THEOREM ExportsAreUsable == Review!Spec => []ExportIsUsable
<1>1. Review!IInv => ExportIsUsable
  BY ValidIsApplied DEF Review!IInv, Review!ExportOK, ExportIsUsable, Review!ExportIsUsable
<1>2. QED
  BY <1>1, ReviewInit, ReviewStep, PTL DEF Review!Spec

-----------------------------------------------------------------------------
(* The remote tools *)

ManagerPcs ==
  {"new", "pin", "store", "verify", "disable", "show", "fallback", "ready", "admit",
   "send"}

LEMMA IdleTyped ==
  /\ Remote!Idle \in Remote!ManagerStates
  /\ Remote!Idle.approved = Remote!NoContract /\ ~Remote!Idle.slow
  /\ Remote!Idle.pc = "new" /\ Remote!Idle.mcp = {} /\ Remote!Idle.seen = NoSchema
<1>1. (CHOOSE n \in Remote!Names : TRUE) \in Remote!Names
  BY RemoteAssumption DEF Remote!Names
<1>2. QED
  BY <1>1 DEF Remote!Idle, Remote!ManagerStates, Remote!Contracts, Remote!Seen

LEMMA ManagerTyped ==
  ASSUME Remote!TypeOK, NEW m \in Managers
  PROVE  /\ manager[m] \in Remote!ManagerStates
         /\ manager[m].pc \in ManagerPcs
         /\ manager[m].tool \in Remote!Names
         /\ manager[m].seen \in Schemas \union {NoSchema}
         /\ manager[m].approved \in Remote!Contracts
         /\ manager[m].began \subseteq 1 .. MaxTerms
         /\ manager[m].mcp \intersect manager[m].local = {}
BY DEF Remote!TypeOK, Remote!ManagerStates, ManagerPcs, Remote!Seen

\* A contract is none at all, or has a version and terms about a schema.
LEMMA ContractTyped ==
  ASSUME NEW c \in Remote!Contracts
  PROVE  /\ c.version \in 0 .. MaxTerms /\ c.active \in BOOLEAN
         /\ c = Remote!NoContract <=> c.version = 0
         /\ c = Remote!NoContract => ~c.active
         /\ c # Remote!NoContract =>
              /\ c \in [version: 1 .. MaxTerms, active: BOOLEAN, terms: Terms]
              /\ c.version \in 1 .. MaxTerms
              /\ c.terms.schema \in Schemas
<1>1. CASE c = Remote!NoContract
  <2>1. c.version = 0
    BY <1>1 DEF Remote!NoContract
  <2>2. c.active \in BOOLEAN /\ ~c.active
    BY <1>1 DEF Remote!NoContract
  <2>3. 0 \in 0 .. MaxTerms
    BY RemoteAssumption
  <2>4. QED
    BY <1>1, <2>1, <2>2, <2>3
<1>2. CASE c # Remote!NoContract
  <2>1. c \in [version: 1 .. MaxTerms, active: BOOLEAN, terms: Terms]
    BY <1>2 DEF Remote!Contracts
  <2>2. c.version \in 1 .. MaxTerms /\ c.active \in BOOLEAN /\ c.terms \in Terms
    BY <2>1
  <2>3. QED
    BY <1>2, <2>1, <2>2, RemoteAssumption
<1>3. QED
  BY <1>1, <1>2

\* A step of one manager, from what holds of that manager and of the contract
\* afterwards.  Its calls stand as long as it keeps what they rest on.
LEMMA RemoteAssemble ==
  ASSUME Remote!IInv, Remote!TypeOK', UNCHANGED governed, NEW m \in Managers,
         Remote!ContractOK', Remote!Known(pin)',
         \A c \in Remote!Contracts : Remote!Known(c) => Remote!Known(c)',
         \A x \in Managers : x # m => manager'[x] = manager[x],
         Remote!ManagerOK(m)',
         \A c \in sent' : c \in sent \/ Remote!SentOK(c)',
         \A c \in sent' : c.manager = m =>
           \/ Remote!SentOK(c)'
           \/ /\ manager'[m].pc \in Remote!Open
              /\ manager'[m].approved = manager[m].approved
              /\ manager'[m].seen = manager[m].seen
  PROVE  Remote!IInv'
<1>1. Remote!TypeOK
  BY DEF Remote!IInv
<1>2. ASSUME NEW x \in Managers PROVE Remote!ManagerOK(x)'
  <2>1. CASE x # m
    <3>1. manager'[x] = manager[x] /\ Remote!ManagerOK(x)
      BY <2>1 DEF Remote!IInv
    <3>2. manager[x].approved \in Remote!Contracts
      BY <1>1, ManagerTyped
    <3>3. Remote!Known(manager[x].approved) => Remote!Known(manager[x].approved)'
      BY <3>1, <3>2 DEF Remote!Known
    <3>4. QED
      BY <3>1, <3>3 DEF Remote!ManagerOK, Remote!Offered, Remote!Equivalent
  <2>2. QED
    BY <2>1
<1>3. ASSUME NEW c \in sent' PROVE Remote!SentOK(c)'
  <2>1. CASE c \in sent
    <3>1. c.manager \in Managers /\ Remote!SentOK(c)
      BY <1>1, <2>1 DEF Remote!IInv, Remote!TypeOK
    <3>2. CASE c.manager = m
      BY <3>1, <3>2 DEF Remote!SentOK
    <3>3. CASE c.manager # m
      <4>1. manager'[c.manager] = manager[c.manager]
        BY <3>1, <3>3
      <4>2. QED
        BY <3>1, <4>1 DEF Remote!SentOK
    <3>4. QED
      BY <3>2, <3>3
  <2>2. QED
    BY <2>1
<1>4. QED
  BY <1>2, <1>3 DEF Remote!IInv

\* A step of one manager that leaves the contract, the pin and the calls alone.
LEMMA RemoteMove ==
  ASSUME Remote!IInv, NEW m \in Managers, NEW q \in Remote!ManagerStates,
         manager' = [manager EXCEPT ![m] = q],
         UNCHANGED <<governed, server, toolContract, pin, over, sent>>,
         recent' \in [Remote!Names -> 0 .. Rpm],
         q.mcp \intersect q.local = {},
         Remote!ManagerOK(m)',
         \/ manager[m].pc \notin Remote!Open
         \/ /\ q.pc \in Remote!Open /\ q.approved = manager[m].approved
            /\ q.seen = manager[m].seen
         \/ ~governed
  PROVE  Remote!IInv'
<1>1. Remote!TypeOK
  BY DEF Remote!IInv
<1>2. manager'[m] = q /\ \A x \in Managers : x # m => manager'[x] = manager[x]
  BY <1>1 DEF Remote!TypeOK
<1>3. Remote!TypeOK'
  <2>1. \A x \in Managers : manager'[x].mcp \intersect manager'[x].local = {}
    BY <1>1, <1>2 DEF Remote!TypeOK
  <2>2. QED
    BY <1>1, <2>1 DEF Remote!TypeOK
<1>4. Remote!ContractOK' /\ Remote!Known(pin)'
  BY DEF Remote!IInv, Remote!ContractOK, Remote!Known
<1>5. \A c \in Remote!Contracts : Remote!Known(c) => Remote!Known(c)'
  BY DEF Remote!Known
<1>6. ASSUME NEW c \in sent', c.manager = m
      PROVE  \/ Remote!SentOK(c)'
             \/ /\ manager'[m].pc \in Remote!Open
                /\ manager'[m].approved = manager[m].approved
                /\ manager'[m].seen = manager[m].seen
  <2>1. Remote!SentOK(c)
    BY DEF Remote!IInv
  <2>2. QED
    BY <1>2, <1>6, <2>1 DEF Remote!SentOK
<1>7. QED
  BY <1>2, <1>3, <1>4, <1>5, <1>6, RemoteAssemble

LEMMA RemoteInit == Remote!Init => Remote!IInv
<1> SUFFICES ASSUME Remote!Init PROVE Remote!IInv
  OBVIOUS
<1> USE DEF Remote!Init
<1>1. Remote!NoContract \in Remote!Contracts /\ 0 \in 0 .. Rpm
  BY RemoteAssumption DEF Remote!Contracts
<1>2. Remote!TypeOK
  BY <1>1, IdleTyped DEF Remote!TypeOK
<1>3. Remote!ContractOK
  BY DEF Remote!ContractOK, Remote!NoContract
<1>4. Remote!Known(pin)
  BY DEF Remote!Known
<1>5. \A m \in Managers : Remote!ManagerOK(m)
  BY IdleTyped DEF Remote!ManagerOK, Remote!Known, Remote!Open
<1>6. QED
  BY <1>2, <1>3, <1>4, <1>5 DEF Remote!IInv

\* The administrator approves the next version: nobody has read it yet.
LEMMA RegisterStep ==
  ASSUME Remote!IInv, NEW t \in Terms, Remote!Register(t)
  PROVE  Remote!IInv'
<1> DEFINE v == toolContract.version
<1>1. Remote!TypeOK /\ v \in 0 .. MaxTerms /\ MaxTerms \in Nat
  BY ContractTyped, RemoteAssumption DEF Remote!IInv, Remote!TypeOK
<1>2. /\ toolContract' = [version |-> v + 1, active |-> TRUE, terms |-> t]
      /\ over' = over \union ({v} \ {0}) /\ v < MaxTerms
      /\ UNCHANGED <<governed, server, pin, manager, recent, sent>>
  BY DEF Remote!Register
<1>3. toolContract' \in Remote!Contracts /\ toolContract'.version = v + 1
  <2>1. v + 1 \in 1 .. MaxTerms
    BY <1>1, <1>2
  <2>2. QED
    BY <1>2, <2>1 DEF Remote!Contracts
<1>4. over' \subseteq 1 .. v
  <2>1. over \subseteq 1 .. v
    BY DEF Remote!IInv, Remote!ContractOK
  <2>2. v # 0 => v \in 1 .. v
    BY <1>1
  <2>3. QED
    BY <1>2, <2>1, <2>2
<1>5. Remote!TypeOK'
  <2>1. over' \subseteq 1 .. MaxTerms
    BY <1>1, <1>4
  <2>2. QED
    BY <1>1, <1>2, <1>3, <2>1 DEF Remote!TypeOK
<1>6. Remote!ContractOK'
  <2>1. over' \subseteq 1 .. (v + 1) /\ v + 1 \notin over'
    BY <1>1, <1>4
  <2>2. QED
    BY <1>3, <2>1 DEF Remote!ContractOK
<1>7. ASSUME NEW c \in Remote!Contracts, Remote!Known(c) PROVE Remote!Known(c)'
  <2>1. CASE c = Remote!NoContract
    BY <2>1 DEF Remote!Known
  <2>2. CASE c # Remote!NoContract
    <3>1. c.version \in Nat /\ c.version <= v
      BY <1>7, <2>2, ContractTyped, RemoteAssumption DEF Remote!Known
    <3>2. c.version <= v + 1 /\ c.version # v + 1
      BY <1>1, <3>1
    <3>3. QED
      BY <1>3, <3>2 DEF Remote!Known
  <2>3. QED
    BY <2>1, <2>2
<1>8. pin \in Remote!Contracts /\ Remote!Known(pin)
  BY <1>1 DEF Remote!TypeOK, Remote!IInv
<1>9. Remote!Known(pin)'
  BY <1>2, <1>7, <1>8 DEF Remote!Known
<1>10. ASSUME NEW m \in Managers PROVE Remote!ManagerOK(m)'
  <2>1. Remote!ManagerOK(m) /\ manager[m].approved \in Remote!Contracts
    BY <1>1, ManagerTyped DEF Remote!IInv
  <2>2. Remote!Known(manager[m].approved)'
    BY <1>2, <1>7, <2>1 DEF Remote!Known, Remote!ManagerOK
  <2>3. QED
    BY <1>2, <2>1, <2>2 DEF Remote!ManagerOK, Remote!Offered, Remote!Equivalent
<1>11. \A c \in sent' : Remote!SentOK(c)'
  BY <1>2 DEF Remote!IInv, Remote!SentOK
<1>12. QED
  BY <1>5, <1>6, <1>9, <1>10, <1>11 DEF Remote!IInv

LEMMA ServerStep ==
  ASSUME Remote!IInv,
         Remote!MinutePasses \/ \E s \in Schemas : Remote!Change(s)
  PROVE  Remote!IInv'
<1>1. /\ UNCHANGED <<governed, toolContract, pin, manager, over, sent>>
      /\ server' \in Schemas /\ recent' \in [Remote!Names -> 0 .. Rpm]
  BY RemoteAssumption DEF Remote!IInv, Remote!TypeOK, Remote!MinutePasses, Remote!Change
<1>2. Remote!TypeOK'
  BY <1>1 DEF Remote!IInv, Remote!TypeOK
<1>3. Remote!ContractOK' /\ Remote!Known(pin)'
  BY <1>1 DEF Remote!IInv, Remote!ContractOK, Remote!Known
<1>4. \A m \in Managers : Remote!ManagerOK(m)'
  BY <1>1 DEF Remote!IInv, Remote!ManagerOK, Remote!Known, Remote!Offered,
     Remote!Equivalent
<1>5. \A c \in sent' : Remote!SentOK(c)'
  BY <1>1 DEF Remote!IInv, Remote!SentOK
<1>6. QED
  BY <1>2, <1>3, <1>4, <1>5 DEF Remote!IInv

\* Before it is ready a manager has sent nothing.
LEMMA ConnectStep ==
  ASSUME Remote!IInv, NEW m \in Managers, Remote!Connect(m) \/ Remote!Arrive(m)
  PROVE  Remote!IInv'
<1> DEFINE p == manager[m]
<1>1. Remote!TypeOK /\ p \in Remote!ManagerStates /\ Remote!ManagerOK(m)
  BY ManagerTyped DEF Remote!IInv
<1>2. /\ UNCHANGED <<governed, server, toolContract, pin, recent, over, sent>>
      /\ p.pc \notin Remote!Open
  BY DEF Remote!Connect, Remote!Arrive, Remote!Open
<1>3. server \in Schemas /\ recent' \in [Remote!Names -> 0 .. Rpm]
  BY <1>1, <1>2 DEF Remote!TypeOK
<1>4. ASSUME NEW seen \in Remote!Seen, NEW slow \in BOOLEAN,
             NEW pc \in {"pin", "show", "fallback"},
             manager' = [manager EXCEPT ![m] =
                           [p EXCEPT !.seen = seen, !.slow = slow, !.pc = pc]],
             slow => seen = NoSchema,
             pc = "show" => ~governed
      PROVE  Remote!IInv'
  <2> DEFINE q == [p EXCEPT !.seen = seen, !.slow = slow, !.pc = pc]
  <2>1. /\ q \in Remote!ManagerStates /\ q.pc = pc /\ q.seen = seen /\ q.slow = slow
        /\ q.approved = p.approved /\ q.mcp = p.mcp /\ q.local = p.local
    BY <1>1 DEF Remote!ManagerStates
  <2> HIDE DEF q
  <2>2. manager' = [manager EXCEPT ![m] = q] /\ manager'[m] = q
    BY <1>1, <1>4 DEF q, Remote!TypeOK
  <2>3. Remote!ManagerOK(m)'
    BY <1>1, <1>2, <1>4, <2>1, <2>2 DEF Remote!ManagerOK, Remote!Known, Remote!Open
  <2>4. p.mcp \intersect p.local = {}
    BY <1>1 DEF Remote!TypeOK
  <2>5. QED
    BY <1>2, <1>3, <2>1, <2>2, <2>3, <2>4, RemoteMove
<1>5. CASE Remote!Connect(m)
  BY <1>3, <1>4, <1>5 DEF Remote!Connect, Remote!Seen
<1>6. CASE Remote!Arrive(m)
  <2> DEFINE q == [p EXCEPT !.seen = server, !.slow = FALSE]
  <2>1. /\ q \in Remote!ManagerStates /\ q.pc = p.pc /\ q.slow = FALSE
        /\ q.approved = p.approved /\ q.mcp = p.mcp /\ q.local = p.local
    BY <1>1, <1>3 DEF Remote!ManagerStates, Remote!Seen
  <2> HIDE DEF q
  <2>2. manager' = [manager EXCEPT ![m] = q] /\ manager'[m] = q
    BY <1>1, <1>6 DEF q, Remote!TypeOK, Remote!Arrive
  <2>3. governed => p.pc # "show"
    <3>1. p.seen = NoSchema /\ p.approved \in Remote!Contracts
      BY <1>1, <1>6, ManagerTyped DEF Remote!Arrive, Remote!ManagerOK
    <3>2. p.approved # Remote!NoContract => p.approved.terms.schema # NoSchema
      BY <3>1, ContractTyped, RemoteAssumption
    <3>3. QED
      BY <1>1, <3>1, <3>2 DEF Remote!ManagerOK
  <2>4. Remote!ManagerOK(m)'
    BY <1>1, <1>2, <2>1, <2>2, <2>3 DEF Remote!ManagerOK, Remote!Known, Remote!Open
  <2>5. p.mcp \intersect p.local = {}
    BY <1>1 DEF Remote!TypeOK
  <2>6. QED
    BY <1>2, <1>3, <2>1, <2>2, <2>4, <2>5, RemoteMove
<1>7. QED
  BY <1>5, <1>6

\* snapshot(): what is read is the contract, or what the run has pinned.
LEMMA PinStep ==
  ASSUME Remote!IInv, NEW m \in Managers, Remote!Pin(m)
  PROVE  Remote!IInv'
<1> DEFINE p == manager[m]
           known == IF pin = Remote!NoContract THEN toolContract ELSE pin
           q == [p EXCEPT !.approved = known,
                          !.pc = IF known = Remote!NoContract THEN "fallback" ELSE "store"]
<1>1. /\ Remote!TypeOK /\ p \in Remote!ManagerStates /\ Remote!ManagerOK(m)
      /\ p.mcp \intersect p.local = {}
  BY ManagerTyped DEF Remote!IInv
<1>2. /\ UNCHANGED <<governed, server, toolContract, pin, recent, over, sent>>
      /\ p.pc = "pin" /\ manager' = [manager EXCEPT ![m] = q]
  BY DEF Remote!Pin
<1>3. known \in Remote!Contracts /\ Remote!Known(known)
  <2>1. toolContract \in Remote!Contracts /\ pin \in Remote!Contracts
    BY <1>1 DEF Remote!TypeOK
  <2>2. toolContract.version <= toolContract.version
    BY <2>1, ContractTyped
  <2>3. QED
    BY <2>1, <2>2 DEF Remote!IInv, Remote!Known
<1> HIDE DEF known
<1>4. /\ q \in Remote!ManagerStates /\ q.approved = known
      /\ q.pc \in {"fallback", "store"}
      /\ q.pc = "store" => known # Remote!NoContract
      /\ q.seen = p.seen /\ q.slow = p.slow /\ q.mcp = p.mcp /\ q.local = p.local
  BY <1>1, <1>3 DEF Remote!ManagerStates
<1> HIDE DEF q
<1>5. manager'[m] = q
  BY <1>1, <1>2 DEF Remote!TypeOK
<1>6. Remote!ManagerOK(m)'
  <2>1. Remote!Known(manager[m].approved)'
    BY <1>2, <1>3, <1>4, <1>5 DEF Remote!Known
  <2>2. QED
    BY <1>1, <1>4, <1>5, <2>1 DEF Remote!ManagerOK, Remote!Open
<1>7. recent' \in [Remote!Names -> 0 .. Rpm]
  BY <1>1, <1>2 DEF Remote!TypeOK
<1>8. QED
  BY <1>1, <1>2, <1>4, <1>6, <1>7, RemoteMove DEF Remote!Open

\* Whoever stores the pin first, the manager goes on with what is stored.
LEMMA StoreStep ==
  ASSUME Remote!IInv, NEW m \in Managers, Remote!Store(m)
  PROVE  Remote!IInv'
<1> DEFINE p == manager[m]
           known == IF pin = Remote!NoContract THEN manager[m].approved ELSE pin
           q == [p EXCEPT !.approved = known, !.pc = "verify"]
<1>1. /\ Remote!TypeOK /\ p \in Remote!ManagerStates /\ Remote!ManagerOK(m)
      /\ p.mcp \intersect p.local = {} /\ p.approved \in Remote!Contracts
  BY ManagerTyped DEF Remote!IInv
<1>2. /\ UNCHANGED <<governed, server, toolContract, recent, over, sent>>
      /\ p.pc = "store" /\ pin' = known /\ manager' = [manager EXCEPT ![m] = q]
  BY DEF Remote!Store
<1>3. known \in Remote!Contracts /\ Remote!Known(known) /\ known # Remote!NoContract
  BY <1>1, <1>2 DEF Remote!IInv, Remote!TypeOK, Remote!ManagerOK
<1> HIDE DEF known
<1>4. /\ q \in Remote!ManagerStates /\ q.approved = known /\ q.pc = "verify"
      /\ q.seen = p.seen /\ q.slow = p.slow /\ q.mcp = p.mcp /\ q.local = p.local
  BY <1>1, <1>3 DEF Remote!ManagerStates
<1> HIDE DEF q
<1>5. manager'[m] = q /\ \A x \in Managers : x # m => manager'[x] = manager[x]
  BY <1>1, <1>2 DEF Remote!TypeOK
<1>6. Remote!ManagerOK(m)'
  <2>1. Remote!Known(manager[m].approved)'
    BY <1>2, <1>3, <1>4, <1>5 DEF Remote!Known
  <2>2. QED
    BY <1>1, <1>3, <1>4, <1>5, <2>1 DEF Remote!ManagerOK, Remote!Open
<1>7. Remote!TypeOK'
  <2>1. \A x \in Managers : manager'[x].mcp \intersect manager'[x].local = {}
    BY <1>1, <1>4, <1>5 DEF Remote!TypeOK
  <2>2. QED
    BY <1>1, <1>2, <1>3, <1>4, <2>1 DEF Remote!TypeOK
<1>8. Remote!ContractOK' /\ Remote!Known(pin)'
  BY <1>2, <1>3 DEF Remote!IInv, Remote!ContractOK, Remote!Known
<1>9. \A c \in Remote!Contracts : Remote!Known(c) => Remote!Known(c)'
  BY <1>2 DEF Remote!Known
<1>10. ASSUME NEW c \in sent', c.manager = m PROVE Remote!SentOK(c)'
  <2>1. Remote!SentOK(c)
    BY <1>2 DEF Remote!IInv
  <2>2. QED
    BY <1>2, <1>10, <2>1 DEF Remote!SentOK, Remote!Open
<1>11. QED
  BY <1>2, <1>5, <1>6, <1>7, <1>8, <1>9, <1>10, RemoteAssemble

\* verify(): the terms that the manager has read are those in force.
LEMMA VerifyStep ==
  ASSUME Remote!IInv, NEW m \in Managers, Remote!Verify(m)
  PROVE  Remote!IInv'
<1> DEFINE p == manager[m]
<1>1. /\ Remote!TypeOK /\ p \in Remote!ManagerStates /\ Remote!ManagerOK(m)
      /\ p.mcp \intersect p.local = {}
  BY ManagerTyped DEF Remote!IInv
<1>2. /\ UNCHANGED <<governed, server, toolContract, pin, recent, over, sent>>
      /\ p.pc = "verify"
  BY DEF Remote!Verify
<1>3. PICK pc \in {"fallback", "disable", "show"} :
        /\ Remote!Goto(m, pc)
        /\ pc = "show" => Remote!Stands(m) /\ toolContract.terms.schema = p.seen
  BY DEF Remote!Verify
<1> DEFINE q == [p EXCEPT !.pc = pc]
<1>4. /\ q \in Remote!ManagerStates /\ q.pc = pc /\ q.approved = p.approved
      /\ q.seen = p.seen /\ q.slow = p.slow /\ q.mcp = p.mcp /\ q.local = p.local
  BY <1>1 DEF Remote!ManagerStates
<1>5. manager' = [manager EXCEPT ![m] = q]
  BY <1>3 DEF Remote!Goto
<1> HIDE DEF q
<1>6. manager'[m] = q
  BY <1>1, <1>5 DEF Remote!TypeOK
<1>7. p.approved # Remote!NoContract
  BY <1>1, <1>2 DEF Remote!ManagerOK
<1>8. pc = "show" => p.seen = p.approved.terms.schema
  BY <1>1, <1>3, <1>7 DEF Remote!ManagerOK, Remote!Known, Remote!Stands
<1>9. Remote!ManagerOK(m)'
  <2>1. Remote!Known(manager[m].approved)'
    BY <1>1, <1>2, <1>4, <1>6 DEF Remote!Known, Remote!ManagerOK
  <2>2. QED
    BY <1>1, <1>4, <1>6, <1>7, <1>8, <2>1 DEF Remote!ManagerOK, Remote!Open
<1>10. recent' \in [Remote!Names -> 0 .. Rpm]
  BY <1>1, <1>2 DEF Remote!TypeOK
<1>11. QED
  BY <1>1, <1>2, <1>4, <1>5, <1>9, <1>10, RemoteMove DEF Remote!Open

\* The contract is disabled only in the version that the manager has read.
LEMMA DisableStep ==
  ASSUME Remote!IInv, NEW m \in Managers, Remote!Disable(m)
  PROVE  Remote!IInv'
<1> DEFINE p == manager[m]
           q == [p EXCEPT !.pc = "fallback"]
<1>1. /\ Remote!TypeOK /\ p \in Remote!ManagerStates /\ Remote!ManagerOK(m)
      /\ p.mcp \intersect p.local = {} /\ p.approved \in Remote!Contracts
      /\ toolContract \in Remote!Contracts
  BY ManagerTyped DEF Remote!IInv, Remote!TypeOK
<1>2. /\ UNCHANGED <<governed, server, pin, recent, sent>>
      /\ p.pc = "disable" /\ manager' = [manager EXCEPT ![m] = q]
  BY DEF Remote!Disable, Remote!Goto
<1>3. p.approved # Remote!NoContract
  BY <1>1, <1>2 DEF Remote!ManagerOK
<1>4. /\ toolContract' \in Remote!Contracts
      /\ toolContract'.version = toolContract.version
      /\ toolContract # Remote!NoContract => toolContract'.terms = toolContract.terms
      /\ over' \subseteq 1 .. toolContract.version
      /\ toolContract'.active => toolContract.version \notin over'
  <2>1. CASE toolContract.version = p.approved.version
    <3>1. /\ toolContract' = [toolContract EXCEPT !.active = FALSE]
          /\ over' = over \union {toolContract.version}
      BY <2>1 DEF Remote!Disable
    <3>2. /\ toolContract \in [version: 1 .. MaxTerms, active: BOOLEAN, terms: Terms]
          /\ toolContract.version \in 1 .. MaxTerms
      BY <1>1, <1>3, <2>1, ContractTyped
    <3>3. toolContract.version \in 1 .. toolContract.version
      BY <3>2
    <3>4. /\ toolContract' \in [version: 1 .. MaxTerms, active: BOOLEAN, terms: Terms]
          /\ toolContract'.version = toolContract.version
          /\ toolContract'.terms = toolContract.terms
          /\ ~toolContract'.active
      BY <3>1, <3>2
    <3>5. QED
      BY <3>1, <3>3, <3>4 DEF Remote!Contracts, Remote!IInv, Remote!ContractOK
  <2>2. CASE toolContract.version # p.approved.version
    BY <1>1, <2>2 DEF Remote!Disable, Remote!IInv, Remote!ContractOK
  <2>3. QED
    BY <2>1, <2>2
<1>5. Remote!ContractOK'
  BY <1>4 DEF Remote!ContractOK
<1>6. ASSUME NEW c \in Remote!Contracts, Remote!Known(c) PROVE Remote!Known(c)'
  <2>1. CASE c = Remote!NoContract
    BY <2>1 DEF Remote!Known
  <2>2. CASE c # Remote!NoContract
    <3>1. c.version \in 1 .. MaxTerms /\ toolContract.version \in 0 .. MaxTerms
      BY <1>1, <2>2, ContractTyped
    <3>2. c.version <= toolContract.version
      BY <1>6, <2>2 DEF Remote!Known
    <3>3. toolContract # Remote!NoContract
      BY <1>1, <3>1, <3>2, ContractTyped
    <3>4. QED
      BY <1>4, <1>6, <2>2, <3>3 DEF Remote!Known
  <2>3. QED
    BY <2>1, <2>2
<1>7. Remote!Known(pin)'
  <2>1. pin \in Remote!Contracts /\ Remote!Known(pin)
    BY DEF Remote!IInv, Remote!TypeOK
  <2>2. QED
    BY <1>2, <1>6, <2>1 DEF Remote!Known
<1>8. /\ q \in Remote!ManagerStates /\ q.pc = "fallback" /\ q.approved = p.approved
      /\ q.seen = p.seen /\ q.slow = p.slow /\ q.mcp = p.mcp /\ q.local = p.local
  BY <1>1 DEF Remote!ManagerStates
<1> HIDE DEF q
<1>9. manager'[m] = q /\ \A x \in Managers : x # m => manager'[x] = manager[x]
  BY <1>1, <1>2 DEF Remote!TypeOK
<1>10. Remote!ManagerOK(m)'
  <2>1. Remote!Known(p.approved)
    BY <1>1 DEF Remote!ManagerOK
  <2>2. Remote!Known(manager[m].approved)'
    BY <1>1, <1>6, <1>8, <1>9, <2>1 DEF Remote!Known
  <2>3. QED
    BY <1>1, <1>8, <1>9, <2>2 DEF Remote!ManagerOK, Remote!Open
<1>11. Remote!TypeOK'
  <2>1. \A x \in Managers : manager'[x].mcp \intersect manager'[x].local = {}
    BY <1>1, <1>8, <1>9 DEF Remote!TypeOK
  <2>2. over' \subseteq 1 .. MaxTerms
    <3>1. toolContract.version \in 0 .. MaxTerms
      BY <1>1, ContractTyped
    <3>2. QED
      BY <1>4, <3>1, RemoteAssumption
  <2>3. QED
    BY <1>1, <1>2, <1>4, <1>8, <2>1, <2>2 DEF Remote!TypeOK
<1>12. ASSUME NEW c \in sent', c.manager = m PROVE Remote!SentOK(c)'
  <2>1. Remote!SentOK(c)
    BY <1>2 DEF Remote!IInv
  <2>2. QED
    BY <1>2, <1>12, <2>1 DEF Remote!SentOK, Remote!Open
<1>13. QED
  BY <1>2, <1>5, <1>6, <1>7, <1>9, <1>10, <1>11, <1>12, RemoteAssemble

\* What is shown is what the policies let the model see, and nothing that is
\* bound to the context.
LEMMA ReadyStep ==
  ASSUME Remote!IInv, NEW m \in Managers, Remote!Show(m) \/ Remote!Fallback(m)
  PROVE  Remote!IInv'
<1> DEFINE p == manager[m]
<1>1. /\ Remote!TypeOK /\ p \in Remote!ManagerStates /\ Remote!ManagerOK(m)
      /\ p.seen \in Schemas \union {NoSchema}
  BY ManagerTyped DEF Remote!IInv
<1>2. /\ UNCHANGED <<governed, server, toolContract, pin, recent, over, sent>>
      /\ p.pc \in {"show", "fallback"}
  BY DEF Remote!Show, Remote!Fallback
<1>3. Remote!Visible(m) \subseteq Remote!Names
  <2>1. Remote!Offered(m) \subseteq Remote!Names
    BY <1>1 DEF Remote!Offered, Remote!Names
  <2>2. QED
    BY <2>1 DEF Remote!Visible
<1>4. ASSUME NEW local \in SUBSET LocalTools, NEW mcp \in SUBSET Remote!Names,
             NEW fell \in BOOLEAN, Remote!Ready(m, local, mcp, fell),
             mcp \intersect local = {},
             governed /\ mcp # {} =>
               p.approved # Remote!NoContract /\ p.seen = p.approved.terms.schema,
             mcp \intersect ContextBound = {},
             governed /\ fell =>
               local \intersect Remote!Offered(m) \subseteq Remote!Equivalent(m)
      PROVE  Remote!IInv'
  <2> DEFINE q == [p EXCEPT !.pc = "ready", !.slow = FALSE, !.fell = fell,
                            !.local = local \intersect AllowedTools,
                            !.mcp = mcp \intersect AllowedTools]
  <2>1. /\ q \in Remote!ManagerStates /\ q.pc = "ready" /\ ~q.slow /\ q.fell = fell
        /\ q.local = local \intersect AllowedTools /\ q.mcp = mcp \intersect AllowedTools
        /\ q.approved = p.approved /\ q.seen = p.seen
    BY <1>1 DEF Remote!ManagerStates
  <2>2. manager' = [manager EXCEPT ![m] = q]
    BY <1>4 DEF Remote!Ready
  <2> HIDE DEF q
  <2>3. manager'[m] = q
    BY <1>1, <2>2 DEF Remote!TypeOK
  <2>4. /\ Remote!Offered(m)' = Remote!Offered(m)
        /\ Remote!Equivalent(m)' = Remote!Equivalent(m)
    BY <2>1, <2>3 DEF Remote!Offered, Remote!Equivalent
  <2>5. Remote!Known(manager[m].approved)'
    BY <1>1, <1>2, <2>1, <2>3 DEF Remote!Known, Remote!ManagerOK
  <2>6. governed /\ q.fell => q.local \intersect Remote!Offered(m) \subseteq Remote!Equivalent(m)
    BY <1>4, <2>1
  <2>7. Remote!ManagerOK(m)'
    BY <1>2, <1>4, <2>1, <2>3, <2>4, <2>5, <2>6 DEF Remote!ManagerOK, Remote!Open
  <2>8. q.mcp \intersect q.local = {} /\ recent' \in [Remote!Names -> 0 .. Rpm]
    BY <1>1, <1>2, <1>4, <2>1 DEF Remote!TypeOK
  <2>9. QED
    BY <1>2, <2>1, <2>2, <2>7, <2>8, RemoteMove DEF Remote!Open
<1>5. CASE Remote!Show(m)
  <2> DEFINE local == {n \in LocalTools : n \notin Remote!Visible(m) \/ n \in ContextBound}
             mcp == Remote!Visible(m) \ local
  <2>1. Remote!Ready(m, local, mcp, FALSE)
    BY <1>5 DEF Remote!Show
  <2>2. mcp \intersect ContextBound = {}
    BY RemoteAssumption
  <2>3. governed => p.approved # Remote!NoContract /\ p.seen = p.approved.terms.schema
    BY <1>1, <1>5 DEF Remote!Show, Remote!ManagerOK
  <2>4. local \in SUBSET LocalTools /\ mcp \in SUBSET Remote!Names /\ mcp \intersect local = {}
    BY <1>3
  <2> HIDE DEF local, mcp
  <2>5. QED
    BY <1>4, <2>1, <2>2, <2>3, <2>4
<1>6. CASE Remote!Fallback(m)
  <2> DEFINE local == LocalTools \ Remote!Blocked(m)
  <2>1. Remote!Ready(m, local, {}, TRUE)
    BY <1>6 DEF Remote!Fallback
  <2>2. governed => local \intersect Remote!Offered(m) \subseteq Remote!Equivalent(m)
    BY DEF Remote!Blocked
  <2>3. /\ local \in SUBSET LocalTools /\ {} \in SUBSET Remote!Names /\ TRUE \in BOOLEAN
        /\ {} \intersect local = {} /\ {} \intersect ContextBound = {}
    OBVIOUS
  <2> HIDE DEF local
  <2>4. QED
    BY <1>4, <2>1, <2>2, <2>3, Zenon
<1>7. QED
  BY <1>5, <1>6

\* A call of a tool that is shown, and its admission: a contract in force is not
\* over.
LEMMA CallStep ==
  ASSUME Remote!IInv, NEW m \in Managers,
         Remote!Admit(m) \/ \E n \in Remote!Names : Remote!Call(m, n)
  PROVE  Remote!IInv'
<1> DEFINE p == manager[m]
<1>1. /\ Remote!TypeOK /\ p \in Remote!ManagerStates /\ Remote!ManagerOK(m)
      /\ p.mcp \intersect p.local = {} /\ p.tool \in Remote!Names
  BY ManagerTyped DEF Remote!IInv
<1>2. /\ UNCHANGED <<governed, server, toolContract, pin, over, sent>>
      /\ p.pc \in {"ready", "admit"}
  BY DEF Remote!Admit, Remote!Call
<1>3. over \subseteq 1 .. MaxTerms
  BY <1>1 DEF Remote!TypeOK
<1>4. ASSUME NEW n \in Remote!Names, NEW pc \in Remote!Open,
             NEW began \in SUBSET (1 .. MaxTerms),
             manager' = [manager EXCEPT ![m] = [p EXCEPT !.pc = pc, !.tool = n,
                                                         !.began = began]],
             recent' \in [Remote!Names -> 0 .. Rpm],
             governed /\ pc \in {"admit", "send"} =>
               n \in p.mcp \intersect p.approved.terms.reads
                           \intersect p.approved.terms.permitted,
             governed /\ pc = "send" => p.approved.version \notin began
      PROVE  Remote!IInv'
  <2> DEFINE q == [p EXCEPT !.pc = pc, !.tool = n, !.began = began]
  <2>1. /\ q \in Remote!ManagerStates /\ q.pc = pc /\ q.tool = n /\ q.began = began
        /\ q.slow = p.slow /\ q.fell = p.fell /\ q.local = p.local /\ q.mcp = p.mcp
        /\ q.approved = p.approved /\ q.seen = p.seen
    BY <1>1, <1>4 DEF Remote!ManagerStates, Remote!Open
  <2>2. manager' = [manager EXCEPT ![m] = q]
    BY <1>4
  <2> HIDE DEF q
  <2>3. manager'[m] = q
    BY <1>1, <2>2 DEF Remote!TypeOK
  <2>4. /\ Remote!Offered(m)' = Remote!Offered(m)
        /\ Remote!Equivalent(m)' = Remote!Equivalent(m)
    BY <2>1, <2>3 DEF Remote!Offered, Remote!Equivalent
  <2>5. Remote!Known(manager[m].approved)'
    BY <1>1, <1>2, <2>1, <2>3 DEF Remote!Known, Remote!ManagerOK
  <2>6. Remote!ManagerOK(m)'
    BY <1>1, <1>2, <1>4, <2>1, <2>3, <2>4, <2>5 DEF Remote!ManagerOK, Remote!Open
  <2>7. QED
    BY <1>1, <1>2, <1>4, <2>1, <2>2, <2>6, RemoteMove
<1>5. CASE Remote!Admit(m)
  <2> DEFINE n == p.tool
  <2>1. governed => n \in p.mcp \intersect p.approved.terms.reads
                               \intersect p.approved.terms.permitted
    BY <1>1, <1>5 DEF Remote!Admit, Remote!ManagerOK
  <2>2. CASE Remote!Stands(m) /\ recent[n] < Rpm
    <3>1. manager' = [manager EXCEPT ![m] = [p EXCEPT !.pc = "send", !.tool = n,
                                                      !.began = over]]
      <4>1. manager' = [manager EXCEPT ![m] = [p EXCEPT !.pc = "send", !.began = over]]
        BY <1>5, <2>2 DEF Remote!Admit
      <4>2. [p EXCEPT !.pc = "send", !.began = over]
              = [p EXCEPT !.pc = "send", !.tool = n, !.began = over]
        BY <1>1 DEF Remote!ManagerStates
      <4>3. QED
        BY <4>1, <4>2
    <3>2. recent' \in [Remote!Names -> 0 .. Rpm]
      <4>1. recent' = [recent EXCEPT ![n] = recent[n] + 1]
        BY <1>5, <2>2 DEF Remote!Admit
      <4>2. recent[n] + 1 \in 0 .. Rpm
        BY <1>1, <2>2, RemoteAssumption DEF Remote!TypeOK
      <4>3. QED
        BY <1>1, <4>1, <4>2 DEF Remote!TypeOK
    <3>3. p.approved.version \notin over
      BY <2>2 DEF Remote!Stands, Remote!IInv, Remote!ContractOK
    <3>4. QED
      BY <1>1, <1>3, <1>4, <2>1, <3>1, <3>2, <3>3 DEF Remote!Open
  <2>3. CASE ~(Remote!Stands(m) /\ recent[n] < Rpm)
    <3>1. /\ manager' = [manager EXCEPT ![m] = [p EXCEPT !.pc = "ready"]]
          /\ recent' \in [Remote!Names -> 0 .. Rpm]
      BY <1>1, <1>5, <2>3 DEF Remote!Admit, Remote!Goto, Remote!TypeOK
    <3>2. [p EXCEPT !.pc = "ready"]
            = [p EXCEPT !.pc = "ready", !.tool = n, !.began = p.began]
      BY <1>1 DEF Remote!ManagerStates
    <3>3. p.began \in SUBSET (1 .. MaxTerms)
      BY <1>1 DEF Remote!ManagerStates
    <3>4. QED
      BY <1>1, <1>4, <3>1, <3>2, <3>3 DEF Remote!Open
  <2>4. QED
    BY <2>2, <2>3
<1>6. ASSUME NEW n \in Remote!Names, Remote!Call(m, n) PROVE Remote!IInv'
  <2> DEFINE pc == IF governed THEN "admit" ELSE "send"
  <2>1. /\ manager' = [manager EXCEPT ![m] = [p EXCEPT !.pc = pc, !.tool = n]]
        /\ n \in p.mcp
        /\ governed => n \in p.approved.terms.permitted \intersect p.approved.terms.reads
    BY <1>6 DEF Remote!Call
  <2>2. recent' \in [Remote!Names -> 0 .. Rpm]
    BY <1>1, <1>6 DEF Remote!Call, Remote!TypeOK
  <2>3. [p EXCEPT !.pc = pc, !.tool = n]
          = [p EXCEPT !.pc = pc, !.tool = n, !.began = p.began]
    BY <1>1 DEF Remote!ManagerStates
  <2>4. p.began \in SUBSET (1 .. MaxTerms)
    BY <1>1 DEF Remote!ManagerStates
  <2>5. pc \in Remote!Open /\ (governed => pc # "send")
    BY DEF Remote!Open
  <2> HIDE DEF pc
  <2>6. QED
    BY <1>4, <2>1, <2>2, <2>3, <2>4, <2>5
<1>7. QED
  BY <1>5, <1>6

LEMMA RemoteSendStep ==
  ASSUME Remote!IInv, NEW m \in Managers, Remote!Send(m)
  PROVE  Remote!IInv'
<1> DEFINE p == manager[m]
           q == [p EXCEPT !.pc = "ready"]
           call == [manager |-> m, tool |-> p.tool, began |-> p.began]
<1>1. /\ Remote!TypeOK /\ p \in Remote!ManagerStates /\ Remote!ManagerOK(m)
      /\ p.mcp \intersect p.local = {} /\ p.tool \in Remote!Names
      /\ p.began \in SUBSET (1 .. MaxTerms)
  BY ManagerTyped DEF Remote!IInv
<1>2. /\ UNCHANGED <<governed, server, toolContract, pin, recent, over>>
      /\ p.pc = "send" /\ sent' = sent \union {call}
      /\ manager' = [manager EXCEPT ![m] = q]
  BY DEF Remote!Send, Remote!Goto
<1>3. /\ q \in Remote!ManagerStates /\ q.pc = "ready" /\ q.slow = p.slow
      /\ q.fell = p.fell /\ q.local = p.local /\ q.mcp = p.mcp
      /\ q.approved = p.approved /\ q.seen = p.seen
  BY <1>1 DEF Remote!ManagerStates
<1> HIDE DEF q
<1>4. manager'[m] = q /\ \A x \in Managers : x # m => manager'[x] = manager[x]
  BY <1>1, <1>2 DEF Remote!TypeOK
<1>5. Remote!TypeOK'
  <2>1. \A x \in Managers : manager'[x].mcp \intersect manager'[x].local = {}
    BY <1>1, <1>3, <1>4 DEF Remote!TypeOK
  <2>2. call \in [manager: Managers, tool: Remote!Names, began: SUBSET (1 .. MaxTerms)]
    BY <1>1
  <2> HIDE DEF call
  <2>3. QED
    BY <1>1, <1>2, <1>3, <2>1, <2>2 DEF Remote!TypeOK
<1>6. Remote!ManagerOK(m)'
  <2>1. /\ Remote!Offered(m)' = Remote!Offered(m)
        /\ Remote!Equivalent(m)' = Remote!Equivalent(m)
    BY <1>3, <1>4 DEF Remote!Offered, Remote!Equivalent
  <2>2. Remote!Known(manager[m].approved)'
    BY <1>1, <1>2, <1>3, <1>4 DEF Remote!Known, Remote!ManagerOK
  <2>3. QED
    BY <1>1, <1>2, <1>3, <1>4, <2>1, <2>2 DEF Remote!ManagerOK, Remote!Open
<1>7. ASSUME NEW c, c = call PROVE Remote!SentOK(c)'
  <2>1. c.manager = m /\ c.tool = p.tool /\ c.began = p.began
    BY <1>7
  <2>2. CASE governed
    <3>1. /\ p.tool \in p.mcp /\ p.approved.version \notin p.began
          /\ p.tool \in p.approved.terms.reads \intersect p.approved.terms.permitted
      BY <1>1, <1>2, <2>2 DEF Remote!ManagerOK
    <3>2. p.tool \notin ContextBound /\ p.seen = p.approved.terms.schema
      BY <1>1, <1>2, <2>2, <3>1 DEF Remote!ManagerOK, Remote!Open
    <3>3. QED
      BY <1>3, <1>4, <2>1, <3>1, <3>2 DEF Remote!SentOK, Remote!Open
  <2>3. CASE ~governed
    BY <1>2, <2>3 DEF Remote!SentOK
  <2>4. QED
    BY <2>2, <2>3
<1>8. Remote!ContractOK' /\ Remote!Known(pin)'
  BY <1>2 DEF Remote!IInv, Remote!ContractOK, Remote!Known
<1>9. \A c \in Remote!Contracts : Remote!Known(c) => Remote!Known(c)'
  BY <1>2 DEF Remote!Known
<1>10. /\ manager'[m].pc \in Remote!Open /\ manager'[m].approved = manager[m].approved
       /\ manager'[m].seen = manager[m].seen
  BY <1>3, <1>4 DEF Remote!Open
<1>11. \A c \in sent' : c \in sent \/ Remote!SentOK(c)'
  BY <1>2, <1>7
<1>12. QED
  BY <1>2, <1>4, <1>5, <1>6, <1>8, <1>9, <1>10, <1>11, RemoteAssemble

LEMMA RestartStep ==
  ASSUME Remote!IInv, NEW m \in Managers, Remote!Restart(m)
  PROVE  Remote!IInv'
<1>1. Remote!TypeOK
  BY DEF Remote!IInv
<1>2. /\ UNCHANGED <<governed, server, toolContract, pin, recent, over>>
      /\ sent' = {c \in sent : c.manager # m}
      /\ manager' = [manager EXCEPT ![m] = Remote!Idle]
  BY DEF Remote!Restart
<1>3. /\ manager'[m] = Remote!Idle
      /\ \A x \in Managers : x # m => manager'[x] = manager[x]
  BY <1>1, <1>2 DEF Remote!TypeOK
<1>4. Remote!TypeOK'
  <2>1. \A x \in Managers : manager'[x].mcp \intersect manager'[x].local = {}
    BY <1>1, <1>3, IdleTyped DEF Remote!TypeOK
  <2>2. QED
    BY <1>1, <1>2, <2>1, IdleTyped DEF Remote!TypeOK
<1>5. Remote!ManagerOK(m)'
  BY <1>3, IdleTyped DEF Remote!ManagerOK, Remote!Known, Remote!Open
<1>6. Remote!ContractOK' /\ Remote!Known(pin)'
  BY <1>2 DEF Remote!IInv, Remote!ContractOK, Remote!Known
<1>7. \A c \in Remote!Contracts : Remote!Known(c) => Remote!Known(c)'
  BY <1>2 DEF Remote!Known
<1>8. \A c \in sent' : c \in sent /\ c.manager # m
  BY <1>2
<1>9. QED
  BY <1>2, <1>3, <1>4, <1>5, <1>6, <1>7, <1>8, RemoteAssemble

LEMMA RemoteNext == Remote!IInv /\ [Remote!Next]_Remote!vars => Remote!IInv'
<1>1. ASSUME Remote!IInv, Remote!Next PROVE Remote!IInv'
  BY <1>1, RegisterStep, ServerStep, ConnectStep, PinStep, StoreStep, VerifyStep,
     DisableStep, ReadyStep, CallStep, RemoteSendStep, RestartStep
     DEF Remote!Next, Remote!ManagerStep
<1>2. ASSUME Remote!IInv, UNCHANGED Remote!vars PROVE Remote!IInv'
  BY <1>2 DEF Remote!vars, Remote!IInv, Remote!TypeOK, Remote!ContractOK, Remote!Known,
     Remote!ManagerOK, Remote!Offered, Remote!Equivalent, Remote!SentOK
<1>3. QED
  BY <1>1, <1>2

\* Whatever the server offers and the administrator approves, disables or
\* replaces meanwhile: what goes to the server stands in a contract in force when
\* the call was admitted, and no local tool stands in for a refused remote one
\* without the contract's word (_init_mcp, admit).
THEOREM RemoteHolds == Remote!Spec => []RemoteToolsAreApproved
<1>1. Remote!IInv => RemoteToolsAreApproved
  BY DEF Remote!IInv, Remote!SentOK, Remote!ManagerOK, Remote!Open,
     RemoteToolsAreApproved, Remote!RemoteToolsAreApproved
<1>2. QED
  BY <1>1, RemoteInit, RemoteNext, PTL DEF Remote!Spec

=============================================================================
