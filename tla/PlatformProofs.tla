--------------------------- MODULE PlatformProofs ---------------------------
(***************************************************************************)
(* What the components of Platform promise, for every value of their       *)
(* parameters: each component's inductive invariant, and what follows from *)
(* it.                                                                     *)
(***************************************************************************)
EXTENDS Platform, Sequences, FiniteSetTheorems, TLAPS

-----------------------------------------------------------------------------
(* The idempotency keys of the write API *)

LEMMA NoRowTyped ==
  Api!NoRow \in [status: {"none", "running", "completed"}, body: Api!Bodies,
                 by: Api!Makers]
<1>1. PICK r \in ApiRequests : TRUE
  BY ApiAssumption
<1>2. ApiBodyOf[r] \in Api!Bodies
  BY DEF Api!Bodies
<1>3. (CHOOSE b \in Api!Bodies : TRUE) \in Api!Bodies
  BY <1>2
<1>4. QED
  BY <1>3 DEF Api!NoRow, Api!Makers

LEMMA ApiInit == Api!Init => Api!IInv
<1> SUFFICES ASSUME Api!Init PROVE Api!IInv
  OBVIOUS
<1>1. Api!TypeOK
  BY NoRowTyped DEF Api!Init, Api!TypeOK
<1>2. \A k \in ApiKeys : Api!KeyOK(k)
  BY DEF Api!Init, Api!KeyOK, Api!Effects, Api!NoRow
<1>3. \A r \in ApiRequests : Api!RequestOK(r)
  BY ApiAssumption DEF Api!Init, Api!RequestOK, Api!Effects
<1>4. QED
  BY <1>1, <1>2, <1>3 DEF Api!IInv

\* A step of a request that touches no row, effect or answer, and is not the
\* first that follows its insert.
LEMMA ApiQuiet ==
  ASSUME Api!IInv, NEW r \in ApiRequests, NEW pc \in {"insert", "again", "done"},
         Api!Goto(r, pc), UNCHANGED <<keyRow, applied, failed, answered>>,
         pc # "done" => apiReq[r] \in {"new", "insert"}
  PROVE  Api!IInv'
<1> USE ApiAssumption DEF Api!IInv
<1>1. Api!TypeOK'
  BY DEF Api!TypeOK, Api!Goto
<1>2. \A k \in ApiKeys : Api!KeyOK(k)'
  BY DEF Api!KeyOK, Api!Effects
<1>3. \A q \in ApiRequests : Api!RequestOK(q)'
  BY DEF Api!RequestOK, Api!Effects, Api!Goto, Api!TypeOK
<1>4. QED
  BY <1>1, <1>2, <1>3

\* A request that gets the stored response gets the one that took effect.
LEMMA ApiReplay ==
  ASSUME Api!IInv, NEW r \in ApiRequests, Api!Replay(r),
         UNCHANGED <<keyRow, applied, failed>>
  PROVE  Api!IInv'
<1> USE ApiAssumption DEF Api!IInv
<1> DEFINE k == ApiKeyOf[r]
<1>0. k \in ApiKeys
  OBVIOUS
<1>1. CASE ~Api!Replayable(r)
  BY <1>1, ApiQuiet DEF Api!Replay
<1>2. CASE Api!Replayable(r)
  <2>1. keyRow[k].status = "completed" /\ keyRow[k].by \in ApiRequests
    BY <1>0, <1>2 DEF Api!Replayable, Api!Of, Api!KeyOK, Api!Effects, Api!TypeOK
  <2>2. answered' = [answered EXCEPT ![k] = @ \union {keyRow[k].by}]
    BY <1>2 DEF Api!Replay, Api!Of
  <2>3. apiReq' = [apiReq EXCEPT ![r] = "done"]
    BY DEF Api!Replay, Api!Goto
  <2>4. Api!TypeOK'
    BY <1>0, <2>1, <2>2, <2>3 DEF Api!TypeOK
  <2>5. \A j \in ApiKeys : Api!KeyOK(j)'
    BY <1>0, <2>1, <2>2 DEF Api!KeyOK, Api!Effects, Api!TypeOK
  <2>6. \A q \in ApiRequests : Api!RequestOK(q)'
    BY <2>3 DEF Api!RequestOK, Api!Effects, Api!TypeOK
  <2>7. QED
    BY <2>4, <2>5, <2>6
<1>3. QED
  BY <1>1, <1>2

LEMMA ApiInsert ==
  ASSUME Api!IInv, NEW r \in ApiRequests, Api!Insert(r)
  PROVE  Api!IInv'
<1> USE ApiAssumption DEF Api!IInv
<1> DEFINE k == ApiKeyOf[r]
           mine == [status |-> "running", body |-> ApiBodyOf[r], by |-> r]
<1>0. k \in ApiKeys
  OBVIOUS
<1>1. CASE Api!Taken(r)
  BY <1>1, ApiQuiet DEF Api!Insert
<1>2. CASE ~Api!Taken(r)
  <2>1. keyRow[k].status = "none" /\ apiReq[r] = "insert"
    BY <1>2 DEF Api!Insert, Api!Taken, Api!Of
  <2>2. keyRow' = [keyRow EXCEPT ![k] = mine]
    BY <1>2 DEF Api!Insert
  <2>3. /\ apiReq' = [apiReq EXCEPT ![r] = "operate"]
        /\ UNCHANGED <<applied, failed, answered>>
    BY <1>2 DEF Api!Insert, Api!Goto
  <2>4. mine \in [status: {"none", "running", "completed"}, body: Api!Bodies,
                  by: Api!Makers]
    BY DEF Api!Bodies, Api!Makers
  <2>5. Api!TypeOK'
    BY <1>0, <2>2, <2>3, <2>4 DEF Api!TypeOK
  <2>6. \A j \in ApiKeys : Api!KeyOK(j)'
    BY <1>0, <2>1, <2>2, <2>3 DEF Api!KeyOK, Api!Effects, Api!TypeOK
  <2>7. ASSUME NEW q \in ApiRequests PROVE Api!RequestOK(q)'
    <3>1. CASE q = r
      BY <1>0, <2>1, <2>2, <2>3, <3>1 DEF Api!RequestOK, Api!Effects, Api!TypeOK
    <3>2. CASE q # r
      BY <1>0, <2>1, <2>2, <2>3, <3>2 DEF Api!RequestOK, Api!Effects, Api!TypeOK
    <3>3. QED
      BY <3>1, <3>2
  <2>8. QED
    BY <2>5, <2>6, <2>7
<1>3. QED
  BY <1>1, <1>2

\* Nobody but the owner of a running row is between its insert and its answer.
LEMMA ApiAlone ==
  ASSUME Api!IInv, NEW r \in ApiRequests, apiReq[r] \in {"operate", "store", "undo"}
  PROVE  /\ ApiKeyOf[r] \in ApiKeys
         /\ keyRow[ApiKeyOf[r]] =
              [status |-> "running", body |-> ApiBodyOf[r], by |-> r]
         /\ \A q \in ApiRequests :
              /\ apiReq[q] \in {"operate", "store", "undo"}
              /\ ApiKeyOf[q] = ApiKeyOf[r]
              => q = r
<1>1. \A q \in ApiRequests : apiReq[q] \in {"operate", "store", "undo"} =>
        keyRow[ApiKeyOf[q]] = [status |-> "running", body |-> ApiBodyOf[q], by |-> q]
  BY DEF Api!IInv, Api!RequestOK
<1>2. \A q \in ApiRequests : apiReq[q] \in {"operate", "store", "undo"} =>
        keyRow[ApiKeyOf[q]].by = q
  <2> SUFFICES ASSUME NEW q \in ApiRequests,
                      apiReq[q] \in {"operate", "store", "undo"}
               PROVE  keyRow[ApiKeyOf[q]].by = q
    OBVIOUS
  <2>1. keyRow[ApiKeyOf[q]] = [status |-> "running", body |-> ApiBodyOf[q], by |-> q]
    BY <1>1
  <2>2. QED
    BY <2>1
<1>3. keyRow[ApiKeyOf[r]].by = r
  BY <1>2
<1>4. QED
  BY <1>1, <1>2, <1>3, ApiAssumption

LEMMA ApiOperate ==
  ASSUME Api!IInv, NEW r \in ApiRequests, Api!Operate(r)
  PROVE  Api!IInv'
<1> USE ApiAssumption DEF Api!IInv
<1> DEFINE k == ApiKeyOf[r]
<1>0. apiReq[r] = "operate"
  BY DEF Api!Operate
<1>1. /\ k \in ApiKeys /\ apiReq[r] = "operate"
      /\ keyRow[k] = [status |-> "running", body |-> ApiBodyOf[r], by |-> r]
      /\ r \notin applied[k] /\ r \notin failed[k]
      /\ UNCHANGED <<keyRow, answered>>
  BY <1>0, ApiAlone DEF Api!Operate, Api!RequestOK
<1>2. PICK pc \in {"store", "undo"} : apiReq' = [apiReq EXCEPT ![r] = pc]
  BY DEF Api!Operate, Api!Goto
<1>3. \/ /\ applied' = [applied EXCEPT ![k] = @ \union {r}]
         /\ failed' = failed /\ pc = "store"
      \/ applied' = applied /\ failed' = failed /\ pc = "undo"
      \/ /\ applied' = [applied EXCEPT ![k] = @ \union {r}]
         /\ failed' = [failed EXCEPT ![k] = @ \union {r}] /\ pc = "undo"
  BY <1>1, <1>2 DEF Api!Operate, Api!Goto, Api!TypeOK
<1>4. Api!TypeOK'
  <2>1. apiReq' \in [ApiRequests -> {"new", "insert", "again", "operate", "store",
                                     "undo", "done"}]
    BY <1>2 DEF Api!TypeOK
  <2>2. /\ applied' \in [ApiKeys -> SUBSET ApiRequests]
        /\ failed' \in [ApiKeys -> SUBSET ApiRequests]
    <3>1. CASE applied' = applied /\ failed' = failed
      BY <3>1 DEF Api!TypeOK
    <3>2. CASE applied' = [applied EXCEPT ![k] = @ \union {r}] /\ failed' = failed
      BY <1>1, <3>2 DEF Api!TypeOK
    <3>3. CASE /\ applied' = [applied EXCEPT ![k] = @ \union {r}]
               /\ failed' = [failed EXCEPT ![k] = @ \union {r}]
      BY <1>1, <3>3 DEF Api!TypeOK
    <3>4. QED
      BY <1>3, <3>1, <3>2, <3>3
  <2>3. QED
    BY <1>1, <2>1, <2>2 DEF Api!TypeOK
<1>5. \A j \in ApiKeys : j # k => applied'[j] = applied[j] /\ failed'[j] = failed[j]
  BY <1>1, <1>3 DEF Api!TypeOK
<1>6. Api!Effects(k) = {} /\ answered[k] = {}
  <2>1. Api!KeyOK(k)
    BY <1>1
  <2>2. r \notin Api!Effects(k) /\ Api!Effects(k) \subseteq {r}
    BY <1>1, <2>1 DEF Api!KeyOK, Api!Effects
  <2>3. QED
    BY <1>1, <2>1, <2>2 DEF Api!KeyOK
<1>7. Api!Effects(k)' = IF pc = "store" THEN {r} ELSE {}
  BY <1>1, <1>3, <1>6 DEF Api!Effects, Api!TypeOK
<1>8. \A j \in ApiKeys : Api!KeyOK(j)'
  <2>1. Api!KeyOK(k)'
    BY <1>1, <1>6, <1>7 DEF Api!KeyOK
  <2>2. ASSUME NEW j \in ApiKeys, j # k PROVE Api!KeyOK(j)'
    BY <1>1, <1>5, <2>2 DEF Api!KeyOK, Api!Effects
  <2>3. QED
    BY <2>1, <2>2
<1>9. ASSUME NEW q \in ApiRequests PROVE Api!RequestOK(q)'
  <2>1. CASE q = r
    BY <1>1, <1>2, <1>7, <2>1 DEF Api!RequestOK, Api!TypeOK
  <2>2. CASE q # r
    <3>1. apiReq'[q] = apiReq[q]
      BY <1>2, <2>2 DEF Api!TypeOK
    <3>2. \A j \in ApiKeys : (q \in applied'[j] <=> q \in applied[j])
                               /\ (q \in failed'[j] <=> q \in failed[j])
      BY <1>1, <1>3, <2>2 DEF Api!TypeOK
    <3>3. Api!RequestOK(q)
      OBVIOUS
    <3>4. QED
      BY <1>1, <3>1, <3>2, <3>3 DEF Api!RequestOK, Api!Effects
  <2>3. QED
    BY <2>1, <2>2
<1>10. QED
  BY <1>4, <1>8, <1>9

\* A row that goes from running to another status is its owner's: the other
\* requests keep theirs.
LEMMA ApiOthers ==
  ASSUME Api!IInv, NEW r \in ApiRequests, apiReq[r] \in {"store", "undo"},
         apiReq' = [apiReq EXCEPT ![r] = "done"],
         NEW new, keyRow' = [keyRow EXCEPT ![ApiKeyOf[r]] = new],
         UNCHANGED <<applied, failed>>
  PROVE  \A q \in ApiRequests : Api!RequestOK(q)'
<1> USE DEF Api!IInv
<1> SUFFICES ASSUME NEW q \in ApiRequests PROVE Api!RequestOK(q)'
  OBVIOUS
<1>1. CASE q = r
  BY <1>1 DEF Api!RequestOK, Api!TypeOK
<1>2. CASE q # r
  <2>1. apiReq'[q] = apiReq[q]
    BY <1>2 DEF Api!TypeOK
  <2>2. apiReq[q] \in {"operate", "store", "undo"} =>
          keyRow'[ApiKeyOf[q]] = keyRow[ApiKeyOf[q]]
    BY <1>2, ApiAlone, ApiAssumption DEF Api!TypeOK
  <2>3. Api!RequestOK(q)
    OBVIOUS
  <2>4. QED
    BY <2>1, <2>2, <2>3 DEF Api!RequestOK, Api!Effects
<1>3. QED
  BY <1>1, <1>2

LEMMA ApiUndo ==
  ASSUME Api!IInv, NEW r \in ApiRequests, Api!Undo(r)
  PROVE  Api!IInv'
<1> USE ApiAssumption DEF Api!IInv
<1> DEFINE k == ApiKeyOf[r]
<1>0. apiReq[r] = "undo"
  BY DEF Api!Undo
<1>1. /\ k \in ApiKeys /\ apiReq[r] = "undo"
      /\ keyRow[k] = [status |-> "running", body |-> ApiBodyOf[r], by |-> r]
      /\ r \notin Api!Effects(k)
  BY <1>0, ApiAlone DEF Api!RequestOK
<1>2. /\ keyRow' = [keyRow EXCEPT ![k] = Api!NoRow]
      /\ apiReq' = [apiReq EXCEPT ![r] = "done"]
      /\ UNCHANGED <<applied, failed, answered>>
  BY <1>1 DEF Api!Undo, Api!Of, Api!Goto
<1>3. Api!TypeOK'
  BY <1>1, <1>2, NoRowTyped DEF Api!TypeOK
<1>4. Api!Effects(k) = {} /\ answered[k] = {}
  <2>1. Api!KeyOK(k)
    BY <1>1
  <2>2. QED
    BY <1>1, <2>1 DEF Api!KeyOK
<1>5. ASSUME NEW j \in ApiKeys PROVE Api!KeyOK(j)'
  <2>1. CASE j = k
    <3>1. keyRow'[k] = Api!NoRow /\ Api!Effects(k)' = {} /\ answered'[k] = {}
      BY <1>1, <1>2, <1>4 DEF Api!TypeOK, Api!Effects
    <3>2. QED
      BY <2>1, <3>1 DEF Api!KeyOK, Api!NoRow
  <2>2. CASE j # k
    BY <1>1, <1>2, <2>2 DEF Api!KeyOK, Api!Effects, Api!TypeOK
  <2>3. QED
    BY <2>1, <2>2
<1>6. \A q \in ApiRequests : Api!RequestOK(q)'
  BY <1>1, <1>2, ApiOthers
<1>7. QED
  BY <1>3, <1>5, <1>6

LEMMA ApiStore ==
  ASSUME Api!IInv, NEW r \in ApiRequests, Api!Store(r)
  PROVE  Api!IInv'
<1> USE ApiAssumption DEF Api!IInv
<1> DEFINE k == ApiKeyOf[r]
           done == [status |-> "completed", body |-> ApiBodyOf[r], by |-> r]
<1>0. apiReq[r] = "store"
  BY DEF Api!Store
<1>1. /\ k \in ApiKeys /\ apiReq[r] = "store"
      /\ keyRow[k] = [status |-> "running", body |-> ApiBodyOf[r], by |-> r]
      /\ r \in Api!Effects(k)
  BY <1>0, ApiAlone DEF Api!RequestOK
<1>2. /\ keyRow' = [keyRow EXCEPT ![k] = done]
      /\ apiReq' = [apiReq EXCEPT ![r] = "done"]
      /\ answered' = [answered EXCEPT ![k] = @ \union {r}]
      /\ UNCHANGED <<applied, failed>>
  <2>0. keyRow[k].status # "none" /\ keyRow[k].body = ApiBodyOf[r]
    BY <1>1
  <2>1. QED
    BY <2>0 DEF Api!Store, Api!Of, Api!Goto
<1>3. done \in [status: {"none", "running", "completed"}, body: Api!Bodies,
                by: Api!Makers]
  BY DEF Api!Bodies, Api!Makers
<1>4. Api!TypeOK'
  BY <1>1, <1>2, <1>3 DEF Api!TypeOK
<1>5. Api!Effects(k) = {r} /\ answered[k] = {}
  <2>1. Api!KeyOK(k)
    BY <1>1
  <2>2. QED
    BY <1>1, <2>1 DEF Api!KeyOK
<1>6. ASSUME NEW j \in ApiKeys PROVE Api!KeyOK(j)'
  <2>1. CASE j = k
    <3>1. keyRow'[k] = done /\ Api!Effects(k)' = {r} /\ answered'[k] = {r}
      BY <1>1, <1>2, <1>5 DEF Api!TypeOK, Api!Effects
    <3>2. QED
      BY <2>1, <3>1 DEF Api!KeyOK
  <2>2. CASE j # k
    BY <1>1, <1>2, <2>2 DEF Api!KeyOK, Api!Effects, Api!TypeOK
  <2>3. QED
    BY <2>1, <2>2
<1>7. \A q \in ApiRequests : Api!RequestOK(q)'
  BY <1>1, <1>2, ApiOthers
<1>8. QED
  BY <1>4, <1>6, <1>7

LEMMA ApiForget ==
  ASSUME Api!IInv, NEW k \in ApiKeys, Api!Forget(k)
  PROVE  Api!IInv'
<1> USE ApiAssumption DEF Api!IInv
<1>1. /\ keyRow[k].status = "completed"
      /\ keyRow' = [keyRow EXCEPT ![k] = Api!NoRow]
      /\ applied' = [applied EXCEPT ![k] = {}] /\ failed' = [failed EXCEPT ![k] = {}]
      /\ answered' = [answered EXCEPT ![k] = {}] /\ apiReq' = apiReq
  BY DEF Api!Forget
<1>2. Api!TypeOK'
  BY <1>1, NoRowTyped DEF Api!TypeOK
<1>3. ASSUME NEW j \in ApiKeys PROVE Api!KeyOK(j)'
  <2>1. CASE j = k
    <3>1. keyRow'[k] = Api!NoRow /\ Api!Effects(k)' = {} /\ answered'[k] = {}
      BY <1>1 DEF Api!TypeOK, Api!Effects
    <3>2. QED
      BY <2>1, <3>1 DEF Api!KeyOK, Api!NoRow
  <2>2. CASE j # k
    BY <1>1, <2>2 DEF Api!KeyOK, Api!Effects, Api!TypeOK
  <2>3. QED
    BY <2>1, <2>2
<1>4. ASSUME NEW q \in ApiRequests PROVE Api!RequestOK(q)'
  <2>1. Api!RequestOK(q)
    OBVIOUS
  <2>2. \A j \in ApiKeys : applied'[j] \subseteq applied[j] /\ failed'[j] \subseteq failed[j]
    BY <1>1 DEF Api!TypeOK
  <2>3. CASE apiReq[q] \in {"operate", "store", "undo"}
    <3>1. ApiKeyOf[q] # k
      <4>1. keyRow[ApiKeyOf[q]] =
              [status |-> "running", body |-> ApiBodyOf[q], by |-> q]
        BY <2>1, <2>3 DEF Api!RequestOK
      <4>2. QED
        BY <1>1, <4>1
    <3>2. /\ keyRow'[ApiKeyOf[q]] = keyRow[ApiKeyOf[q]]
          /\ applied'[ApiKeyOf[q]] = applied[ApiKeyOf[q]]
          /\ failed'[ApiKeyOf[q]] = failed[ApiKeyOf[q]]
      BY <1>1, <3>1 DEF Api!TypeOK
    <3>3. QED
      BY <1>1, <2>1, <2>2, <3>2 DEF Api!RequestOK, Api!Effects
  <2>4. CASE apiReq[q] \notin {"operate", "store", "undo"}
    BY <1>1, <2>1, <2>2, <2>4 DEF Api!RequestOK
  <2>5. QED
    BY <2>3, <2>4
<1>5. QED
  BY <1>2, <1>3, <1>4

LEMMA ApiStep == Api!IInv /\ [Api!Next]_(Api!vars) => Api!IInv'
<1> SUFFICES ASSUME Api!IInv, [Api!Next]_(Api!vars) PROVE Api!IInv'
  OBVIOUS
<1>1. CASE UNCHANGED Api!vars
  BY <1>1 DEF Api!vars, Api!IInv, Api!TypeOK, Api!KeyOK, Api!RequestOK, Api!Effects
<1>2. ASSUME NEW r \in ApiRequests, Api!Get(r) PROVE Api!IInv'
  BY <1>2, ApiQuiet, ApiReplay DEF Api!Get
<1>3. ASSUME NEW r \in ApiRequests, Api!GetAgain(r) PROVE Api!IInv'
  BY <1>3, ApiQuiet, ApiReplay DEF Api!GetAgain
<1>4. ASSUME NEW r \in ApiRequests, Api!Crash(r) PROVE Api!IInv'
  BY <1>4, ApiQuiet DEF Api!Crash
<1>5. QED
  BY <1>1, <1>2, <1>3, <1>4, ApiInsert, ApiOperate, ApiUndo, ApiStore, ApiForget
     DEF Api!Next

LEMMA ApiOnce == Api!IInv => Api!AppliedOnce
<1> SUFFICES ASSUME Api!IInv, NEW k \in ApiKeys
             PROVE  /\ Cardinality(applied[k] \ failed[k]) <= 1
                    /\ answered[k] \subseteq applied[k] \ failed[k]
  BY DEF Api!AppliedOnce, Api!Cardinality, Cardinality
<1>1. Api!KeyOK(k)
  BY DEF Api!IInv
<1>2. Api!Effects(k) = {} \/ Api!Effects(k) = {keyRow[k].by}
  BY <1>1 DEF Api!KeyOK
<1>3. Cardinality({}) = 0 /\ Cardinality({keyRow[k].by}) = 1
  BY FS_EmptySet, FS_Singleton
<1>4. QED
  BY <1>1, <1>2, <1>3 DEF Api!KeyOK, Api!Effects

-----------------------------------------------------------------------------
(* The creation of cases *)

LEMMA CreationInit == Creation!Init => Creation!IInv
<1> SUFFICES ASSUME Creation!Init PROVE Creation!IInv
  OBVIOUS
<1>1. Creation!TypeOK
  BY CreationAssumption
     DEF Creation!Init, Creation!TypeOK, Creation!RequestStates, Creation!Answers,
         Creation!CreateAttempts
<1>2. \A r \in CaseRequests : Creation!MadeOK(r) /\ Creation!AnswerOK(r)
  BY DEF Creation!Init, Creation!MadeOK, Creation!AnswerOK
<1>3. Creation!OneOpenCasePerOrder
  BY DEF Creation!Init, Creation!OneOpenCasePerOrder, Creation!NoCase
<1>4. QED
  BY <1>1, <1>2, <1>3 DEF Creation!IInv

\* A step of a request that writes nothing, and whose answer, if it names a case,
\* is that of the receipt.
LEMMA CreationQuiet ==
  ASSUME Creation!IInv, NEW r \in CaseRequests, NEW new \in Creation!RequestStates,
         caseReq' = [caseReq EXCEPT ![r] = new],
         UNCHANGED <<caseStore, case, receipt, saver>>,
         new.answer.kind = "case" /\ CaseKeyOf[r] # NoKey =>
           /\ receipt[CaseKeyOf[r]].made
           /\ receipt[CaseKeyOf[r]].body = CaseBodyOf[r]
           /\ receipt[CaseKeyOf[r]].case = new.answer.case
  PROVE  Creation!IInv'
<1> USE DEF Creation!IInv
<1>1. Creation!TypeOK'
  BY DEF Creation!TypeOK
<1>2. \A q \in CaseRequests : Creation!MadeOK(q)'
  BY DEF Creation!MadeOK
<1>3. ASSUME NEW q \in CaseRequests PROVE Creation!AnswerOK(q)'
  <2>1. CASE q = r
    <3>1. caseReq'[q] = new
      BY <2>1 DEF Creation!TypeOK
    <3>2. QED
      BY <2>1, <3>1 DEF Creation!AnswerOK
  <2>2. CASE q # r
    <3>1. caseReq'[q] = caseReq[q]
      BY <2>2 DEF Creation!TypeOK
    <3>2. QED
      BY <3>1 DEF Creation!AnswerOK
  <2>3. QED
    BY <2>1, <2>2
<1>4. Creation!OneOpenCasePerOrder'
  BY DEF Creation!OneOpenCasePerOrder
<1>5. QED
  BY <1>1, <1>2, <1>3, <1>4

\* An answer that is taken from nowhere or from the receipt.
LEMMA CreationReplied ==
  ASSUME Creation!IInv, NEW r \in CaseRequests, NEW answer \in Creation!Answers,
         Creation!Replied(r, answer), UNCHANGED <<caseStore, case, receipt, saver>>,
         \/ answer.kind # "case"
         \/ Creation!Received(r) /\ answer = Creation!FromReceipt(r)
  PROVE  Creation!IInv'
<1> DEFINE new == [caseReq[r] EXCEPT !.pc = "done", !.answer = answer]
<1>1. caseReq[r] \in Creation!RequestStates
  BY DEF Creation!IInv, Creation!TypeOK
<1>2. new \in Creation!RequestStates /\ new.answer = answer
  BY <1>1 DEF Creation!RequestStates
<1>3. caseReq' = [caseReq EXCEPT ![r] = new]
  BY DEF Creation!Replied
<1>4. ASSUME answer.kind = "case", CaseKeyOf[r] # NoKey
      PROVE  /\ receipt[CaseKeyOf[r]].made
             /\ receipt[CaseKeyOf[r]].body = CaseBodyOf[r]
             /\ receipt[CaseKeyOf[r]].case = answer.case
  BY <1>4 DEF Creation!Received, Creation!FromReceipt
<1>5. QED
  BY <1>2, <1>3, <1>4, CreationQuiet

LEMMA FromReceiptTyped ==
  ASSUME Creation!IInv, NEW r \in CaseRequests, Creation!Received(r)
  PROVE  Creation!FromReceipt(r) \in Creation!Answers
<1>1. CaseKeyOf[r] \in CaseKeys
  BY CreationAssumption DEF Creation!Received
<1>2. receipt[CaseKeyOf[r]] \in {Creation!NoReceipt} \union Creation!Receipts
  BY <1>1 DEF Creation!IInv, Creation!TypeOK
<1>3. receipt[CaseKeyOf[r]].case \in CaseRequests
  <2>1. receipt[CaseKeyOf[r]] # Creation!NoReceipt
    BY DEF Creation!Received, Creation!NoReceipt
  <2>2. receipt[CaseKeyOf[r]] \in Creation!Receipts
    BY <1>2, <2>1
  <2>3. QED
    BY <2>2 DEF Creation!Receipts
<1>4. QED
  BY <1>3 DEF Creation!FromReceipt, Creation!Answers

\* The transaction: the case is made only when the order has no active one, and
\* the receipt only when the key has none.
LEMMA CreationWritten ==
  ASSUME Creation!IInv, NEW r \in CaseRequests, NEW active \in SUBSET CaseRequests,
         Creation!Written(r, active), ~Creation!Received(r),
         active = {} => Creation!Active(OrderOf[r]) = {},
         UNCHANGED <<caseStore, saver>>
  PROVE  Creation!IInv'
<1> USE CreationAssumption DEF Creation!IInv
<1> DEFINE chosen == IF active = {} THEN r ELSE CHOOSE c \in active : TRUE
           answer == [kind |-> "case", case |-> chosen]
           new == [caseReq[r] EXCEPT !.pc = "done", !.answer = answer]
           opened == [status |-> "open", version |-> 1]
           entry == [made |-> TRUE, body |-> CaseBodyOf[r], case |-> chosen]
<1> HIDE DEF chosen
<1>1. chosen \in CaseRequests
  BY DEF chosen
<1>2. /\ case' = IF active = {} THEN [case EXCEPT ![r] = opened] ELSE case
      /\ receipt' = IF CaseKeyOf[r] = NoKey THEN receipt
                    ELSE [receipt EXCEPT ![CaseKeyOf[r]] = entry]
      /\ caseReq' = [caseReq EXCEPT ![r] = new]
  BY DEF Creation!Written, Creation!Replied, chosen
<1>3. /\ caseReq[r] \in Creation!RequestStates
      /\ new \in Creation!RequestStates /\ new.answer = answer
  <2>1. answer \in Creation!Answers
    BY <1>1 DEF Creation!Answers
  <2>2. caseReq[r] \in Creation!RequestStates
    BY DEF Creation!TypeOK
  <2>3. QED
    BY <2>1, <2>2 DEF Creation!RequestStates
<1>4. entry \in Creation!Receipts
  BY <1>1 DEF Creation!Receipts
<1>5. opened \in [status: Creation!Statuses, version: 1 .. MaxCaseVersion]
  BY DEF Creation!Statuses
<1>6. CaseKeyOf[r] # NoKey => CaseKeyOf[r] \in CaseKeys /\ ~receipt[CaseKeyOf[r]].made
  BY DEF Creation!Received
<1>7. Creation!TypeOK'
  <2>1. case' \in [CaseRequests -> {Creation!NoCase} \union
                     [status: Creation!Statuses, version: 1 .. MaxCaseVersion]]
    BY <1>2, <1>5 DEF Creation!TypeOK
  <2>2. receipt' \in [CaseKeys -> {Creation!NoReceipt} \union Creation!Receipts]
    BY <1>2, <1>4, <1>6 DEF Creation!TypeOK
  <2>3. caseReq' \in [CaseRequests -> Creation!RequestStates]
    BY <1>2, <1>3 DEF Creation!TypeOK
  <2>4. QED
    BY <2>1, <2>2, <2>3 DEF Creation!TypeOK
<1>8. ASSUME NEW q \in CaseRequests, q # r, CaseKeyOf[q] # NoKey,
             receipt[CaseKeyOf[q]].made
      PROVE  receipt'[CaseKeyOf[q]] = receipt[CaseKeyOf[q]]
  <2>1. CaseKeyOf[q] \in CaseKeys
    BY <1>8
  <2>2. CASE CaseKeyOf[q] = CaseKeyOf[r]
    BY <1>6, <1>8, <2>2
  <2>3. CASE CaseKeyOf[q] # CaseKeyOf[r]
    BY <1>2, <1>6, <2>1, <2>3 DEF Creation!TypeOK
  <2>4. QED
    BY <2>2, <2>3
<1>9. CaseKeyOf[r] # NoKey => receipt'[CaseKeyOf[r]] = entry
  BY <1>2, <1>6 DEF Creation!TypeOK
<1>10. ASSUME NEW q \in CaseRequests PROVE Creation!MadeOK(q)'
  <2> SUFFICES ASSUME case'[q] # Creation!NoCase, CaseKeyOf[q] # NoKey
               PROVE  receipt'[CaseKeyOf[q]].made /\ receipt'[CaseKeyOf[q]].case = q
    BY DEF Creation!MadeOK
  <2>1. CASE q = r
    <3>1. case[r] = Creation!NoCase
      BY <1>6, <2>1 DEF Creation!MadeOK
    <3>2. active = {}
      BY <1>2, <2>1, <3>1
    <3>3. QED
      BY <1>9, <2>1, <3>2 DEF chosen
  <2>2. CASE q # r
    <3>1. case'[q] = case[q]
      BY <1>2, <2>2 DEF Creation!TypeOK
    <3>2. receipt[CaseKeyOf[q]].made /\ receipt[CaseKeyOf[q]].case = q
      BY <3>1 DEF Creation!MadeOK
    <3>3. QED
      BY <1>8, <2>2, <3>2
  <2>3. QED
    BY <2>1, <2>2
<1>11. ASSUME NEW q \in CaseRequests PROVE Creation!AnswerOK(q)'
  <2>1. CASE q = r
    <3>1. caseReq'[q].answer = answer
      BY <1>2, <1>3, <2>1 DEF Creation!TypeOK
    <3>2. QED
      BY <1>9, <2>1, <3>1 DEF Creation!AnswerOK
  <2>2. CASE q # r
    <3>1. caseReq'[q] = caseReq[q]
      BY <1>2, <2>2 DEF Creation!TypeOK
    <3>2. QED
      BY <1>8, <2>2, <3>1 DEF Creation!AnswerOK
  <2>3. QED
    BY <2>1, <2>2
<1>12. Creation!OneOpenCasePerOrder'
  <2>1. CASE active # {}
    BY <1>2, <2>1 DEF Creation!OneOpenCasePerOrder
  <2>2. CASE active = {}
    <3>1. \A c \in CaseRequests : OrderOf[c] = OrderOf[r] => case[c].status # "open"
      BY <2>2 DEF Creation!Active
    <3>2. \A c \in CaseRequests : c # r => case'[c] = case[c]
      BY <1>2, <2>2 DEF Creation!TypeOK
    <3>3. QED
      BY <3>1, <3>2 DEF Creation!OneOpenCasePerOrder
  <2>3. QED
    BY <2>1, <2>2
<1>13. QED
  BY <1>7, <1>10, <1>11, <1>12

\* A copy of a case moves on only the case whose version it was read with, so it
\* makes none; and it does not open a second one.
LEMMA CreationSave ==
  ASSUME Creation!IInv, NEW s \in Savers, Creation!Save(s)
  PROVE  Creation!IInv'
<1> USE CreationAssumption DEF Creation!IInv
<1> DEFINE c == saver[s].case
<1>1. /\ saver[s] \in [status: Creation!Statuses, version: 1 .. MaxCaseVersion,
                       case: CaseRequests]
      /\ c \in CaseRequests
  BY DEF Creation!Save, Creation!TypeOK
<1>2. saver' = [saver EXCEPT ![s] = Creation!NoCase]
      /\ UNCHANGED <<caseStore, receipt, caseReq>>
  BY DEF Creation!Save
<1>3. CASE case' = case
  <2>1. Creation!TypeOK'
    BY <1>2, <1>3 DEF Creation!TypeOK
  <2>2. QED
    BY <1>2, <1>3, <2>1
       DEF Creation!MadeOK, Creation!AnswerOK, Creation!OneOpenCasePerOrder
<1>4. CASE case' # case
  <2>1. PICK to \in Creation!Moved(s) :
          /\ Creation!Current(s) /\ ~Creation!Clashes(c, to)
          /\ saver[s].version < MaxCaseVersion
          /\ case' = [case EXCEPT ![c] = [status |-> to,
                                          version |-> saver[s].version + 1]]
    BY <1>4 DEF Creation!Save
  <2>2. to \in Creation!Statuses
    BY DEF Creation!Moved, Creation!Statuses
  <2>3. saver[s].version + 1 \in 1 .. MaxCaseVersion
    BY <1>1, <2>1
  <2>4. case' \in [CaseRequests -> {Creation!NoCase} \union
                     [status: Creation!Statuses, version: 1 .. MaxCaseVersion]]
    BY <1>1, <2>1, <2>2, <2>3 DEF Creation!TypeOK
  <2>5. Creation!TypeOK'
    BY <1>2, <2>4 DEF Creation!TypeOK
  <2>6. case[c] # Creation!NoCase
    BY <1>1, <2>1 DEF Creation!Current, Creation!NoCase
  <2>7. \A q \in CaseRequests : q # c => case'[q] = case[q]
    BY <2>1 DEF Creation!TypeOK
  <2>8. ASSUME NEW q \in CaseRequests PROVE Creation!MadeOK(q)' /\ Creation!AnswerOK(q)'
    BY <1>2, <2>6, <2>7 DEF Creation!MadeOK, Creation!AnswerOK
  <2>9. Creation!OneOpenCasePerOrder'
    <3>1. case'[c].status = to
      BY <1>1, <2>1 DEF Creation!TypeOK
    <3>2. to = "open" => \A q \in CaseRequests :
            q # c /\ OrderOf[q] = OrderOf[c] => case[q].status # "open"
      BY <2>1 DEF Creation!Clashes, Creation!Active
    <3>3. QED
      BY <2>7, <3>1, <3>2 DEF Creation!OneOpenCasePerOrder
  <2>10. QED
    BY <2>5, <2>8, <2>9
<1>5. QED
  BY <1>3, <1>4

LEMMA CreationGet ==
  ASSUME Creation!IInv, NEW s \in Savers, NEW c \in CaseRequests, Creation!Get(s, c)
  PROVE  Creation!IInv'
<1> USE DEF Creation!IInv
<1>1. case[c] \in [status: Creation!Statuses, version: 1 .. MaxCaseVersion]
  BY DEF Creation!Get, Creation!TypeOK
<1>2. Creation!TypeOK'
  BY <1>1 DEF Creation!Get, Creation!TypeOK
<1>3. QED
  BY <1>2 DEF Creation!Get, Creation!MadeOK, Creation!AnswerOK,
              Creation!OneOpenCasePerOrder

LEMMA CreationRequest ==
  ASSUME Creation!IInv, NEW r \in CaseRequests, Creation!RequestStep(r)
  PROVE  Creation!IInv'
<1> DEFINE state == caseReq[r]
<1>0. state \in Creation!RequestStates
  BY DEF Creation!IInv, Creation!TypeOK
<1>a. /\ \A kind \in {"refused", "busy"} : [kind |-> kind] \in Creation!Answers
  BY DEF Creation!Answers
\* The request goes on to its next statement, with what it has read.
<1>b. ASSUME NEW pc \in {"order", "receipt", "active", "insert"},
             NEW tries \in 0 .. Creation!CreateAttempts,
             NEW active \in SUBSET CaseRequests,
             caseReq' = [caseReq EXCEPT ![r] =
                           [state EXCEPT !.pc = pc, !.tries = tries, !.active = active]],
             UNCHANGED <<caseStore, case, receipt, saver>>
      PROVE  Creation!IInv'
  <2> DEFINE new == [state EXCEPT !.pc = pc, !.tries = tries, !.active = active]
  <2>1. new \in Creation!RequestStates /\ new.answer = state.answer
    BY <1>0 DEF Creation!RequestStates
  <2>2. Creation!AnswerOK(r)
    BY DEF Creation!IInv
  <2>3. QED
    BY <1>b, <2>1, <2>2, CreationQuiet DEF Creation!AnswerOK
<1>c. state.tries \in 0 .. Creation!CreateAttempts /\ state.active \in SUBSET CaseRequests
  BY <1>0 DEF Creation!RequestStates
<1>1. CASE Creation!CreateCase(r)
  <2>1. CASE Creation!Replied(r, [kind |-> "refused"])
    BY <1>1, <1>a, <2>1, CreationReplied DEF Creation!CreateCase
  <2>2. CASE Creation!Received(r) /\ Creation!Replied(r, Creation!FromReceipt(r))
    BY <1>1, <2>2, CreationReplied, FromReceiptTyped DEF Creation!CreateCase
  <2>3. CASE caseReq' = [caseReq EXCEPT ![r].pc = "order"]
    <3>1. [state EXCEPT !.pc = "order"] =
            [state EXCEPT !.pc = "order", !.tries = state.tries, !.active = state.active]
      BY <1>0 DEF Creation!RequestStates
    <3>2. QED
      BY <1>1, <1>b, <1>c, <2>3, <3>1 DEF Creation!CreateCase
  <2>4. QED
    BY <1>1, <2>1, <2>2, <2>3 DEF Creation!CreateCase
<1>2. CASE Creation!GetOrder(r)
  <2>1. CASE Creation!Replied(r, [kind |-> "refused"])
    BY <1>2, <1>a, <2>1, CreationReplied DEF Creation!GetOrder
  <2>2. CASE caseReq' = [caseReq EXCEPT ![r].pc = "receipt"]
    <3>1. [state EXCEPT !.pc = "receipt"] =
            [state EXCEPT !.pc = "receipt", !.tries = state.tries, !.active = state.active]
      BY <1>0 DEF Creation!RequestStates
    <3>2. QED
      BY <1>2, <1>b, <1>c, <2>2, <3>1 DEF Creation!GetOrder
  <2>3. QED
    BY <1>2, <2>1, <2>2 DEF Creation!GetOrder
<1>3. CASE Creation!CreateJson(r)
  <2>1. CASE Creation!Received(r)
    BY <1>3, <2>1, CreationReplied, FromReceiptTyped DEF Creation!CreateJson
  <2>2. CASE ~Creation!Received(r)
    BY <1>3, <2>2, CreationWritten DEF Creation!CreateJson, Creation!Active
  <2>3. QED
    BY <2>1, <2>2
<1>4. CASE Creation!SelectReceipt(r)
  <2>1. CASE Creation!Received(r)
    BY <1>4, <2>1, CreationReplied, FromReceiptTyped DEF Creation!SelectReceipt
  <2>2. CASE ~Creation!Received(r)
    <3>1. [state EXCEPT !.pc = "active"] =
            [state EXCEPT !.pc = "active", !.tries = state.tries, !.active = state.active]
      BY <1>0 DEF Creation!RequestStates
    <3>2. QED
      BY <1>4, <1>b, <1>c, <2>2, <3>1 DEF Creation!SelectReceipt
  <2>3. QED
    BY <2>1, <2>2
<1>5. CASE Creation!SelectActive(r)
  <2>1. caseReq' = [caseReq EXCEPT ![r] =
          [state EXCEPT !.pc = "insert", !.tries = state.tries,
                        !.active = Creation!Active(OrderOf[r])]]
    BY <1>0, <1>5 DEF Creation!SelectActive, Creation!RequestStates, Creation!IInv,
                      Creation!TypeOK
  <2>2. Creation!Active(OrderOf[r]) \in SUBSET CaseRequests
    BY DEF Creation!Active
  <2>3. QED
    BY <1>5, <1>b, <1>c, <2>1, <2>2 DEF Creation!SelectActive
<1>6. CASE Creation!Insert(r)
  <2>1. CASE ~Creation!Collides(r)
    BY <1>6, <1>c, <2>1, CreationWritten DEF Creation!Insert, Creation!Collides
  <2>2. CASE Creation!Collides(r) /\ state.tries + 1 < Creation!CreateAttempts
    <3> DEFINE tries == state.tries + 1
               none == {}
    <3>1. tries \in 0 .. Creation!CreateAttempts /\ none \in SUBSET CaseRequests
      BY <1>c, <2>2 DEF Creation!CreateAttempts
    <3>2. /\ caseReq' = [caseReq EXCEPT ![r] =
               [state EXCEPT !.pc = "receipt", !.tries = tries, !.active = none]]
          /\ UNCHANGED <<caseStore, case, receipt, saver>>
      BY <1>6, <2>2 DEF Creation!Insert
    <3> HIDE DEF tries, none
    <3>3. QED
      BY <1>b, <3>1, <3>2
  <2>3. CASE Creation!Collides(r) /\ ~(state.tries + 1 < Creation!CreateAttempts)
    BY <1>6, <1>a, <2>3, CreationReplied DEF Creation!Insert
  <2>4. QED
    BY <2>1, <2>2, <2>3
<1>7. QED
  BY <1>1, <1>2, <1>3, <1>4, <1>5, <1>6 DEF Creation!RequestStep

LEMMA CreationStep == Creation!IInv /\ [Creation!Next]_(Creation!vars) => Creation!IInv'
<1> SUFFICES ASSUME Creation!IInv, [Creation!Next]_(Creation!vars) PROVE Creation!IInv'
  OBVIOUS
<1>1. CASE UNCHANGED Creation!vars
  BY <1>1 DEF Creation!vars, Creation!IInv, Creation!TypeOK, Creation!MadeOK,
              Creation!AnswerOK, Creation!OneOpenCasePerOrder
<1>2. QED
  BY <1>1, CreationRequest, CreationSave, CreationGet
     DEF Creation!Next, Creation!SaverStep

\* What two requests under one key have made or were answered is in the receipt.
LEMMA CreationOneCase == Creation!IInv => Creation!KeyNamesOneCase
BY DEF Creation!IInv, Creation!MadeOK, Creation!AnswerOK, Creation!KeyNamesOneCase

-----------------------------------------------------------------------------
(* The versions of the risk rules *)

LEMMA RulesIdle ==
  Rules!Idle \in [pc: {"idle"}, target: RuleVersions, seen: {{}}]
<1>1. (CHOOSE v \in RuleVersions : TRUE) \in RuleVersions
  BY RulesAssumption
<1>2. QED
  BY <1>1 DEF Rules!Idle

LEMMA RulesInit == Rules!Init => Rules!IInv
<1> SUFFICES ASSUME Rules!Init PROVE Rules!IInv
  OBVIOUS
<1>1. Rules!TypeOK
  BY RulesIdle, RulesAssumption DEF Rules!Init, Rules!TypeOK
<1>2. \A a \in RuleAdmins : ruleAdmin[a].pc = "idle"
  BY RulesIdle DEF Rules!Init
<1>3. Rules!Active = {}
  BY DEF Rules!Init, Rules!Active
<1>4. QED
  BY <1>1, <1>2, <1>3 DEF Rules!IInv, Rules!LockOK, Rules!SwitchOK

\* What is active depends on the rows alone.
LEMMA RulesSameActive ==
  ASSUME \A v \in RuleVersions : rule'[v].status = "active" <=> rule[v].status = "active"
  PROVE  Rules!Active' = Rules!Active
BY DEF Rules!Active

LEMMA RulesDraft ==
  ASSUME Rules!IInv, NEW v \in RuleVersions, Rules!SaveDraft(v)
  PROVE  Rules!IInv'
<1> USE RulesAssumption DEF Rules!IInv
<1>1. clock' \in 0 .. MaxClock
  BY DEF Rules!SaveDraft, Rules!Tick, Rules!TypeOK
<1>2. Rules!TypeOK'
  BY <1>1 DEF Rules!SaveDraft, Rules!TypeOK
<1>3. Rules!Active' = Rules!Active
  <2>1. ASSUME NEW u \in RuleVersions
        PROVE  rule'[u].status = "active" <=> rule[u].status = "active"
    BY DEF Rules!SaveDraft, Rules!TypeOK
  <2>2. QED
    BY <2>1, RulesSameActive
<1>4. ruleStore' = ruleStore /\ ruleAdmin' = ruleAdmin
  BY DEF Rules!SaveDraft
<1>5. QED
  BY <1>2, <1>3, <1>4 DEF Rules!LockOK, Rules!SwitchOK

\* activate() and rollback() begin with a read.
LEMMA RulesBegin ==
  ASSUME Rules!IInv, NEW a \in RuleAdmins, NEW v \in RuleVersions, Rules!MayBegin(a),
         ruleAdmin' = [ruleAdmin EXCEPT ![a] =
                         [Rules!Idle EXCEPT !.pc = "retire", !.target = v]],
         UNCHANGED <<ruleStore, rule, clock>>
  PROVE  Rules!IInv'
<1> USE DEF Rules!IInv
<1> DEFINE new == [Rules!Idle EXCEPT !.pc = "retire", !.target = v]
<1>1. /\ new \in [pc: {"idle", "retire", "switch"}, target: RuleVersions,
                  seen: SUBSET RuleVersions]
      /\ new.pc = "retire"
  BY RulesIdle
<1>2. Rules!TypeOK'
  BY <1>1 DEF Rules!TypeOK
<1>3. Rules!Active' = Rules!Active
  BY DEF Rules!Active
<1>4. /\ ruleAdmin'[a].pc = "retire"
      /\ \A b \in RuleAdmins : b # a => ruleAdmin'[b] = ruleAdmin[b]
  BY <1>1 DEF Rules!TypeOK
<1>5. ruleStore = "json" => Rules!LockOK'
  BY <1>4 DEF Rules!LockOK, Rules!MayBegin
<1>6. ruleStore # "postgresql" => \A b \in RuleAdmins : Rules!SwitchOK(b)'
  BY <1>3, <1>4 DEF Rules!SwitchOK
<1>7. QED
  BY <1>2, <1>3, <1>5, <1>6

\* The first update: under a lock nobody else is between the two.
LEMMA RulesRetire ==
  ASSUME Rules!IInv, NEW a \in RuleAdmins, Rules!RetireReads(a)
  PROVE  Rules!IInv'
<1> USE RulesAssumption DEF Rules!IInv
<1>1. /\ ruleAdmin[a].pc = "retire"
      /\ ruleStore' = ruleStore /\ rule' = rule /\ clock' = clock
      /\ ruleAdmin' = [ruleAdmin EXCEPT ![a].pc = "switch", ![a].seen = Rules!Active]
  BY DEF Rules!RetireReads
<1>2. Rules!Active' = Rules!Active /\ Rules!Active \in SUBSET RuleVersions
  BY <1>1 DEF Rules!Active
<1>3. /\ ruleAdmin'[a].pc = "switch" /\ ruleAdmin'[a].seen = Rules!Active
      /\ \A b \in RuleAdmins : b # a => ruleAdmin'[b] = ruleAdmin[b]
  BY <1>1 DEF Rules!TypeOK
<1>4. Rules!TypeOK'
  BY <1>1, <1>2 DEF Rules!TypeOK
<1>5. ruleStore = "json" => Rules!LockOK'
  BY <1>1, <1>3 DEF Rules!LockOK
<1>6. ruleStore \in {"json", "sqlite"} => \A b \in RuleAdmins : ruleAdmin[b].pc # "switch"
  <2>1. CASE ruleStore = "sqlite"
    BY <2>1 DEF Rules!RetireReads
  <2>2. CASE ruleStore = "json"
    BY <1>1, <2>2 DEF Rules!LockOK
  <2>3. QED
    BY <2>1, <2>2
<1>7. ruleStore # "postgresql" => ruleStore \in {"json", "sqlite"}
  BY DEF Rules!TypeOK
<1>8. ruleStore # "postgresql" => \A b \in RuleAdmins : Rules!SwitchOK(b)'
  BY <1>2, <1>3, <1>6, <1>7 DEF Rules!SwitchOK
<1>9. QED
  BY <1>1, <1>2, <1>4, <1>5, <1>8

\* The second update: whoever was alone between the two has retired all others.
LEMMA RulesSwitch ==
  ASSUME Rules!IInv, NEW a \in RuleAdmins, Rules!Switch(a)
  PROVE  Rules!IInv'
<1> USE RulesAssumption DEF Rules!IInv
<1> DEFINE target == ruleAdmin[a].target
           seen == ruleAdmin[a].seen
<1>1. /\ ruleAdmin[a].pc = "switch" /\ target \in RuleVersions
      /\ ruleStore' = ruleStore /\ clock' \in 0 .. MaxClock
      /\ rule' = Rules!Switched(target, seen, clock')
      /\ ruleAdmin' = [ruleAdmin EXCEPT ![a] = Rules!Idle]
  BY DEF Rules!Switch, Rules!Tick, Rules!TypeOK
<1>2. rule' = [v \in RuleVersions |->
                 IF v = target THEN [rule[v] EXCEPT !.status = "active", !.retired = 0]
                 ELSE IF v \in seen \intersect Rules!Active
                   THEN [rule[v] EXCEPT !.status = "retired", !.retired = clock']
                 ELSE rule[v]]
  BY <1>1 DEF Rules!Switched
<1>3. Rules!TypeOK'
  <2>1. ASSUME NEW v \in RuleVersions
        PROVE  rule'[v] \in [status: {"none", "draft", "active", "retired"},
                             created: 0 .. MaxClock, retired: 0 .. MaxClock]
    <3>1. rule[v] \in [status: {"none", "draft", "active", "retired"},
                       created: 0 .. MaxClock, retired: 0 .. MaxClock]
      BY DEF Rules!TypeOK
    <3>2. 0 \in 0 .. MaxClock
      OBVIOUS
    <3>3. CASE v = target
      BY <1>2, <3>1, <3>2, <3>3
    <3>4. CASE v # target /\ v \in seen \intersect Rules!Active
      <4>1. rule'[v] = [rule[v] EXCEPT !.status = "retired", !.retired = clock']
        BY <1>2, <3>4
      <4>2. QED
        BY <1>1, <3>1, <4>1
    <3>5. CASE v # target /\ v \notin seen \intersect Rules!Active
      BY <1>2, <3>1, <3>5
    <3>6. QED
      BY <3>3, <3>4, <3>5
  <2>2. rule' \in [RuleVersions -> [status: {"none", "draft", "active", "retired"},
                                    created: 0 .. MaxClock, retired: 0 .. MaxClock]]
    BY <1>2, <2>1
  <2>3. ruleAdmin' \in [RuleAdmins -> [pc: {"idle", "retire", "switch"},
                                       target: RuleVersions, seen: SUBSET RuleVersions]]
    BY <1>1, RulesIdle DEF Rules!TypeOK
  <2>4. QED
    BY <1>1, <2>2, <2>3 DEF Rules!TypeOK
<1>4. /\ ruleAdmin'[a].pc = "idle"
      /\ \A b \in RuleAdmins : b # a => ruleAdmin'[b] = ruleAdmin[b]
  BY <1>1, RulesIdle DEF Rules!TypeOK
<1>5. ruleStore = "json" => Rules!LockOK'
  BY <1>4 DEF Rules!LockOK
<1>6. ASSUME ruleStore # "postgresql"
      PROVE  \A b \in RuleAdmins : Rules!SwitchOK(b)'
  <2>1. \A b \in RuleAdmins : ruleAdmin'[b].pc # "switch"
    BY <1>1, <1>4, <1>6 DEF Rules!SwitchOK
  <2>2. QED
    BY <2>1 DEF Rules!SwitchOK
<1>7. ASSUME ruleStore # "postgresql"
      PROVE  \A u, v \in Rules!Active' : u = v
  <2>1. seen = Rules!Active
    BY <1>1, <1>7 DEF Rules!SwitchOK
  <2>2. ASSUME NEW v \in RuleVersions, v # target PROVE rule'[v].status # "active"
    <3>1. rule[v] \in [status: {"none", "draft", "active", "retired"},
                       created: 0 .. MaxClock, retired: 0 .. MaxClock]
      BY DEF Rules!TypeOK
    <3>2. CASE v \in Rules!Active
      BY <1>2, <2>1, <2>2, <3>1, <3>2
    <3>3. CASE v \notin Rules!Active
      BY <1>2, <2>1, <2>2, <3>3 DEF Rules!Active
    <3>4. QED
      BY <3>2, <3>3
  <2>3. QED
    BY <2>2 DEF Rules!Active
<1>8. QED
  BY <1>1, <1>3, <1>5, <1>6, <1>7

LEMMA RulesStep == Rules!IInv /\ [Rules!Next]_(Rules!vars) => Rules!IInv'
<1> SUFFICES ASSUME Rules!IInv, [Rules!Next]_(Rules!vars) PROVE Rules!IInv'
  OBVIOUS
<1>1. CASE UNCHANGED Rules!vars
  BY <1>1 DEF Rules!vars, Rules!IInv, Rules!TypeOK, Rules!LockOK, Rules!SwitchOK,
              Rules!Active
<1>2. ASSUME NEW a \in RuleAdmins, Rules!ActivateReads(a) PROVE Rules!IInv'
  BY <1>2, RulesBegin DEF Rules!ActivateReads
<1>3. ASSUME NEW a \in RuleAdmins, Rules!RollbackReads(a) PROVE Rules!IInv'
  BY <1>3, RulesBegin DEF Rules!RollbackReads, Rules!Retired
<1>4. QED
  BY <1>1, <1>2, <1>3, RulesDraft, RulesRetire, RulesSwitch DEF Rules!Next

LEMMA RulesOne == Rules!IInv => Rules!OneActive
<1> SUFFICES ASSUME Rules!IInv, ruleStore # "postgresql"
             PROVE  Cardinality(Rules!Active) <= 1
  BY DEF Rules!OneActive, Rules!Cardinality, Cardinality
<1>1. \A u, v \in Rules!Active : u = v
  BY DEF Rules!IInv
<1>2. CASE Rules!Active = {}
  BY <1>2, FS_EmptySet
<1>3. CASE Rules!Active # {}
  <2>1. PICK v \in Rules!Active : TRUE
    BY <1>3
  <2>2. Rules!Active = {v}
    BY <1>1, <2>1, Zenon
  <2>3. Cardinality({v}) = 1
    BY FS_Singleton
  <2>4. QED
    BY <2>2, <2>3
<1>4. QED
  BY <1>2, <1>3

-----------------------------------------------------------------------------
(* The configuration releases *)

LEMMA ConfigCardinality == ASSUME NEW S PROVE Config!Cardinality(S) = Cardinality(S)
BY DEF Config!Cardinality, Cardinality

LEMMA PlannedCount == Cardinality(Planned) \in Nat
BY ConfigAssumption, FS_CardinalityType

\* A complete report names each planned key once: it has as many rows as there
\* are keys, and every key.
LEMMA CompleteNamesOnce ==
  ASSUME NEW report \in Config!Reports, Config!Complete(report), NEW k \in Planned
  PROVE  Cardinality({i \in DOMAIN report :
                        report[i] = [key |-> k, passed |-> TRUE]}) = 1
<1>1. PICK n \in 0 .. Cardinality(Planned) : report \in [1 .. n -> Config!Rows]
  BY ConfigCardinality DEF Config!Reports
<1>2. n \in Nat
  BY <1>1, PlannedCount
<1>3. DOMAIN report = 1 .. n /\ Len(report) = n
  BY <1>1, <1>2
<1>4. n = Cardinality(Planned)
  BY <1>3, ConfigCardinality DEF Config!Complete
<1>5. \A i \in 1 .. n : report[i].key \in Planned
  BY <1>1 DEF Config!Rows
<1>6. \A j \in Planned : \E i \in 1 .. n : report[i].key = j
  BY <1>3 DEF Config!Complete, Config!Keys
<1> DEFINE keyOf == [i \in 1 .. n |-> report[i].key]
<1>7. keyOf \in Surjection(1 .. n, Planned)
  BY <1>5, <1>6 DEF Surjection
<1>8. IsFiniteSet(1 .. n) /\ Cardinality(1 .. n) = Cardinality(Planned)
  BY <1>2, <1>4, FS_Interval
<1>9. keyOf \in Injection(1 .. n, Planned)
  BY <1>7, <1>8, FS_SurjSameCardinalityImpliesInj
<1>10. \A i, j \in 1 .. n : report[i].key = report[j].key => i = j
  BY <1>9 DEF Injection, IsInjective
<1>11. PICK i \in 1 .. n : report[i].key = k
  BY <1>6
<1>12. report[i] = [key |-> k, passed |-> TRUE]
  <2>1. report[i] \in Config!Rows /\ report[i].passed
    BY <1>1, <1>3 DEF Config!Complete
  <2>2. QED
    BY <1>11, <2>1 DEF Config!Rows
<1>13. {j \in DOMAIN report : report[j] = [key |-> k, passed |-> TRUE]} = {i}
  BY <1>3, <1>10, <1>11, <1>12
<1>14. QED
  BY <1>13, FS_Singleton

LEMMA ConfigIdle ==
  /\ Config!IdleAdmin \in [pc: {"idle"}, config: Configs, canary: BOOLEAN,
                           current: Config!Heads]
  /\ Config!IdleThread \in [pc: {"idle"}, session: Sessions, chosen: Configs]
  /\ Config!NoHead \in Config!Heads
<1>1. (CHOOSE c \in Configs : TRUE) \in Configs /\ (CHOOSE x \in Sessions : TRUE) \in Sessions
  BY ConfigAssumption
<1>2. Config!NoHead \in Config!Heads
  BY ConfigAssumption DEF Config!NoHead, Config!Heads
<1>3. QED
  BY <1>1, <1>2 DEF Config!IdleAdmin, Config!IdleThread

LEMMA ConfigInit == Config!Init => Config!IInv
<1> SUFFICES ASSUME Config!Init PROVE Config!IInv
  OBVIOUS
<1>1. <<>> \in Config!Reports
  <2>1. 0 \in 0 .. Config!Cardinality(Planned)
    BY PlannedCount, ConfigCardinality
  <2>2. <<>> \in [1 .. 0 -> Config!Rows]
    OBVIOUS
  <2>3. QED
    BY <2>1, <2>2 DEF Config!Reports
<1>2. Config!TypeOK
  BY <1>1, ConfigIdle DEF Config!Init, Config!TypeOK
<1>3. QED
  BY <1>2, ConfigIdle
     DEF Config!Init, Config!IInv, Config!ReportOK, Config!HeadOK, Config!AdminOK,
         Config!ToldOK, Config!NoHead

LEMMA ConfigEvaluate ==
  ASSUME Config!IInv, NEW c \in Configs, NEW report \in Config!Reports,
         Config!Evaluate(c, report)
  PROVE  Config!IInv'
<1> USE DEF Config!IInv
<1>1. /\ release[c].status = "draft" /\ report \in Config!CompleteReports
      /\ release' = [release EXCEPT ![c] = [status |-> "evaluated", report |-> report]]
      /\ UNCHANGED <<configHead, assigned, deployer, assigner, told>>
  BY DEF Config!Evaluate, Config!CompleteReports
<1>2. Config!TypeOK'
  BY <1>1 DEF Config!TypeOK
<1>3. /\ release'[c] = [status |-> "evaluated", report |-> report]
      /\ \A d \in Configs : d # c => release'[d] = release[d]
  BY <1>1 DEF Config!TypeOK
<1>4. ASSUME NEW d \in Configs PROVE Config!ReportOK(d)'
  <2>1. CASE d = c
    BY <1>1, <1>3, <2>1 DEF Config!ReportOK
  <2>2. CASE d # c
    BY <1>3, <2>2 DEF Config!ReportOK
  <2>3. QED
    BY <2>1, <2>2
<1>5. Config!HeadOK'
  <2>1. {configHead.active, configHead.candidate} \ {NoConfig} \subseteq Configs
    BY DEF Config!TypeOK, Config!Heads
  <2>2. QED
    BY <1>1, <1>3, <2>1 DEF Config!HeadOK
<1>6. ASSUME NEW a \in Deployers PROVE Config!AdminOK(a)'
  <2>1. deployer[a].config \in Configs
    BY DEF Config!TypeOK
  <2>2. QED
    BY <1>1, <1>3, <2>1 DEF Config!AdminOK
<1>7. QED
  BY <1>1, <1>2, <1>4, <1>5, <1>6 DEF Config!ToldOK

LEMMA ConfigDeployReads ==
  ASSUME Config!IInv, NEW a \in Deployers, Config!DeployReads(a)
  PROVE  Config!IInv'
<1> USE ConfigAssumption DEF Config!IInv
<1>1. PICK c \in Configs, canary \in BOOLEAN :
        /\ release[c].status \in {"evaluated", "active", "retired"}
        /\ canary => configHead.version # 0
        /\ deployer' = [deployer EXCEPT ![a] =
             [pc |-> "deploy", config |-> c, canary |-> canary, current |-> configHead]]
  BY DEF Config!DeployReads
<1>2. UNCHANGED <<release, configHead, assigned, assigner, told>>
      /\ configHead.version < MaxConfigHead /\ configHead \in Config!Heads
  BY DEF Config!DeployReads, Config!TypeOK
<1>3. configHead.version \in Nat
  BY <1>2 DEF Config!Heads
<1>4. Config!TypeOK'
  BY <1>1, <1>2 DEF Config!TypeOK
<1>5. ASSUME NEW b \in Deployers PROVE Config!AdminOK(b)'
  <2>1. CASE b = a
    <3>1. deployer'[b] = [pc |-> "deploy", config |-> c, canary |-> canary,
                          current |-> configHead]
      BY <1>1, <2>1 DEF Config!TypeOK
    <3>2. QED
      BY <1>1, <1>2, <1>3, <3>1 DEF Config!AdminOK
  <2>2. CASE b # a
    <3>1. deployer'[b] = deployer[b]
      BY <1>1, <2>2 DEF Config!TypeOK
    <3>2. QED
      BY <1>2, <3>1 DEF Config!AdminOK
  <2>3. QED
    BY <2>1, <2>2
<1>6. QED
  BY <1>2, <1>4, <1>5
     DEF Config!ReportOK, Config!HeadOK, Config!ToldOK

\* A deployment that is refused, because the head has moved on.
LEMMA ConfigDeployRefused ==
  ASSUME Config!IInv, NEW a \in Deployers, Config!Deploy(a),
         configHead.version # deployer[a].current.version
  PROVE  Config!IInv'
<1> USE DEF Config!IInv
<1>1. /\ deployer' = [deployer EXCEPT ![a] = Config!IdleAdmin]
      /\ UNCHANGED <<release, configHead, assigned, assigner, told>>
  BY DEF Config!Deploy
<1>2. Config!TypeOK'
  BY <1>1, ConfigIdle DEF Config!TypeOK
<1>3. ASSUME NEW b \in Deployers PROVE Config!AdminOK(b)'
  <2>1. CASE b = a
    <3>1. deployer'[b].pc = "idle"
      BY <1>1, <2>1, ConfigIdle DEF Config!TypeOK
    <3>2. QED
      BY <3>1 DEF Config!AdminOK
  <2>2. CASE b # a
    <3>1. deployer'[b] = deployer[b]
      BY <1>1, <2>2 DEF Config!TypeOK
    <3>2. QED
      BY <1>1, <3>1 DEF Config!AdminOK
  <2>3. QED
    BY <2>1, <2>2
<1>4. QED
  BY <1>1, <1>2, <1>3
     DEF Config!ReportOK, Config!HeadOK, Config!ToldOK

\* A deployment from the head that it has read.
LEMMA ConfigDeployed ==
  ASSUME Config!IInv, NEW a \in Deployers, Config!Deploy(a),
         configHead.version = deployer[a].current.version
  PROVE  Config!IInv'
<1> USE ConfigAssumption DEF Config!IInv
<1> DEFINE r == deployer[a]
           new == [active |-> IF r.canary THEN configHead.active ELSE r.config,
                   candidate |-> IF r.canary THEN r.config ELSE NoConfig,
                   canary |-> r.canary, version |-> configHead.version + 1]
<1>1. /\ r.pc = "deploy" /\ r.config \in Configs /\ r.canary \in BOOLEAN
      /\ configHead \in Config!Heads
  BY DEF Config!Deploy, Config!TypeOK
<1>2. /\ r.current = configHead /\ configHead.version < MaxConfigHead
      /\ release[r.config].status # "draft"
      /\ r.canary => configHead.version # 0
  BY <1>1 DEF Config!AdminOK
<1>3. /\ configHead' = new
      /\ release' = Config!Deployed(r.config, configHead, r.canary)
      /\ deployer' = [deployer EXCEPT ![a] = Config!IdleAdmin]
      /\ UNCHANGED <<assigned, assigner, told>>
  BY <1>2 DEF Config!Deploy
<1>4. configHead.version \in 0 .. MaxConfigHead /\ configHead.version + 1 \in 0 .. MaxConfigHead
  BY <1>1, <1>2 DEF Config!Heads
<1>5. new \in Config!Heads
  BY <1>1, <1>4 DEF Config!Heads
<1>6. ASSUME NEW c \in Configs
      PROVE  /\ release'[c] \in [status: {"draft", "evaluated", "active", "retired"},
                                 report: Config!Reports]
             /\ release'[c].report = release[c].report
             /\ \/ release'[c].status = release[c].status
                \/ /\ release'[c].status = "active"
                   /\ c = r.config
                \/ /\ release'[c].status = "retired" /\ c # r.config /\ ~r.canary
                   /\ c \in {configHead.active, configHead.candidate}
             /\ c = r.config => release'[c].status = "active"
  <2>1. release[c] \in [status: {"draft", "evaluated", "active", "retired"},
                        report: Config!Reports]
    BY DEF Config!TypeOK
  <2> DEFINE old == ~r.canary /\ c \in {configHead.active, configHead.candidate}
  <2>2. /\ c = r.config => release'[c] = [release[c] EXCEPT !.status = "active"]
        /\ c # r.config /\ old => release'[c] = [release[c] EXCEPT !.status = "retired"]
        /\ c # r.config /\ ~old => release'[c] = release[c]
    BY <1>3 DEF Config!Deployed
  <2>3. CASE c = r.config
    BY <2>1, <2>2, <2>3
  <2>4. CASE c # r.config /\ old
    <3>1. release'[c] = [release[c] EXCEPT !.status = "retired"]
      BY <2>2, <2>4
    <3>2. QED
      BY <2>1, <2>4, <3>1
  <2>5. CASE c # r.config /\ ~old
    <3>1. release'[c] = release[c]
      BY <2>2, <2>5
    <3>2. QED
      BY <2>1, <2>5, <3>1
  <2>6. QED
    BY <2>3, <2>4, <2>5
<1>7. Config!TypeOK'
  <2>1. release' \in [Configs -> [status: {"draft", "evaluated", "active", "retired"},
                                  report: Config!Reports]]
    BY <1>3, <1>6 DEF Config!Deployed
  <2>2. deployer' \in [Deployers -> [pc: {"idle", "deploy"}, config: Configs,
                                     canary: BOOLEAN, current: Config!Heads]]
    BY <1>3, ConfigIdle DEF Config!TypeOK
  <2>3. QED
    BY <1>3, <1>5, <2>1, <2>2 DEF Config!TypeOK
<1>8. \A c \in Configs : release'[c].status # "draft" => release[c].status # "draft"
  <2>1. ASSUME NEW c \in Configs, release[c].status = "draft"
        PROVE  release'[c].status = "draft"
    <3>1. c # r.config
      BY <1>2, <2>1
    <3>2. c \notin {configHead.active, configHead.candidate}
      BY <2>1 DEF Config!HeadOK
    <3>3. QED
      BY <1>6, <2>1, <3>1, <3>2
  <2>2. QED
    BY <2>1
<1>9. ASSUME NEW c \in Configs PROVE Config!ReportOK(c)'
  BY <1>6, <1>8 DEF Config!ReportOK
<1>10. Config!HeadOK'
  <2>1. CASE r.canary
    <3>1. configHead'.active = configHead.active /\ configHead'.candidate = r.config
      BY <1>3, <2>1
    <3>2. configHead.active # NoConfig
      BY <1>2, <2>1 DEF Config!HeadOK
    <3>3. configHead.active \in Configs
      BY <1>1, <3>2 DEF Config!Heads
    <3>4. release[configHead.active].status = "active"
      BY <3>2 DEF Config!HeadOK
    <3>5. release'[configHead.active].status = "active"
      BY <1>6, <2>1, <3>3, <3>4
    <3>6. QED
      BY <1>1, <1>6, <3>1, <3>2, <3>5 DEF Config!HeadOK
  <2>2. CASE ~r.canary
    <3>1. configHead'.active = r.config /\ configHead'.candidate = NoConfig
      BY <1>3, <2>2
    <3>2. QED
      BY <1>1, <1>6, <3>1 DEF Config!HeadOK
  <2>3. QED
    BY <2>1, <2>2
<1>11. ASSUME NEW b \in Deployers PROVE Config!AdminOK(b)'
  <2>1. CASE b = a
    <3>1. deployer'[b].pc = "idle"
      BY <1>3, <2>1, ConfigIdle DEF Config!TypeOK
    <3>2. QED
      BY <3>1 DEF Config!AdminOK
  <2>2. CASE b # a
    <3>1. deployer'[b] = deployer[b]
      BY <1>3, <2>2 DEF Config!TypeOK
    <3> SUFFICES ASSUME deployer[b].pc = "deploy" PROVE Config!AdminOK(b)'
      BY <3>1 DEF Config!AdminOK
    <3>2. /\ deployer[b].config \in Configs /\ deployer[b].current \in Config!Heads
      BY DEF Config!TypeOK
    <3>3. deployer[b].current.version \in Nat
      BY <3>2 DEF Config!Heads
    <3>4. /\ release[deployer[b].config].status # "draft"
          /\ deployer[b].current.version <= configHead.version
          /\ deployer[b].current.version < MaxConfigHead
          /\ deployer[b].canary => deployer[b].current.version # 0
      BY DEF Config!AdminOK
    <3>5. release'[deployer[b].config].status # "draft"
      BY <1>6, <3>2, <3>4
    <3>6. configHead'.version = configHead.version + 1
      BY <1>3
    <3>7. QED
      BY <1>4, <3>1, <3>3, <3>4, <3>5, <3>6 DEF Config!AdminOK
  <2>3. QED
    BY <2>1, <2>2
<1>12. QED
  BY <1>3, <1>7, <1>9, <1>10, <1>11 DEF Config!ToldOK

\* The head that assigns is there, so it names a release.
LEMMA ConfigChosen ==
  ASSUME Config!IInv, NEW x \in Sessions, configHead.version # 0
  PROVE  Config!Chosen(x) \in Configs
<1>1. configHead.active # NoConfig
  BY DEF Config!IInv, Config!HeadOK
<1>2. QED
  BY <1>1 DEF Config!IInv, Config!TypeOK, Config!Heads, Config!Chosen

LEMMA ConfigAssignReads ==
  ASSUME Config!IInv, NEW t \in Assigners, NEW x \in Sessions, Config!AssignReads(t, x)
  PROVE  Config!IInv'
<1> USE DEF Config!IInv
<1>1. UNCHANGED <<release, configHead, assigned, deployer>>
  BY DEF Config!AssignReads
<1>2. CASE assigned[x] # NoConfig
  <2>1. told' = [told EXCEPT ![x] = @ \union {assigned[x]}] /\ assigner' = assigner
    BY <1>2 DEF Config!AssignReads, Config!Told
  <2>2. assigned[x] \in Configs
    BY <1>2 DEF Config!TypeOK
  <2>3. Config!TypeOK'
    BY <1>1, <2>1, <2>2 DEF Config!TypeOK
  <2>4. \A y \in Sessions : Config!ToldOK(y)'
    BY <1>1, <1>2, <2>1 DEF Config!ToldOK, Config!TypeOK
  <2>5. QED
    BY <1>1, <2>3, <2>4
       DEF Config!ReportOK, Config!HeadOK, Config!AdminOK
<1>3. CASE assigned[x] = NoConfig
  <2>1. /\ assigner' = [assigner EXCEPT ![t] = [pc |-> "insert", session |-> x,
                                                chosen |-> Config!Chosen(x)]]
        /\ told' = told /\ configHead.version # 0
    BY <1>3 DEF Config!AssignReads
  <2>2. Config!Chosen(x) \in Configs
    BY <2>1, ConfigChosen
  <2>3. Config!TypeOK'
    BY <1>1, <2>1, <2>2 DEF Config!TypeOK
  <2>4. QED
    BY <1>1, <2>1, <2>3
       DEF Config!ReportOK, Config!HeadOK, Config!AdminOK,
           Config!ToldOK
<1>4. QED
  BY <1>2, <1>3

LEMMA ConfigAssignInserts ==
  ASSUME Config!IInv, NEW t \in Assigners, Config!AssignInserts(t)
  PROVE  Config!IInv'
<1> USE ConfigAssumption DEF Config!IInv
<1> DEFINE x == assigner[t].session
           c == assigner[t].chosen
<1>1. /\ UNCHANGED <<release, configHead, deployer>>
      /\ assigner' = [assigner EXCEPT ![t] = Config!IdleThread]
      /\ x \in Sessions /\ c \in Configs
  BY DEF Config!AssignInserts, Config!TypeOK
<1>2. assigner' \in [Assigners -> [pc: {"idle", "insert"}, session: Sessions,
                                   chosen: Configs]]
  BY <1>1, ConfigIdle DEF Config!TypeOK
<1>3. CASE Config!Free(x)
  <2>1. /\ assigned' = [assigned EXCEPT ![x] = c]
        /\ told' = [told EXCEPT ![x] = @ \union {c}]
    BY <1>3 DEF Config!AssignInserts, Config!Told
  <2>2. Config!TypeOK'
    BY <1>1, <1>2, <2>1 DEF Config!TypeOK
  <2>3. ASSUME NEW y \in Sessions PROVE Config!ToldOK(y)'
    <3>1. CASE y = x
      <4>1. told[x] = {}
        BY <1>1, <1>3 DEF Config!ToldOK, Config!Free
      <4>2. told'[y] = {c} /\ assigned'[y] = c
        BY <1>1, <2>1, <3>1, <4>1 DEF Config!TypeOK
      <4>3. QED
        BY <1>1, <4>2 DEF Config!ToldOK
    <3>2. CASE y # x
      <4>1. told'[y] = told[y] /\ assigned'[y] = assigned[y]
        BY <1>1, <2>1, <3>2 DEF Config!TypeOK
      <4>2. QED
        BY <4>1 DEF Config!ToldOK
    <3>3. QED
      BY <3>1, <3>2
  <2>4. QED
    BY <1>1, <2>2, <2>3
       DEF Config!ReportOK, Config!HeadOK, Config!AdminOK
<1>4. CASE ~Config!Free(x)
  <2>1. assigned' = assigned /\ told' = told
    BY <1>4 DEF Config!AssignInserts
  <2>2. Config!TypeOK'
    BY <1>1, <1>2, <2>1 DEF Config!TypeOK
  <2>3. QED
    BY <1>1, <2>1, <2>2
       DEF Config!ReportOK, Config!HeadOK, Config!AdminOK,
           Config!ToldOK
<1>5. QED
  BY <1>3, <1>4

LEMMA ConfigStep == Config!IInv /\ [Config!Next]_(Config!vars) => Config!IInv'
<1> SUFFICES ASSUME Config!IInv, [Config!Next]_(Config!vars) PROVE Config!IInv'
  OBVIOUS
<1>1. CASE UNCHANGED Config!vars
  BY <1>1 DEF Config!vars, Config!IInv, Config!TypeOK, Config!ReportOK,
              Config!HeadOK, Config!AdminOK, Config!ToldOK
<1>2. QED
  BY <1>1, ConfigEvaluate, ConfigDeployReads, ConfigDeployRefused, ConfigDeployed,
     ConfigAssignReads, ConfigAssignInserts DEF Config!Next

LEMMA ConfigProven == Config!IInv => Config!HeadIsProven
<1> SUFFICES ASSUME Config!IInv,
                    NEW c \in {configHead.active, configHead.candidate} \ {NoConfig}
             PROVE  /\ release[c].status = "active"
                    /\ \A k \in Planned :
                         Config!Cardinality({i \in DOMAIN release[c].report :
                           release[c].report[i] = [key |-> k, passed |-> TRUE]}) = 1
  BY DEF Config!HeadIsProven
<1>1. release[c].status = "active"
  BY DEF Config!IInv, Config!HeadOK
<1>2. c \in Configs /\ release[c].report \in Config!Reports
  BY DEF Config!IInv, Config!TypeOK, Config!Heads
<1>3. Config!Complete(release[c].report)
  BY <1>1, <1>2 DEF Config!IInv, Config!ReportOK, Config!CompleteReports
<1>4. QED
  BY <1>1, <1>2, <1>3, CompleteNamesOnce, ConfigCardinality

LEMMA ConfigSticks == Config!IInv => Config!SessionSticks
<1> SUFFICES ASSUME Config!IInv, NEW x \in Sessions
             PROVE  Config!Cardinality(told[x]) <= 1
  BY DEF Config!SessionSticks
<1>1. told[x] = {} \/ told[x] = {assigned[x]}
  BY DEF Config!IInv, Config!ToldOK
<1>2. Cardinality({}) = 0 /\ Cardinality({assigned[x]}) = 1
  BY FS_EmptySet, FS_Singleton
<1>3. QED
  BY <1>1, <1>2, ConfigCardinality

-----------------------------------------------------------------------------
(* The intake *)

LEMMA IntakeIdle ==
  AfterSale!Idle \in [pc: {"idle", "commit"}, key: IntakeKeys,
                      request: AfterSale!Requests]
<1>1. (CHOOSE k \in IntakeKeys : TRUE) \in IntakeKeys
  BY IntakeAssumption
<1>2. 0 \in AfterSale!Revisions
  BY IntakeAssumption DEF AfterSale!Revisions
<1>3. QED
  BY <1>1, <1>2 DEF AfterSale!Idle, AfterSale!Requests, AfterSale!Commands

LEMMA IntakeInit == AfterSale!Init => AfterSale!IInv
<1> SUFFICES ASSUME AfterSale!Init PROVE AfterSale!IInv
  OBVIOUS
<1>1. 0 \in AfterSale!Revisions
  BY IntakeAssumption DEF AfterSale!Revisions
<1>2. AfterSale!TypeOK
  BY <1>1, IntakeIdle DEF AfterSale!Init, AfterSale!TypeOK, AfterSale!Rows
<1>3. \A n \in AfterSale!Revisions : acts[n].status = "none"
  BY DEF AfterSale!Init
<1>4. \A t \in IntakeThreads : intakeThread[t].pc = "idle"
  BY DEF AfterSale!Init, AfterSale!Idle
<1>5. AfterSale!RowOK
  BY DEF AfterSale!Init, AfterSale!RowOK
<1>6. QED
  BY <1>2, <1>3, <1>4, <1>5
     DEF AfterSale!IInv, AfterSale!ActOK, AfterSale!ThreadOK,
         AfterSale!ProposalsAreCurrent

\* A request reads the row that it wants to change.
LEMMA IntakeLook ==
  ASSUME AfterSale!IInv, NEW t \in IntakeThreads, AfterSale!Look(t)
  PROVE  AfterSale!IInv'
<1> USE IntakeAssumption DEF AfterSale!IInv
<1>1. PICK k \in IntakeKeys, request \in AfterSale!Requests :
        /\ request.expected < MaxRevision
        /\ AfterSale!Possible(request)
        /\ intakeThread' = [intakeThread EXCEPT ![t] =
             [pc |-> "commit", key |-> k, request |-> request]]
  BY DEF AfterSale!Look
<1>2. UNCHANGED <<intake, intakeReceipt, acts, approved>>
  BY DEF AfterSale!Look
<1>3. AfterSale!TypeOK'
  BY <1>1, <1>2 DEF AfterSale!TypeOK
<1>4. ASSUME NEW u \in IntakeThreads PROVE AfterSale!ThreadOK(u)'
  <2>1. CASE u = t
    <3>1. intakeThread'[u].request = request
      BY <1>1, <2>1 DEF AfterSale!TypeOK
    <3>2. request.expected = intake.revision
      BY <1>1 DEF AfterSale!Possible
    <3>3. request.expected \in Nat
      BY DEF AfterSale!Requests, AfterSale!Revisions
    <3>4. QED
      BY <1>1, <1>2, <3>1, <3>2, <3>3 DEF AfterSale!ThreadOK, AfterSale!Possible
  <2>2. CASE u # t
    <3>1. intakeThread'[u] = intakeThread[u]
      BY <1>1, <2>2 DEF AfterSale!TypeOK
    <3>2. QED
      BY <1>2, <3>1
         DEF AfterSale!ThreadOK, AfterSale!Fresh, AfterSale!Possible
  <2>3. QED
    BY <2>1, <2>2
<1>5. QED
  BY <1>2, <1>3, <1>4
     DEF AfterSale!ActOK, AfterSale!RowOK, AfterSale!ProposalsAreCurrent

\* A command that is refused.
LEMMA IntakeRefused ==
  ASSUME AfterSale!IInv, NEW t \in IntakeThreads,
         intakeThread' = [intakeThread EXCEPT ![t] = AfterSale!Idle],
         UNCHANGED <<intake, intakeReceipt, acts, approved>>
  PROVE  AfterSale!IInv'
<1> USE DEF AfterSale!IInv
<1>1. AfterSale!TypeOK'
  BY IntakeIdle DEF AfterSale!TypeOK
<1>2. ASSUME NEW u \in IntakeThreads PROVE AfterSale!ThreadOK(u)'
  <2>1. CASE u = t
    BY <2>1 DEF AfterSale!ThreadOK, AfterSale!TypeOK, AfterSale!Idle
  <2>2. CASE u # t
    <3>1. intakeThread'[u] = intakeThread[u]
      BY <2>2 DEF AfterSale!TypeOK
    <3>2. QED
      BY <3>1 DEF AfterSale!ThreadOK, AfterSale!Fresh, AfterSale!Possible
  <2>3. QED
    BY <2>1, <2>2
<1>3. QED
  BY <1>1, <1>2 DEF AfterSale!ActOK, AfterSale!RowOK, AfterSale!ProposalsAreCurrent

\* What a commit does to the threads: its own ends, and the others, which have
\* read an earlier revision, are fresh no more.
LEMMA IntakeOthers ==
  ASSUME AfterSale!IInv, NEW t \in IntakeThreads, NEW n \in AfterSale!Revisions,
         intakeThread' = [intakeThread EXCEPT ![t] = AfterSale!Idle],
         n = intake.revision + 1, intake'.revision = n
  PROVE  \A u \in IntakeThreads : AfterSale!ThreadOK(u)'
<1> SUFFICES ASSUME NEW u \in IntakeThreads PROVE AfterSale!ThreadOK(u)'
  OBVIOUS
<1>1. CASE u = t
  BY <1>1 DEF AfterSale!ThreadOK, AfterSale!IInv, AfterSale!TypeOK, AfterSale!Idle
<1>2. CASE u # t
  <2>1. intakeThread'[u] = intakeThread[u]
    BY <1>2 DEF AfterSale!IInv, AfterSale!TypeOK
  <2>2. intakeThread[u].request.expected \in Nat /\ intake.revision \in Nat
    BY DEF AfterSale!IInv, AfterSale!TypeOK, AfterSale!Requests, AfterSale!Rows,
           AfterSale!Revisions
  <2>3. intakeThread[u].pc = "commit" =>
          /\ intakeThread[u].request.expected < MaxRevision
          /\ intakeThread[u].request.expected <= intake.revision
    BY DEF AfterSale!IInv, AfterSale!ThreadOK
  <2>4. intakeThread'[u].pc = "commit" =>
          /\ intakeThread'[u].request.expected < MaxRevision
          /\ intakeThread'[u].request.expected <= intake'.revision
          /\ intake'.revision # intakeThread'[u].request.expected
    BY <2>1, <2>2, <2>3
  <2>5. QED
    BY <2>4 DEF AfterSale!ThreadOK, AfterSale!Fresh
<1>3. QED
  BY <1>1, <1>2

\* What a command that commits has read is still so.
LEMMA IntakeReads ==
  ASSUME AfterSale!IInv, NEW t \in IntakeThreads, intakeThread[t].pc = "commit",
         AfterSale!Fresh(intakeThread[t].request)
  PROVE  /\ intakeThread[t].request \in AfterSale!Requests
         /\ intakeThread[t].key \in IntakeKeys
         /\ intakeThread[t].request.expected = intake.revision
         /\ intake.revision \in Nat
         /\ intake.revision + 1 \in AfterSale!Revisions
         /\ AfterSale!Possible(intakeThread[t].request)
<1> USE DEF AfterSale!IInv
<1>1. /\ intakeThread[t].request \in AfterSale!Requests
      /\ intakeThread[t].key \in IntakeKeys
      /\ intake.revision \in AfterSale!Revisions
  BY DEF AfterSale!TypeOK, AfterSale!Rows
<1>2. intakeThread[t].request.expected = intake.revision
  BY DEF AfterSale!Fresh
<1>3. intakeThread[t].request.expected < MaxRevision
  BY DEF AfterSale!ThreadOK
<1>4. AfterSale!Possible(intakeThread[t].request)
  BY DEF AfterSale!ThreadOK
<1>5. QED
  BY <1>1, <1>2, <1>3, <1>4, IntakeAssumption DEF AfterSale!Revisions

\* The step of a command that commits.
IntakeCommitted(t) ==
  /\ intakeThread[t].pc = "commit"
  /\ intakeThread' = [intakeThread EXCEPT ![t] = AfterSale!Idle]
  /\ AfterSale!Fresh(intakeThread[t].request)
  /\ intake' = AfterSale!Changed(intakeThread[t].request)
  /\ acts' = AfterSale!Proposed(intakeThread[t].request)
  /\ intakeReceipt' = [intakeReceipt EXCEPT ![intakeThread[t].key] =
                         intakeThread[t].request.expected + 1]
  /\ UNCHANGED approved

ActRecords == [tool: {"none", "create", "execute"},
               field: Fields \union {AfterSale!Missing},
               status: AfterSale!Started \union AfterSale!Over \union
                       {"none", "pending", "confirmed"}]

\* An update or a withdrawal ends the proposal of the fields that go.
LEMMA IntakeRetires ==
  ASSUME AfterSale!IInv, NEW t \in IntakeThreads, IntakeCommitted(t),
         intakeThread[t].request.command \in {"update", "withdraw"}
  PROVE  AfterSale!IInv'
<1> USE IntakeAssumption DEF AfterSale!IInv
<1> DEFINE request == intakeThread[t].request
           n == intake.revision + 1
<1>1. /\ request \in AfterSale!Requests /\ intakeThread[t].key \in IntakeKeys
      /\ request.expected = intake.revision
      /\ intake.revision \in Nat /\ n \in AfterSale!Revisions
  BY IntakeReads DEF IntakeCommitted
<1>2. intake \in AfterSale!Rows /\ acts \in [AfterSale!Revisions -> ActRecords]
  BY DEF AfterSale!TypeOK, ActRecords
<1>3. /\ intake' \in AfterSale!Rows
      /\ intake'.revision = n /\ intake'.action = 0
      /\ intake'.execution = intake.execution
  <2>0. 0 \in AfterSale!Revisions
    BY DEF AfterSale!Revisions
  <2>1. CASE request.command = "update"
    BY <1>1, <1>2, <2>0, <2>1
       DEF IntakeCommitted, AfterSale!Changed, AfterSale!Rows, AfterSale!Requests
  <2>2. CASE request.command = "withdraw"
    BY <1>1, <1>2, <2>0, <2>2
       DEF IntakeCommitted, AfterSale!Changed, AfterSale!Rows
  <2>3. QED
    BY <2>1, <2>2 DEF IntakeCommitted
<1>4. acts' = AfterSale!Retired(request)
  BY DEF IntakeCommitted, AfterSale!Proposed
<1>5. /\ acts' \in [AfterSale!Revisions -> ActRecords]
      /\ \A m \in AfterSale!Revisions :
           \/ acts'[m] = acts[m] /\ (m = 0 \/ m # intake.action)
           \/ /\ acts'[m].status \in AfterSale!Over /\ acts'[m].tool = acts[m].tool
              /\ m = intake.action /\ m # 0
  <2>1. CASE intake.action = 0
    BY <1>2, <1>4, <2>1 DEF AfterSale!Retired
  <2>2. CASE intake.action # 0
    <3>0. intake.action \in AfterSale!Revisions
      BY <1>2 DEF AfterSale!Rows
    <3>1. PICK s \in {"invalidated", "rejected"} :
            acts' = [acts EXCEPT ![intake.action].status = s]
      BY <1>4, <2>2 DEF AfterSale!Retired
    <3>2. [acts[intake.action] EXCEPT !.status = s] \in ActRecords
      BY <1>2, <3>0 DEF ActRecords, AfterSale!Over
    <3>3. QED
      BY <1>2, <2>2, <3>0, <3>1, <3>2 DEF ActRecords, AfterSale!Over
  <2>3. QED
    BY <2>1, <2>2
<1>6. AfterSale!TypeOK'
  <2>1. intakeReceipt' \in [IntakeKeys -> AfterSale!Revisions]
    BY <1>1 DEF IntakeCommitted, AfterSale!TypeOK
  <2>2. intakeThread' \in [IntakeThreads -> [pc: {"idle", "commit"}, key: IntakeKeys,
                                             request: AfterSale!Requests]]
    BY IntakeIdle DEF IntakeCommitted, AfterSale!TypeOK
  <2>3. approved' \in BOOLEAN
    BY DEF IntakeCommitted, AfterSale!TypeOK
  <2>4. QED
    BY <1>3, <1>5, <2>1, <2>2, <2>3 DEF AfterSale!TypeOK, ActRecords
<1>7. ASSUME NEW m \in AfterSale!Revisions PROVE AfterSale!ActOK(m)'
  <2>1. m \in Nat
    BY DEF AfterSale!Revisions
  <2>2. acts'[m].status # "none" =>
          m # 0 /\ m <= intake.revision /\ acts'[m].tool \in {"create", "execute"}
    BY <1>5 DEF AfterSale!ActOK, AfterSale!RowOK, AfterSale!Over
  <2>3. QED
    BY <1>1, <1>3, <2>1, <2>2 DEF AfterSale!ActOK
<1>8. AfterSale!RowOK'
  <2>1. intake.execution \in Nat
    BY <1>2 DEF AfterSale!Rows, AfterSale!Revisions
  <2>2. QED
    BY <1>1, <1>3, <2>1 DEF AfterSale!RowOK
<1>9. AfterSale!ProposalsAreCurrent'
  <2>1. ASSUME NEW m \in AfterSale!Revisions,
               acts'[m].status \notin {"none"} \union AfterSale!Over
        PROVE  acts'[m].tool = "execute" /\ intake'.execution = m
    <3>1. acts'[m] = acts[m] /\ (m = 0 \/ m # intake.action)
      BY <1>5, <2>1
    <3>2. m # 0 /\ acts[m].tool \in {"create", "execute"}
      BY <2>1, <3>1 DEF AfterSale!ActOK
    <3>3. acts[m].tool # "create"
      BY <2>1, <3>1, <3>2 DEF AfterSale!ProposalsAreCurrent
    <3>4. intake.execution = m
      BY <2>1, <3>1, <3>2, <3>3 DEF AfterSale!ProposalsAreCurrent
    <3>5. QED
      BY <1>3, <3>1, <3>2, <3>3, <3>4
  <2>2. QED
    BY <2>1 DEF AfterSale!ProposalsAreCurrent
<1>10. \A u \in IntakeThreads : AfterSale!ThreadOK(u)'
  BY <1>1, <1>3, IntakeOthers DEF IntakeCommitted
<1>11. QED
  BY <1>6, <1>7, <1>8, <1>9, <1>10

\* A proposal of the fields, when the intake has none, or of the execution, when
\* the former one is over.
LEMMA IntakeProposes ==
  ASSUME AfterSale!IInv, NEW t \in IntakeThreads, IntakeCommitted(t),
         intakeThread[t].request.command \in {"propose", "propose_execution"}
  PROVE  AfterSale!IInv'
<1> USE IntakeAssumption DEF AfterSale!IInv
<1> DEFINE request == intakeThread[t].request
           n == intake.revision + 1
           makes == request.command = "propose"
           added == [tool |-> IF makes THEN "create" ELSE "execute",
                    field |-> intake.field, status |-> "pending"]
<1>1. /\ request \in AfterSale!Requests /\ intakeThread[t].key \in IntakeKeys
      /\ request.expected = intake.revision
      /\ intake.revision \in Nat /\ n \in AfterSale!Revisions
      /\ AfterSale!Possible(request)
  BY IntakeReads DEF IntakeCommitted
<1>2. intake \in AfterSale!Rows /\ acts \in [AfterSale!Revisions -> ActRecords]
  BY DEF AfterSale!TypeOK, ActRecords
<1>3. /\ intake' \in AfterSale!Rows
      /\ intake'.revision = n /\ intake'.field = intake.field
      /\ intake'.action = IF makes THEN n ELSE intake.action
      /\ intake'.execution = IF makes THEN intake.execution ELSE n
  <2>1. CASE makes
    BY <1>1, <1>2, <2>1
       DEF IntakeCommitted, AfterSale!Changed, AfterSale!Rows
  <2>2. CASE request.command = "propose_execution"
    BY <1>1, <1>2, <2>2
       DEF IntakeCommitted, AfterSale!Changed, AfterSale!Rows
  <2>3. QED
    BY <2>1, <2>2 DEF IntakeCommitted
<1>4. acts' = [acts EXCEPT ![n] = added]
  BY <1>1 DEF IntakeCommitted, AfterSale!Proposed, AfterSale!Retired
<1>5. added \in ActRecords
  BY <1>2 DEF ActRecords, AfterSale!Rows
<1>6. /\ acts' \in [AfterSale!Revisions -> ActRecords] /\ acts'[n] = added
      /\ \A m \in AfterSale!Revisions : m # n => acts'[m] = acts[m]
  BY <1>1, <1>2, <1>4, <1>5
<1>7. AfterSale!TypeOK'
  <2>1. intakeReceipt' \in [IntakeKeys -> AfterSale!Revisions]
    BY <1>1 DEF IntakeCommitted, AfterSale!TypeOK
  <2>2. intakeThread' \in [IntakeThreads -> [pc: {"idle", "commit"}, key: IntakeKeys,
                                             request: AfterSale!Requests]]
    BY IntakeIdle DEF IntakeCommitted, AfterSale!TypeOK
  <2>3. approved' \in BOOLEAN
    BY DEF IntakeCommitted, AfterSale!TypeOK
  <2>4. QED
    BY <1>3, <1>6, <2>1, <2>2, <2>3 DEF AfterSale!TypeOK, ActRecords
<1>8. ASSUME NEW m \in AfterSale!Revisions PROVE AfterSale!ActOK(m)'
  <2>1. m \in Nat
    BY DEF AfterSale!Revisions
  <2>2. CASE m = n
    BY <1>1, <1>3, <1>6, <2>2 DEF AfterSale!ActOK
  <2>3. CASE m # n
    BY <1>1, <1>3, <1>6, <2>1, <2>3 DEF AfterSale!ActOK
  <2>4. QED
    BY <2>2, <2>3
<1>9. AfterSale!RowOK'
  <2>1. /\ intake.action \in Nat /\ intake.execution \in Nat
        /\ intake.action \in AfterSale!Revisions
    BY <1>2 DEF AfterSale!Rows, AfterSale!Revisions
  <2>2. CASE makes
    BY <1>1, <1>3, <1>6, <2>1, <2>2 DEF AfterSale!RowOK
  <2>3. CASE ~makes
    <3>1. intake.action # n
      BY <1>1, <2>1 DEF AfterSale!RowOK
    <3>2. QED
      BY <1>1, <1>3, <1>6, <2>1, <2>3, <3>1 DEF AfterSale!RowOK
  <2>4. QED
    BY <2>2, <2>3
<1>10. AfterSale!ProposalsAreCurrent'
  <2>1. ASSUME NEW m \in AfterSale!Revisions,
               acts'[m].status \notin {"none"} \union AfterSale!Over
        PROVE  \/ /\ acts'[m].tool = "create"
                  /\ intake'.action = m /\ acts'[m].field = intake'.field
               \/ acts'[m].tool = "execute" /\ intake'.execution = m
    <3>1. CASE m = n
      BY <1>3, <1>6, <3>1
    <3>2. CASE m # n
      <4>1. acts'[m] = acts[m]
        BY <1>6, <3>2
      <4>2. m # 0 /\ acts[m].tool \in {"create", "execute"}
        BY <2>1, <4>1 DEF AfterSale!ActOK
      <4>3. CASE acts[m].tool = "create"
        <5>1. intake.action = m /\ acts[m].field = intake.field
          BY <2>1, <4>1, <4>3 DEF AfterSale!ProposalsAreCurrent
        <5>2. ~makes
          BY <1>1, <4>2, <5>1 DEF AfterSale!Possible
        <5>3. QED
          BY <1>3, <4>1, <4>3, <5>1, <5>2
      <4>4. CASE acts[m].tool = "execute"
        <5>1. intake.execution = m
          BY <2>1, <4>1, <4>4 DEF AfterSale!ProposalsAreCurrent
        <5>2. request.command # "propose_execution"
          BY <1>1, <2>1, <4>1, <4>2, <5>1 DEF AfterSale!Possible
        <5>3. QED
          BY <1>3, <4>1, <4>4, <5>1, <5>2
      <4>5. QED
        BY <4>2, <4>3, <4>4
    <3>3. QED
      BY <3>1, <3>2
  <2>2. QED
    BY <2>1 DEF AfterSale!ProposalsAreCurrent
<1>11. \A u \in IntakeThreads : AfterSale!ThreadOK(u)'
  BY <1>1, <1>3, IntakeOthers DEF IntakeCommitted
<1>12. QED
  BY <1>7, <1>8, <1>9, <1>10, <1>11

LEMMA IntakeCommit ==
  ASSUME AfterSale!IInv, NEW t \in IntakeThreads, AfterSale!Commit(t)
  PROVE  AfterSale!IInv'
<1>1. CASE UNCHANGED <<intake, intakeReceipt, acts>>
  BY <1>1, IntakeRefused DEF AfterSale!Commit
<1>2. CASE ~UNCHANGED <<intake, intakeReceipt, acts>>
  <2>1. IntakeCommitted(t)
    BY <1>2 DEF AfterSale!Commit, IntakeCommitted
  <2>2. intakeThread[t].request.command \in AfterSale!Commands
    BY DEF AfterSale!IInv, AfterSale!TypeOK, AfterSale!Requests
  <2>3. QED
    BY <2>1, <2>2, IntakeRetires, IntakeProposes DEF AfterSale!Commands
<1>3. QED
  BY <1>1, <1>2

\* A proposal that is over does not come back.
LEMMA IntakeActionMoves ==
  ASSUME AfterSale!IInv, NEW n \in AfterSale!Revisions, AfterSale!ActionMoves(n)
  PROVE  AfterSale!IInv'
<1> USE IntakeAssumption DEF AfterSale!IInv
<1>1. acts \in [AfterSale!Revisions -> ActRecords]
  BY DEF AfterSale!TypeOK, ActRecords
<1>2. PICK s \in {"confirmed", "executing", "completed", "unknown"} \union AfterSale!Over :
        acts' = [acts EXCEPT ![n].status = s]
  BY DEF AfterSale!ActionMoves
<1>3. acts[n].status \in {"pending", "confirmed", "executing"}
  BY DEF AfterSale!ActionMoves
<1>4. UNCHANGED <<intake, intakeReceipt, approved, intakeThread>>
  BY DEF AfterSale!ActionMoves
<1>5. [acts[n] EXCEPT !.status = s] \in ActRecords
  BY <1>1 DEF ActRecords, AfterSale!Over, AfterSale!Started
<1>6. /\ acts' \in [AfterSale!Revisions -> ActRecords]
      /\ acts'[n].status = s /\ s # "none"
      /\ acts'[n].tool = acts[n].tool /\ acts'[n].field = acts[n].field
      /\ \A m \in AfterSale!Revisions : m # n => acts'[m] = acts[m]
  BY <1>1, <1>2, <1>5 DEF ActRecords, AfterSale!Over
<1>7. AfterSale!TypeOK'
  BY <1>4, <1>6 DEF AfterSale!TypeOK, ActRecords
<1>8. \A m \in AfterSale!Revisions : AfterSale!ActOK(m)'
  BY <1>3, <1>4, <1>6 DEF AfterSale!ActOK
<1>9. AfterSale!RowOK'
  <2>1. intake.action \in AfterSale!Revisions
    BY DEF AfterSale!TypeOK, AfterSale!Rows
  <2>2. QED
    BY <1>3, <1>4, <1>6, <2>1 DEF AfterSale!RowOK
<1>10. AfterSale!ProposalsAreCurrent'
  <2>1. ASSUME NEW m \in AfterSale!Revisions,
               acts'[m].status \notin {"none"} \union AfterSale!Over
        PROVE  \/ /\ acts'[m].tool = "create"
                  /\ intake'.action = m /\ acts'[m].field = intake'.field
               \/ acts'[m].tool = "execute" /\ intake'.execution = m
    <3>1. /\ acts[m].status \notin {"none"} \union AfterSale!Over
          /\ acts'[m].tool = acts[m].tool /\ acts'[m].field = acts[m].field
      BY <1>3, <1>6, <2>1 DEF AfterSale!Over
    <3>2. acts[m].tool \in {"create", "execute"}
      BY <3>1 DEF AfterSale!ActOK
    <3>3. \/ /\ acts[m].tool = "create"
             /\ intake.action = m /\ acts[m].field = intake.field
          \/ acts[m].tool = "execute" /\ intake.execution = m
      BY <3>1, <3>2 DEF AfterSale!ProposalsAreCurrent
    <3>4. QED
      BY <1>4, <3>1, <3>3
  <2>2. QED
    BY <2>1 DEF AfterSale!ProposalsAreCurrent
<1>11. ASSUME NEW u \in IntakeThreads PROVE AfterSale!ThreadOK(u)'
  <2>1. intake.execution \in AfterSale!Revisions
    BY DEF AfterSale!TypeOK, AfterSale!Rows
  <2>2. acts[intake.execution].status \in AfterSale!Over =>
          acts'[intake.execution].status \in AfterSale!Over
    BY <1>3, <1>6, <2>1 DEF AfterSale!Over
  <2>3. QED
    BY <1>4, <2>2 DEF AfterSale!ThreadOK, AfterSale!Fresh, AfterSale!Possible
<1>12. QED
  BY <1>7, <1>8, <1>9, <1>10, <1>11

LEMMA IntakeApprove ==
  ASSUME AfterSale!IInv, AfterSale!Approve
  PROVE  AfterSale!IInv'
<1> USE DEF AfterSale!IInv
<1>1. approved' = TRUE /\ UNCHANGED <<intake, intakeReceipt, acts, intakeThread>>
  BY DEF AfterSale!Approve
<1>2. AfterSale!TypeOK'
  BY <1>1 DEF AfterSale!TypeOK
<1>3. \A u \in IntakeThreads : AfterSale!ThreadOK(u)'
  BY <1>1 DEF AfterSale!ThreadOK, AfterSale!Fresh, AfterSale!Possible
<1>4. QED
  BY <1>1, <1>2, <1>3
     DEF AfterSale!ActOK, AfterSale!RowOK, AfterSale!ProposalsAreCurrent

LEMMA IntakeStep == AfterSale!IInv /\ [AfterSale!Next]_AfterSale!vars => AfterSale!IInv'
<1> SUFFICES ASSUME AfterSale!IInv, [AfterSale!Next]_AfterSale!vars PROVE AfterSale!IInv'
  OBVIOUS
<1>1. CASE UNCHANGED AfterSale!vars
  BY <1>1
     DEF AfterSale!vars, AfterSale!IInv, AfterSale!TypeOK, AfterSale!ActOK,
         AfterSale!ThreadOK, AfterSale!Fresh, AfterSale!Possible, AfterSale!RowOK,
         AfterSale!ProposalsAreCurrent
<1>2. CASE AfterSale!Next
  BY <1>2, IntakeLook, IntakeCommit, IntakeActionMoves, IntakeApprove
     DEF AfterSale!Next
<1>3. QED
  BY <1>1, <1>2

-----------------------------------------------------------------------------
(* What the components promise *)

\* Whatever the requests that share an idempotency key do, fail or repeat, the
\* key's effect happens once and its answer is that of the request that made it
\* (SqlApiIdempotencyService.execute); and a creation key names one case for good in
\* both case stores (create_or_get of the repositories).
THEOREM KeysHold == Api!Spec /\ Creation!Spec => []KeysTakeEffectOnce
<1>1. Api!Spec => []Api!AppliedOnce
  BY ApiInit, ApiStep, ApiOnce, PTL DEF Api!Spec
<1>2. Creation!Spec => []Creation!KeyNamesOneCase
  BY CreationInit, CreationStep, CreationOneCase, PTL DEF Creation!Spec
<1>3. QED
  BY <1>1, <1>2, PTL DEF KeysTakeEffectOnce

\* An order has one open case at most, whichever requests made cases and
\* whichever copies were saved in between (uq_after_sale_active_user_order, the
\* version in save); and in the JSON and SQLite stores one version of the risk
\* rules is active at most, however activations interleave (activate and rollback).
THEOREM ActiveHolds == Creation!Spec /\ Rules!Spec => []ActiveIsUnique
<1>1. Creation!IInv => Creation!OneOpenCasePerOrder
  BY DEF Creation!IInv
<1>2. Creation!Spec => []Creation!OneOpenCasePerOrder
  BY <1>1, CreationInit, CreationStep, PTL DEF Creation!Spec
<1>3. Rules!Spec => []Rules!OneActive
  BY RulesInit, RulesStep, RulesOne, PTL DEF Rules!Spec
<1>4. QED
  BY <1>2, <1>3, PTL DEF ActiveIsUnique

\* The head serves only releases that every planned evaluation has passed once,
\* whatever the administrators that deploy, promote and roll back at the same
\* time have read; and a session that was told a release is told no other one
\* (ConfigurationReleases.deploy, assign).
THEOREM ReleasesHold == Config!Spec => []ReleasesAreSound
<1>1. Config!IInv => ReleasesAreSound
  BY ConfigProven, ConfigSticks DEF ReleasesAreSound
<1>2. QED
  BY <1>1, ConfigInit, ConfigStep, PTL DEF Config!Spec

\* No proposal that a customer can still confirm, or that has started, speaks of
\* fields that the intake has no more, and one execution at most is not over,
\* whatever requests were under way when the row changed
\* (AfterSaleIntake.command).
THEOREM ProposalsHold == AfterSale!Spec => []ProposalsAreCurrent
<1>1. AfterSale!IInv => ProposalsAreCurrent
  BY DEF AfterSale!IInv, ProposalsAreCurrent
<1>2. QED
  BY <1>1, IntakeInit, IntakeStep, PTL DEF AfterSale!Spec

=============================================================================
