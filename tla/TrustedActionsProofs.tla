------------------------ MODULE TrustedActionsProofs ------------------------
(***************************************************************************)
(* IInv of TrustedActions is inductive for any number of threads, actions, *)
(* tool calls and snapshots.  The argument: a working thread owns its      *)
(* executing action alone, so what it knows about the action only changes  *)
(* by its own steps (Kept); a takeover finds no executing action and       *)
(* leaves no usable consent.                                               *)
(***************************************************************************)
EXTENDS TrustedActions, TLAPS

Statuses == OPEN \union STARTED \union WITHDRAWN \union {"none"}

\* What thread u relies on is still there.
Kept(u) ==
  /\ th'[u] = th[u]
  /\ th[u].id # 0 =>
       LET a == th[u].id
       IN  /\ act'[a].status # "none"
           /\ act'[a].args = act[a].args
           /\ act'[a].version = act[a].version
           /\ Working(u) => /\ act'[a].status = "executing"
                            /\ dispatched'[a] = dispatched[a]
                            /\ since[a] \subseteq since'[a]

\* The types of one row and of one thread.
LEMMA Types ==
  ASSUME TypeOK
  PROVE  /\ \A a \in Ids :
              /\ act[a] \in Rows
              /\ act[a].status \in Statuses
              /\ act[a].args \in Args \union {NoArgs}
              /\ act[a].version \in Versions \union {NoVersion}
              /\ act[a].expired \in BOOLEAN
              /\ act[a].result \in Results
              /\ consent[a] \in Nat
              /\ dispatched[a] \in Nat
         /\ \A t \in Threads :
              /\ th[t] \in ThreadStates
              /\ th[t].pc \in Pcs
              /\ th[t].args \in Args \union {NoArgs}
              /\ th[t].id \in Ids \union {0}
              /\ th[t].seen \in Statuses
              /\ th[t].version \in Versions \union {NoVersion}
              /\ th[t].result \in Results
BY DEF TypeOK, Rows, ThreadStates, Statuses

\* A thread whose action is kept stays in order.
LEMMA KeptThread ==
  ASSUME IInv, NEW u \in Threads, Kept(u)
  PROVE  ThreadOK(u)'
<1>1. ThreadOK(u) /\ th[u].id \in Ids \union {0}
  BY Types DEF IInv
<1> QED
  BY <1>1 DEF ThreadOK, Kept, Working, Made

\* A step of one thread, all others keep what they rely on: it is enough to
\* look at the thread that moves.
LEMMA OneMoves ==
  ASSUME IInv, NEW t \in Threads, NEW s \in ThreadStates,
         th' = [th EXCEPT ![t] = s],
         \A u \in Threads : u # t => Kept(u),
         ThreadOK(t)',
         s.pc \in {"reread", "dispatch", "finish"} =>
           \/ Working(t) /\ th[t].id = s.id
           \/ \A u \in Threads : Working(u) => th[u].id # s.id
  PROVE  /\ th' \in [Threads -> ThreadStates]
         /\ \A u \in Threads : ThreadOK(u)'
         /\ \A u, v \in Threads : Alone(u, v)'
<1>1. th \in [Threads -> ThreadStates]
  BY DEF IInv, TypeOK
<1>2. th'[t] = s /\ \A u \in Threads : u # t => th'[u] = th[u]
  BY <1>1
<1>3. th' \in [Threads -> ThreadStates]
  BY <1>1
<1>4. \A u \in Threads : ThreadOK(u)'
  BY KeptThread
<1>5. ASSUME NEW u \in Threads, NEW v \in Threads PROVE Alone(u, v)'
  <2>1. Alone(u, v) /\ Alone(t, u) /\ Alone(t, v) /\ Alone(u, t) /\ Alone(v, t)
    BY DEF IInv
  <2>2. CASE u = t /\ v = t
    BY <2>2 DEF Alone
  <2>3. CASE u = t /\ v # t
    BY <1>2, <2>1, <2>3 DEF Alone, Working
  <2>4. CASE u # t /\ v = t
    BY <1>2, <2>1, <2>4 DEF Alone, Working
  <2>5. CASE u # t /\ v # t
    BY <1>2, <2>1, <2>5 DEF Alone, Working
  <2> QED
    BY <2>2, <2>3, <2>4, <2>5
<1> QED
  BY <1>3, <1>4, <1>5

\* A step that changes nothing but the state of one thread.
LEMMA OnlyThread ==
  ASSUME IInv, NEW t \in Threads, NEW s \in ThreadStates,
         th' = [th EXCEPT ![t] = s],
         UNCHANGED <<act, consent, own, biz, dispatched, since>>,
         ThreadOK(t)',
         s.pc \in {"reread", "dispatch", "finish"} =>
           Working(t) /\ th[t].id = s.id
  PROVE  IInv'
<1>1. \A u \in Threads : u # t => Kept(u)
  BY Types DEF IInv, TypeOK, Kept, ThreadOK, Made, Working
<1>2. /\ th' \in [Threads -> ThreadStates]
      /\ \A u \in Threads : ThreadOK(u)'
      /\ \A u, v \in Threads : Alone(u, v)'
  BY <1>1, OneMoves
<1>3. TypeOK'
  BY <1>2 DEF IInv, TypeOK
<1>4. \A a \in Ids : RowOK(a)' /\ ConsentOK(a)' /\ SinceOK(a)'
  BY DEF IInv, RowOK, ConsentOK, SinceOK, Made
<1> QED
  BY <1>2, <1>3, <1>4 DEF IInv

\* A thread that stops relies on nothing.
LEMMA IdleOK ==
  ASSUME NEW t \in Threads, th'[t] = IdleThread
  PROVE  ThreadOK(t)' /\ IdleThread \in ThreadStates
BY DEF IdleThread, At, ThreadOK, Working, Made, ThreadStates, Pcs, Results

\* A thread that sets out with an action or without one.
LEMMA AtType ==
  ASSUME NEW p \in Pcs, NEW x \in Args, NEW a \in Ids \union {0}
  PROVE  At(p, x, a) \in ThreadStates
BY DEF At, ThreadStates, Results

-----------------------------------------------------------------------------
(* Steps of a thread that change nothing else *)

\* The Agent's tool call.
LEMMA CallStep ==
  ASSUME IInv, NEW t \in Threads, NEW x \in Args, Call(t, x)
  PROVE  IInv'
<1> DEFINE s == At("snapshot", x, 0)
<1>1. s \in ThreadStates
  BY AtType DEF Pcs
<1>2. th' = [th EXCEPT ![t] = s]
      /\ UNCHANGED <<act, consent, own, biz, dispatched, since>>
  BY DEF Call
<1>3. th'[t] = s
  BY <1>2 DEF IInv, TypeOK
<1>4. ThreadOK(t)' /\ s.pc = "snapshot"
  BY <1>3 DEF At, ThreadOK, Working, Made
<1> QED
  BY <1>1, <1>2, <1>4, OnlyThread

\* CallAction and AskConfirm: the thread takes the arguments of the action.
LEMMA ActionCallStep ==
  ASSUME IInv, NEW t \in Threads, NEW a \in Ids,
         CallAction(t, a) \/ AskConfirm(t, a)
  PROVE  IInv'
<1>1. PICK p \in {"snapshot", "confirmSnapshot"} :
        /\ th' = [th EXCEPT ![t] = At(p, act[a].args, a)]
        /\ Made(a)
        /\ UNCHANGED <<act, consent, own, biz, dispatched, since>>
  BY DEF CallAction, AskConfirm
<1> DEFINE s == At(p, act[a].args, a)
<1>2. act[a].args \in Args
  BY <1>1 DEF IInv, RowOK
<1>3. s \in ThreadStates
  BY <1>2, AtType DEF Pcs
<1>4. th'[t] = s
  BY <1>1 DEF IInv, TypeOK
<1>5. a # 0 /\ s.pc = p /\ s.id = a /\ s.args = act[a].args
  BY DEF Ids, At
<1>6. act' = act
  BY <1>1
<1>7. ThreadOK(t)'
  BY <1>1, <1>2, <1>4, <1>5, <1>6 DEF ThreadOK, Working, Made
<1> QED
  BY <1>1, <1>3, <1>5, <1>7, OnlyThread

\* The read of the business state.
LEMMA SnapshotStep ==
  ASSUME IInv, NEW t \in Threads, Snapshot(t)
  PROVE  IInv'
<1> DEFINE s == [th[t] EXCEPT !.version = biz[th[t].args],
                              !.pc = IF th[t].pc = "snapshot" THEN "row"
                                     ELSE "confirm"]
<1>1. th[t].args \in Args /\ th[t] \in ThreadStates
      /\ th[t].pc \in {"snapshot", "confirmSnapshot"}
  BY Types DEF IInv, ThreadOK, Snapshot
<1>2. s \in ThreadStates
  BY <1>1 DEF IInv, TypeOK, ThreadStates, Pcs
<1>3. th' = [th EXCEPT ![t] = s]
  BY DEF IInv, TypeOK, ThreadStates, Snapshot
<1>4. th'[t] = s
  BY <1>3 DEF IInv, TypeOK
<1>5. /\ s.pc = IF th[t].pc = "snapshot" THEN "row" ELSE "confirm"
      /\ s.id = th[t].id /\ s.args = th[t].args
  BY <1>1 DEF ThreadStates
<1>6. UNCHANGED <<act, consent, own, biz, dispatched, since>>
  BY DEF Snapshot
<1>7. ThreadOK(t)
  BY DEF IInv
<1> HIDE DEF s
<1>8. ThreadOK(t)'
  BY <1>1, <1>4, <1>5, <1>6, <1>7 DEF ThreadOK, Working, Made
<1> QED
  BY <1>1, <1>2, <1>3, <1>5, <1>6, <1>8, OnlyThread

\* ReadRow and ReuseProposal: a row of the thread's arguments.
LEMMA GetRowStep ==
  ASSUME IInv, NEW t \in Threads, ReadRow(t) \/ ReuseProposal(t)
  PROVE  IInv'
<1>1. PICK a \in Ids : /\ GetRow(t, a)
                       /\ Made(a)
                       /\ act[a].args = th[t].args
  <2>1. CASE ReadRow(t)
    BY <2>1, Types DEF IInv, ThreadOK, ReadRow
  <2>2. CASE ReuseProposal(t)
    BY <2>2 DEF ReuseProposal, Latest, Same
  <2> QED
    BY <2>1, <2>2
<1> DEFINE s == [th[t] EXCEPT !.pc = "validate", !.id = a,
                              !.seen = act[a].status]
<1>2. th[t] \in ThreadStates /\ act[a].status \in Statuses /\ th[t].pc = "row"
  BY Types DEF IInv, ReadRow, ReuseProposal
<1>3. s \in ThreadStates
  BY <1>2 DEF ThreadStates, Pcs, Statuses
<1>4. th' = [th EXCEPT ![t] = s]
  BY <1>1 DEF IInv, TypeOK, ThreadStates, GetRow
<1>5. th'[t] = s
  BY <1>4 DEF IInv, TypeOK
<1>6. s.pc = "validate" /\ s.id = a /\ s.args = th[t].args /\ a # 0
  BY <1>2 DEF ThreadStates, Ids
<1>7. UNCHANGED <<act, consent, own, biz, dispatched, since>>
  BY DEF ReadRow, ReuseProposal
<1>8. ThreadOK(t)
  BY DEF IInv
<1> HIDE DEF s
<1>9. ThreadOK(t)'
  BY <1>1, <1>2, <1>5, <1>6, <1>7, <1>8 DEF ThreadOK, Working, Made
<1> QED
  BY <1>3, <1>4, <1>6, <1>7, <1>9, OnlyThread

\* The second read, after the claim, finds what the customer confirmed.
LEMMA RereadStep ==
  ASSUME IInv, NEW t \in Threads, Reread(t)
  PROVE  IInv'
<1> DEFINE s == [th[t] EXCEPT !.pc = "dispatch"]
<1>1. /\ th[t] \in ThreadStates /\ th[t].pc = "reread"
      /\ th[t].id \in Ids /\ ThreadOK(t) /\ Working(t)
  BY Types DEF IInv, ThreadOK, Reread, Working
<1>2. s \in ThreadStates /\ s.pc = "dispatch" /\ s.id = th[t].id
      /\ s.args = th[t].args
  BY <1>1 DEF ThreadStates, Pcs
<1>3. th' = [th EXCEPT ![t] = s]
      /\ UNCHANGED <<act, consent, own, biz, dispatched, since>>
  BY DEF IInv, TypeOK, ThreadStates, Reread, Goto
<1>4. th'[t] = s
  BY <1>3 DEF IInv, TypeOK
<1>5. act[th[t].id].version = biz[th[t].args]
  BY DEF Reread, Refusal
<1>6. act[th[t].id].version \in since[th[t].id]
  BY <1>1, <1>5 DEF IInv, SinceOK, ThreadOK
<1> HIDE DEF s
<1>7. ThreadOK(t)'
  BY <1>1, <1>2, <1>3, <1>4, <1>6 DEF ThreadOK, Working, Made
<1> QED
  BY <1>1, <1>2, <1>3, <1>7, OnlyThread

\* The call is refused after the claim.
LEMMA RefuseStep ==
  ASSUME IInv, NEW t \in Threads, Refuse(t)
  PROVE  IInv'
<1>1. PICK res \in {"refused", "unknown"} :
        th' = [th EXCEPT ![t].pc = "finish", ![t].result = res]
  BY DEF Refuse
<1> DEFINE s == [th[t] EXCEPT !.pc = "finish", !.result = res]
<1>2. /\ th[t] \in ThreadStates /\ th[t].pc \in {"reread", "dispatch"}
      /\ ThreadOK(t) /\ Working(t)
  BY Types DEF IInv, Refuse, Working
<1>3. /\ s \in ThreadStates /\ s.pc = "finish" /\ s.id = th[t].id
      /\ s.args = th[t].args /\ s.result = res
  BY <1>2 DEF ThreadStates, Pcs, Results
<1>4. th' = [th EXCEPT ![t] = s]
  BY <1>1 DEF IInv, TypeOK, ThreadStates
<1>5. th'[t] = s /\ UNCHANGED <<act, consent, own, biz, dispatched, since>>
  BY <1>4 DEF IInv, TypeOK, Refuse
<1> HIDE DEF s
<1>6. ThreadOK(t)'
  BY <1>2, <1>3, <1>5 DEF ThreadOK, Working, Made
<1> QED
  BY <1>2, <1>3, <1>4, <1>5, <1>6, OnlyThread

\* The call ends without a trace.
LEMMA StopStep ==
  ASSUME IInv, NEW t \in Threads, Stop(t)
  PROVE  IInv'
<1>1. th' = [th EXCEPT ![t] = IdleThread]
      /\ UNCHANGED <<act, consent, own, biz, dispatched, since>>
  BY DEF Stop, Leave
<1>2. th'[t] = IdleThread /\ IdleThread.pc = "idle"
  BY <1>1 DEF IInv, TypeOK, IdleThread, At
<1> QED
  BY <1>1, <1>2, IdleOK, OnlyThread

-----------------------------------------------------------------------------
(* Steps that withdraw actions *)

\* No thread moves, and each keeps what it relies on.
LEMMA NobodyMoves ==
  ASSUME IInv, th' = th, \A u \in Threads : Kept(u)
  PROVE  /\ \A u \in Threads : ThreadOK(u)'
         /\ \A u, v \in Threads : Alone(u, v)'
<1>1. \A u \in Threads : ThreadOK(u)'
  BY KeptThread
<1>2. \A u, v \in Threads : Alone(u, v)'
  BY DEF IInv, Alone, Working
<1> QED
  BY <1>1, <1>2

\* A withdrawal touches no claimed action, and no thread relies on another.
LEMMA Withdrawal ==
  ASSUME IInv, NEW A, NEW s \in WITHDRAWN, Withdraw(A, s),
         UNCHANGED <<consent, biz, dispatched, since>>
  PROVE  /\ act' \in [Ids -> Rows]
         /\ \A a \in Ids : RowOK(a)' /\ SinceOK(a)'
         /\ \A a \in Ids : act'[a].status \notin WITHDRAWN => act'[a] = act[a]
         /\ \A a \in A \intersect Ids : act'[a].status \notin OPEN
         /\ \A u \in Threads : th'[u] = th[u] => Kept(u)
<1>1. \A a \in Ids : act'[a] = IF a \in A /\ act[a].status \in OPEN
                                 THEN [act[a] EXCEPT !.status = s] ELSE act[a]
  BY DEF Withdraw
<1>2. \A a \in Ids : act'[a] \in Rows
  BY <1>1, Types DEF IInv, Rows
<1>3. act' \in [Ids -> Rows]
  BY <1>2 DEF Withdraw
<1>4. ASSUME NEW a \in Ids
      PROVE  /\ act'[a].args = act[a].args
             /\ act'[a].version = act[a].version
             /\ act'[a].result = act[a].result
             /\ \/ act'[a] = act[a] /\ (a \in A => act[a].status \notin OPEN)
                \/ act[a].status \in OPEN /\ act'[a].status = s
  <2>1. act[a] \in Rows
    BY Types DEF IInv
  <2>2. CASE a \in A /\ act[a].status \in OPEN
    BY <1>1, <2>1, <2>2 DEF Rows
  <2>3. CASE ~(a \in A /\ act[a].status \in OPEN)
    BY <1>1, <2>3
  <2> QED
    BY <2>2, <2>3
<1>5. s \notin OPEN /\ s \notin STARTED /\ s # "none"
  BY DEF WITHDRAWN, OPEN, STARTED
<1>6. ASSUME NEW a \in Ids PROVE RowOK(a)' /\ SinceOK(a)'
  <2>1. RowOK(a) /\ SinceOK(a)
    BY DEF IInv
  <2>2. CASE act'[a] = act[a]
    BY <2>1, <2>2 DEF RowOK, SinceOK, Made
  <2>3. CASE act[a].status \in OPEN /\ act'[a].status = s
    <3>1. act[a].status \notin STARTED /\ act[a].status # "none"
      BY <2>3 DEF OPEN, STARTED
    <3>2. dispatched[a] = 0 /\ act[a].args \in Args
      BY <2>1, <3>1 DEF RowOK, Made
    <3>3. s # "confirmed" /\ s # "executing" /\ s # "completed"
      BY <1>5 DEF OPEN, STARTED
    <3> QED
      BY <1>4, <1>5, <2>3, <3>2, <3>3 DEF RowOK, SinceOK, Made
  <2> QED
    BY <1>4, <2>2, <2>3
<1>7. \A a \in Ids : act'[a].status \notin WITHDRAWN => act'[a] = act[a]
  BY <1>4
<1>8. \A a \in A \intersect Ids : act'[a].status \notin OPEN
  BY <1>4, <1>5
<1>9. ASSUME NEW u \in Threads, th'[u] = th[u] PROVE Kept(u)
  <2>1. ThreadOK(u) /\ th[u].id \in Ids \union {0}
    BY Types DEF IInv
  <2>2. CASE th[u].id = 0
    BY <1>9, <2>2 DEF Kept
  <2>3. CASE th[u].id \in Ids
    <3>1. /\ act[th[u].id].status # "none" => act'[th[u].id].status # "none"
          /\ act[th[u].id].status = "executing" =>
               act'[th[u].id].status = "executing"
      BY <1>4, <1>5, <2>3 DEF OPEN
    <3> QED
      BY <1>4, <1>9, <2>1, <2>3, <3>1 DEF Kept, ThreadOK, Made, Working
  <2> QED
    BY <2>1, <2>2, <2>3
<1> QED
  BY <1>3, <1>6, <1>7, <1>8, <1>9

\* reject and revoke_scope.
LEMMA RevokeStep ==
  ASSUME IInv, NEW A \in SUBSET Ids, Revoke(A)
  PROVE  IInv'
<1>1. /\ Withdraw(A, "rejected") /\ "rejected" \in WITHDRAWN
      /\ UNCHANGED <<consent, own, biz, th, dispatched, since>>
  BY DEF Revoke, WITHDRAWN
<1>2. /\ act' \in [Ids -> Rows]
      /\ \A a \in Ids : RowOK(a)' /\ SinceOK(a)'
      /\ \A a \in Ids : act'[a].status \notin WITHDRAWN => act'[a] = act[a]
      /\ \A u \in Threads : Kept(u)
  BY <1>1, Withdrawal
<1>3. /\ \A u \in Threads : ThreadOK(u)'
      /\ \A u, v \in Threads : Alone(u, v)'
  BY <1>1, <1>2, NobodyMoves
<1>4. /\ \A a \in Ids : ConsentOK(a)'
      /\ own'.human => \A a \in Ids : act'[a].status # "executing"
  BY <1>1, <1>2 DEF IInv, ConsentOK, WITHDRAWN
<1>5. TypeOK'
  BY <1>1, <1>2 DEF IInv, TypeOK
<1> QED
  BY <1>2, <1>3, <1>4, <1>5 DEF IInv

\* A takeover leaves no action that could still be claimed.
LEMMA TakeOverStep ==
  ASSUME IInv, TakeOver
  PROVE  IInv'
<1>1. /\ Withdraw(Ids, "invalidated") /\ "invalidated" \in WITHDRAWN
      /\ UNCHANGED <<consent, biz, th, dispatched, since>>
      /\ own' = [human |-> TRUE, version |-> own.version + 1]
      /\ \A a \in Ids : act[a].status # "executing"
  BY DEF TakeOver, WITHDRAWN
<1>2. /\ act' \in [Ids -> Rows]
      /\ \A a \in Ids : RowOK(a)' /\ SinceOK(a)'
      /\ \A a \in Ids : act'[a].status \notin WITHDRAWN => act'[a] = act[a]
      /\ \A a \in Ids : act'[a].status \notin OPEN
      /\ \A u \in Threads : Kept(u)
  BY <1>1, Withdrawal
<1>3. /\ \A u \in Threads : ThreadOK(u)'
      /\ \A u, v \in Threads : Alone(u, v)'
  BY <1>1, <1>2, NobodyMoves
<1>4. \A a \in Ids : act'[a].status # "executing" /\ act'[a].status # "confirmed"
  BY <1>1, <1>2 DEF WITHDRAWN, OPEN
<1>5. own' \in [human: BOOLEAN, version: Nat \ {0}]
  BY <1>1 DEF IInv, TypeOK
<1>6. TypeOK'
  BY <1>1, <1>2, <1>5 DEF IInv, TypeOK
<1> QED
  BY <1>2, <1>3, <1>4, <1>6 DEF IInv, ConsentOK

\* What validate() and its caller do, for a tool call and for a confirmation.
LEMMA CheckedStep ==
  ASSUME IInv, NEW t \in Threads, NEW seen, NEW wanted,
         NEW next \in {"claim", "commit"},
         th[t].id \in Ids, th[t].args \in Args,
         Checked(t, seen, wanted, next),
         UNCHANGED <<consent, own, biz, dispatched, since>>
  PROVE  IInv'
<1> DEFINE a == th[t].id
           s == At(next, th[t].args, a)
<1>1. \/ th' = [th EXCEPT ![t] = s]
      \/ th' = [th EXCEPT ![t] = IdleThread]
  BY DEF Checked, Leave
<1>2. \/ UNCHANGED act
      \/ \E r \in WITHDRAWN : Withdraw({a}, r)
  BY DEF Checked, Refusal, WITHDRAWN
<1>3. /\ act' \in [Ids -> Rows]
      /\ \A b \in Ids : RowOK(b)' /\ SinceOK(b)'
      /\ \A b \in Ids : act'[b].status \notin WITHDRAWN => act'[b] = act[b]
      /\ \A u \in Threads : th'[u] = th[u] => Kept(u)
  <2>1. CASE UNCHANGED act
    <3>1. \A u \in Threads : th'[u] = th[u] => Kept(u)
      BY <2>1 DEF IInv, ThreadOK, Kept, Made, Working
    <3> QED
      BY <2>1, <3>1 DEF IInv, TypeOK, RowOK, SinceOK, Made
  <2>2. CASE \E r \in WITHDRAWN : Withdraw({a}, r)
    BY <2>2, Withdrawal
  <2> QED
    BY <1>2, <2>1, <2>2
<1>4. act'[a].status # "none" /\ act'[a].args = th[t].args
  <2>1. a # 0 /\ act[a].status # "none" /\ act[a].args = th[t].args
    BY DEF Ids, IInv, ThreadOK, Made
  <2>2. CASE UNCHANGED act
    BY <2>1, <2>2
  <2>3. CASE \E r \in WITHDRAWN : Withdraw({a}, r)
    <3>1. PICK r \in WITHDRAWN : Withdraw({a}, r)
      BY <2>3
    <3>2. act'[a] = IF act[a].status \in OPEN THEN [act[a] EXCEPT !.status = r]
                    ELSE act[a]
      BY <3>1 DEF Withdraw
    <3>3. act[a] \in Rows
      BY Types DEF IInv
    <3> QED
      BY <2>1, <3>2, <3>3 DEF Rows, WITHDRAWN
  <2> QED
    BY <1>2, <2>2, <2>3
<1>5. /\ th' \in [Threads -> ThreadStates]
      /\ \A u \in Threads : ThreadOK(u)'
      /\ \A u, v \in Threads : Alone(u, v)'
  <2>1. \A u \in Threads : u # t => Kept(u)
    BY <1>1, <1>3 DEF IInv, TypeOK
  <2>2. CASE th' = [th EXCEPT ![t] = IdleThread]
    <3>1. th'[t] = IdleThread /\ IdleThread.pc = "idle"
      BY <2>2 DEF IInv, TypeOK, IdleThread, At
    <3> QED
      BY <2>1, <2>2, <3>1, IdleOK, OneMoves
  <2>3. CASE th' = [th EXCEPT ![t] = s]
    <3>1. s \in ThreadStates /\ s.pc = next /\ s.id = a /\ s.args = th[t].args
      <4>1. next \in Pcs
        BY DEF Pcs
      <4> QED
        BY <4>1, AtType DEF At
    <3>2. th'[t] = s /\ a # 0
      BY <2>3 DEF IInv, TypeOK, Ids
    <3> HIDE DEF s
    <3>3. ThreadOK(t)'
      BY <1>4, <3>1, <3>2 DEF ThreadOK, Working, Made
    <3>4. s.pc \notin {"reread", "dispatch", "finish"}
      BY <3>1
    <3> QED
      BY <2>1, <2>3, <3>1, <3>3, <3>4, OneMoves
  <2> QED
    BY <1>1, <2>2, <2>3
<1>6. /\ \A b \in Ids : ConsentOK(b)'
      /\ own'.human => \A b \in Ids : act'[b].status # "executing"
  BY <1>3 DEF IInv, ConsentOK, WITHDRAWN
<1>7. TypeOK'
  BY <1>3, <1>5 DEF IInv, TypeOK
<1> QED
  BY <1>3, <1>5, <1>6, <1>7 DEF IInv

\* Validate and ConfirmChecks.
LEMMA ValidateStep ==
  ASSUME IInv, NEW t \in Threads, Validate(t) \/ ConfirmChecks(t)
  PROVE  IInv'
<1>1. th[t].id \in Ids /\ th[t].args \in Args
  BY Types DEF IInv, ThreadOK, Validate, ConfirmChecks
<1>2. CASE Validate(t)
  BY <1>1, <1>2, CheckedStep DEF Validate
<1>3. CASE ConfirmChecks(t)
  BY <1>1, <1>3, CheckedStep DEF ConfirmChecks
<1> QED
  BY <1>2, <1>3

-----------------------------------------------------------------------------
(* Steps that change one action *)

\* One row changes, and not what a thread working on it relies on.
LEMMA RowMoves ==
  ASSUME IInv, NEW a \in Ids, NEW r \in Rows, act' = [act EXCEPT ![a] = r],
         r.args = act[a].args, r.version = act[a].version,
         Made(a) => r.status # "none",
         dispatched' = dispatched,
         \A b \in Ids : act[b].status = "executing" => since[b] \subseteq since'[b],
         NEW u \in Threads, th'[u] = th[u],
         Working(u) /\ th[u].id = a => r.status = "executing"
  PROVE  Kept(u)
<1>1. ThreadOK(u) /\ th[u].id \in Ids \union {0}
  BY Types DEF IInv
<1>2. act'[a] = r /\ \A b \in Ids : b # a => act'[b] = act[b]
  BY DEF IInv, TypeOK
<1>3. CASE th[u].id = 0
  BY <1>3 DEF Kept
<1>4. CASE th[u].id \in Ids /\ th[u].id = a
  BY <1>1, <1>2, <1>4 DEF Kept, ThreadOK, Made
<1>5. CASE th[u].id \in Ids /\ th[u].id # a
  BY <1>1, <1>2, <1>5 DEF Kept, ThreadOK, Made
<1> QED
  BY <1>1, <1>3, <1>4, <1>5

\* An operator's revision.
LEMMA ReviseStep ==
  ASSUME IInv, NEW a \in Ids, Revise(a)
  PROVE  IInv'
<1> DEFINE r == [act[a] EXCEPT !.status = "invalidated"]
<1>1. act[a] \in Rows /\ act[a].status \notin STARTED /\ Made(a)
  BY Types DEF IInv, Revise
<1>2. /\ r \in Rows /\ r.status = "invalidated" /\ r.args = act[a].args
      /\ r.version = act[a].version
  BY <1>1 DEF Rows, WITHDRAWN
<1>3. act' = [act EXCEPT ![a] = r]
      /\ UNCHANGED <<consent, own, biz, th, dispatched, since>>
  BY DEF Revise, IInv, TypeOK
<1>4. act'[a] = r /\ \A b \in Ids : b # a => act'[b] = act[b]
  BY <1>3 DEF IInv, TypeOK
<1>5. \A u \in Threads : Working(u) => th[u].id # a
  BY <1>1 DEF IInv, ThreadOK, STARTED
<1> HIDE DEF r
<1>6. \A u \in Threads : Kept(u)
  BY <1>1, <1>2, <1>3, <1>5, RowMoves
<1>7. /\ \A u \in Threads : ThreadOK(u)'
      /\ \A u, v \in Threads : Alone(u, v)'
  BY <1>3, <1>6, NobodyMoves
<1>8. ASSUME NEW b \in Ids
      PROVE  RowOK(b)' /\ ConsentOK(b)' /\ SinceOK(b)'
  <2>1. RowOK(b) /\ ConsentOK(b) /\ SinceOK(b)
    BY DEF IInv
  <2>2. CASE b = a
    BY <1>1, <1>2, <1>3, <1>4, <2>1, <2>2
    DEF RowOK, ConsentOK, SinceOK, Made, STARTED
  <2>3. CASE b # a
    BY <1>3, <1>4, <2>1, <2>3 DEF RowOK, ConsentOK, SinceOK, Made
  <2> QED
    BY <2>2, <2>3
<1>9. own'.human => \A b \in Ids : act'[b].status # "executing"
  BY <1>2, <1>3, <1>4 DEF IInv
<1>10. TypeOK'
  BY <1>2, <1>3 DEF IInv, TypeOK
<1> QED
  BY <1>7, <1>8, <1>9, <1>10 DEF IInv

\* The time of a proposal runs out.
LEMMA ExpireStep ==
  ASSUME IInv, NEW a \in Ids, Expire(a)
  PROVE  IInv'
<1> DEFINE r == [act[a] EXCEPT !.expired = TRUE]
<1>1. act[a] \in Rows
  BY Types DEF IInv
<1>2. /\ r \in Rows /\ r.status = act[a].status /\ r.args = act[a].args
      /\ r.version = act[a].version /\ r.result = act[a].result
  BY <1>1 DEF Rows
<1>3. act' = [act EXCEPT ![a] = r]
      /\ UNCHANGED <<consent, own, biz, th, dispatched, since>>
  BY DEF Expire, IInv, TypeOK
<1>4. act'[a] = r /\ \A b \in Ids : b # a => act'[b] = act[b]
  BY <1>3 DEF IInv, TypeOK
<1> HIDE DEF r
<1>5. \A u \in Threads : Working(u) /\ th[u].id = a => r.status = "executing"
  BY <1>2 DEF IInv, ThreadOK
<1>6. \A u \in Threads : Kept(u)
  BY <1>2, <1>3, <1>5, RowMoves DEF Made
<1>7. /\ \A u \in Threads : ThreadOK(u)'
      /\ \A u, v \in Threads : Alone(u, v)'
  BY <1>3, <1>6, NobodyMoves
<1>8. ASSUME NEW b \in Ids
      PROVE  RowOK(b)' /\ ConsentOK(b)' /\ SinceOK(b)'
  <2>1. RowOK(b) /\ ConsentOK(b) /\ SinceOK(b)
    BY DEF IInv
  <2>2. /\ act'[b].status = act[b].status /\ act'[b].args = act[b].args
        /\ act'[b].version = act[b].version /\ act'[b].result = act[b].result
    BY <1>2, <1>4
  <2> QED
    BY <1>3, <2>1, <2>2 DEF RowOK, ConsentOK, SinceOK, Made
<1>9. own'.human => \A b \in Ids : act'[b].status # "executing"
  BY <1>2, <1>3, <1>4 DEF IInv
<1>10. TypeOK'
  BY <1>2, <1>3 DEF IInv, TypeOK
<1> QED
  BY <1>7, <1>8, <1>9, <1>10 DEF IInv

\* The customer's confirmation is recorded with the ownership of the moment.
LEMMA ConfirmStep ==
  ASSUME IInv, NEW t \in Threads, ConfirmCommits(t)
  PROVE  IInv'
<1> DEFINE a == th[t].id
           r == [act[a] EXCEPT !.status = "confirmed"]
<1>1. a \in Ids
  BY Types DEF IInv, ThreadOK, ConfirmCommits
<1>2. /\ th' = [th EXCEPT ![t] = IdleThread]
      /\ th'[t] = IdleThread
      /\ IdleThread.pc = "idle"
      /\ \A u \in Threads : u # t => th'[u] = th[u]
      /\ UNCHANGED <<own, biz, dispatched, since>>
  BY DEF ConfirmCommits, Leave, IInv, TypeOK, IdleThread, At
<1>3. CASE act[a].status = "pending" /\ ~act[a].expired
  <2>1. /\ act' = [act EXCEPT ![a] = r]
        /\ consent' = [consent EXCEPT ![a] = own.version]
    BY <1>3 DEF ConfirmCommits, IInv, TypeOK
  <2>2. act[a] \in Rows
    BY <1>1, Types DEF IInv
  <2>3. /\ r \in Rows /\ r.status = "confirmed" /\ r.args = act[a].args
        /\ r.version = act[a].version
    BY <2>2 DEF Rows, OPEN
  <2>4. /\ act'[a] = r /\ consent'[a] = own.version
        /\ \A b \in Ids : b # a => act'[b] = act[b] /\ consent'[b] = consent[b]
    BY <1>1, <2>1 DEF IInv, TypeOK
  <2>5. own.version \in Nat \ {0} /\ own.human \in BOOLEAN
    BY DEF IInv, TypeOK
  <2> HIDE DEF r
  <2>6. \A u \in Threads : Working(u) => th[u].id # a
    BY <1>3 DEF IInv, ThreadOK
  <2>7. \A u \in Threads : u # t => Kept(u)
    BY <1>1, <1>2, <2>1, <2>3, <2>6, RowMoves
  <2>8. /\ th' \in [Threads -> ThreadStates]
        /\ \A u \in Threads : ThreadOK(u)'
        /\ \A u, v \in Threads : Alone(u, v)'
    BY <1>2, <2>7, IdleOK, OneMoves
  <2>9. ASSUME NEW b \in Ids
        PROVE  RowOK(b)' /\ ConsentOK(b)' /\ SinceOK(b)'
    <3>1. RowOK(b) /\ ConsentOK(b) /\ SinceOK(b)
      BY DEF IInv
    <3>2. CASE b = a
      <4>1. act[a].status \notin STARTED /\ act[a].status # "none"
        BY <1>3 DEF STARTED
      <4>2. dispatched[a] = 0 /\ act[a].args \in Args
        BY <3>1, <3>2, <4>1 DEF RowOK, Made
      <4>3. /\ act'[b].status = "confirmed" /\ act'[b].args \in Args
            /\ consent'[b] = own.version /\ dispatched'[b] = 0
        BY <1>2, <2>3, <2>4, <3>2, <4>2
      <4>4. own' = own /\ consent'[b] # 0
        BY <1>2, <2>5, <4>3
      <4>5. ConsentOK(b)'
        BY <2>5, <4>3, <4>4 DEF ConsentOK
      <4> QED
        BY <4>3, <4>4, <4>5 DEF RowOK, SinceOK, Made, STARTED
    <3>3. CASE b # a
      BY <1>2, <2>4, <3>1, <3>3 DEF RowOK, ConsentOK, SinceOK, Made
    <3> QED
      BY <3>2, <3>3
  <2>10. own'.human => \A b \in Ids : act'[b].status # "executing"
    BY <1>2, <2>3, <2>4 DEF IInv
  <2>11. TypeOK'
    BY <1>2, <2>1, <2>3, <2>5, <2>8 DEF IInv, TypeOK
  <2> QED
    BY <2>8, <2>9, <2>10, <2>11 DEF IInv
<1>4. CASE ~(act[a].status = "pending" /\ ~act[a].expired)
  <2>1. UNCHANGED <<act, consent>>
    BY <1>4 DEF ConfirmCommits
  <2> QED
    BY <1>2, <2>1, IdleOK, OnlyThread
<1> QED
  BY <1>3, <1>4

\* A new proposal starts without consent and undispatched.
LEMMA ProposeStep ==
  ASSUME IInv, NEW t \in Threads, Propose(t)
  PROVE  IInv'
<1>1. PICK a \in Ids :
        /\ ~Made(a)
        /\ act' = [act EXCEPT ![a] = Proposal(th[t].args, th[t].version)]
        /\ th' = [th EXCEPT ![t].pc = "validate", ![t].id = a,
                            ![t].seen = "pending"]
  BY DEF Propose
<1> DEFINE s == [th[t] EXCEPT !.pc = "validate", !.id = a, !.seen = "pending"]
           r == Proposal(th[t].args, th[t].version)
<1>2. /\ th[t] \in ThreadStates /\ th[t].args \in Args
      /\ th[t].version \in Versions \union {NoVersion}
  BY Types DEF IInv, ThreadOK, Propose
<1>3. /\ s \in ThreadStates /\ s.pc = "validate" /\ s.id = a
      /\ s.args = th[t].args
  BY <1>2 DEF ThreadStates, Pcs, OPEN
<1>4. r \in Rows /\ r.status = "pending" /\ r.args = th[t].args
  BY <1>2 DEF Proposal, Rows, OPEN, Results
<1>5. th' = [th EXCEPT ![t] = s] /\ act' = [act EXCEPT ![a] = r]
      /\ UNCHANGED <<consent, own, biz, dispatched, since>>
  BY <1>1 DEF IInv, TypeOK, ThreadStates, Propose
<1>6. /\ th'[t] = s /\ act'[a] = r /\ a # 0
      /\ \A b \in Ids : b # a => act'[b] = act[b]
      /\ \A u \in Threads : u # t => th'[u] = th[u]
  BY <1>5 DEF IInv, TypeOK, Ids
<1> HIDE DEF s, r
<1>7. ASSUME NEW u \in Threads, u # t PROVE Kept(u)
  <2>1. ThreadOK(u) /\ th[u].id \in Ids \union {0}
    BY Types DEF IInv
  <2>2. th[u].id # a
    BY <1>1, <1>6, <2>1 DEF ThreadOK
  <2> QED
    BY <1>5, <1>6, <1>7, <2>1, <2>2 DEF Kept, ThreadOK, Made
<1>8. ThreadOK(t)'
  BY <1>2, <1>3, <1>4, <1>6 DEF ThreadOK, Working, Made
<1>9. /\ th' \in [Threads -> ThreadStates]
      /\ \A u \in Threads : ThreadOK(u)'
      /\ \A u, v \in Threads : Alone(u, v)'
  BY <1>3, <1>5, <1>7, <1>8, OneMoves
<1>10. ASSUME NEW b \in Ids
       PROVE  RowOK(b)' /\ ConsentOK(b)' /\ SinceOK(b)'
  <2>1. RowOK(b) /\ ConsentOK(b) /\ SinceOK(b)
    BY DEF IInv
  <2>2. CASE b = a
    <3>1. dispatched[a] = 0
      BY <1>1, <2>1, <2>2 DEF RowOK, Made, STARTED
    <3> QED
      BY <1>2, <1>4, <1>5, <1>6, <2>2, <3>1
      DEF RowOK, ConsentOK, SinceOK, Made, STARTED
  <2>3. CASE b # a
    BY <1>5, <1>6, <2>1, <2>3 DEF RowOK, ConsentOK, SinceOK, Made
  <2> QED
    BY <2>2, <2>3
<1>11. own'.human => \A b \in Ids : act'[b].status # "executing"
  BY <1>4, <1>5, <1>6 DEF IInv
<1>12. TypeOK'
  BY <1>4, <1>5, <1>9 DEF IInv, TypeOK
<1> QED
  BY <1>9, <1>10, <1>11, <1>12 DEF IInv

\* The claim: from here on the thread has the action for itself.
LEMMA ClaimStep ==
  ASSUME IInv, NEW t \in Threads, Claim(t)
  PROVE  IInv'
<1>1. PICK a \in Ids : a = th[t].id
  BY Types DEF IInv, ThreadOK, Claim
<1>2. ThreadOK(t) /\ th[t] \in ThreadStates /\ th[t].pc = "claim"
      /\ UNCHANGED <<consent, own, biz, dispatched>>
  BY Types DEF IInv, Claim
<1>3. CASE Claimed(t)
  <2> DEFINE r == [act[a] EXCEPT !.status = "executing"]
             s == [th[t] EXCEPT !.pc = "reread"]
  <2>1. /\ act' = [act EXCEPT ![a] = r]
        /\ since' = [since EXCEPT ![a] = {biz[act[a].args]}]
        /\ th' = [th EXCEPT ![t] = s]
    BY <1>1, <1>3 DEF Claim, Goto, IInv, TypeOK, ThreadStates
  <2>2. ~own.human /\ act[a].status = "confirmed" /\ act[a] \in Rows
    BY <1>1, <1>3, Types DEF Claimed, IInv
  <2>3. /\ r \in Rows /\ r.status = "executing" /\ r.args = act[a].args
        /\ r.version = act[a].version
    BY <2>2 DEF Rows, STARTED
  <2>4. /\ s \in ThreadStates /\ s.pc = "reread" /\ s.id = a
        /\ s.args = th[t].args
    BY <1>1, <1>2 DEF ThreadStates, Pcs
  <2>5. /\ act'[a] = r /\ th'[t] = s /\ since'[a] = {biz[act[a].args]}
        /\ \A b \in Ids : b # a => act'[b] = act[b] /\ since'[b] = since[b]
        /\ \A u \in Threads : u # t => th'[u] = th[u]
    BY <2>1 DEF IInv, TypeOK
  <2>6. RowOK(a) /\ ConsentOK(a)
    BY DEF IInv
  <2>7. dispatched[a] = 0 /\ act[a].args \in Args /\ consent[a] # 0
    BY <2>2, <2>6 DEF RowOK, Made, STARTED
  <2>8. biz[act[a].args] \in Versions
    BY <2>7 DEF IInv, TypeOK
  <2> HIDE DEF r, s
  <2>9. \A u \in Threads : Working(u) => th[u].id # a
    BY <2>2 DEF IInv, ThreadOK
  <2>10. \A b \in Ids : act[b].status = "executing" => since[b] \subseteq since'[b]
    BY <2>2, <2>5
  <2>11. \A u \in Threads : u # t => Kept(u)
    BY <1>2, <2>1, <2>2, <2>3, <2>5, <2>9, <2>10, RowMoves
  <2>12. ThreadOK(t)'
    <3>1. act[a].args = th[t].args /\ a # 0
      BY <1>1, <1>2 DEF ThreadOK, Ids
    <3> QED
      BY <1>2, <2>3, <2>4, <2>5, <2>7, <3>1 DEF ThreadOK, Working, Made
  <2>13. /\ th' \in [Threads -> ThreadStates]
         /\ \A u \in Threads : ThreadOK(u)'
         /\ \A u, v \in Threads : Alone(u, v)'
    BY <2>1, <2>4, <2>9, <2>11, <2>12, OneMoves
  <2>14. ASSUME NEW b \in Ids
         PROVE  RowOK(b)' /\ ConsentOK(b)' /\ SinceOK(b)'
    <3>1. RowOK(b) /\ ConsentOK(b) /\ SinceOK(b)
      BY DEF IInv
    <3>2. CASE b = a
      BY <1>2, <2>2, <2>3, <2>5, <2>6, <2>7, <3>2
      DEF RowOK, ConsentOK, SinceOK, Made, STARTED
    <3>3. CASE b # a
      BY <1>2, <2>5, <3>1, <3>3 DEF RowOK, ConsentOK, SinceOK, Made
    <3> QED
      BY <3>2, <3>3
  <2>15. ~own'.human
    BY <1>2, <2>2
  <2>16. TypeOK'
    BY <1>2, <2>1, <2>3, <2>8, <2>13 DEF IInv, TypeOK
  <2> QED
    BY <2>13, <2>14, <2>15, <2>16 DEF IInv
<1>4. CASE ~Claimed(t)
  <2>1. UNCHANGED <<act, since>> /\ th' = [th EXCEPT ![t] = IdleThread]
    BY <1>4 DEF Claim, Leave
  <2>2. th'[t] = IdleThread /\ IdleThread.pc = "idle"
    BY <2>1 DEF IInv, TypeOK, IdleThread, At
  <2> QED
    BY <1>2, <2>1, <2>2, IdleOK, OnlyThread
<1> QED
  BY <1>3, <1>4

\* The call of the tool, by the one thread that works on the action.
LEMMA DispatchStep ==
  ASSUME IInv, NEW t \in Threads, Dispatch(t)
  PROVE  IInv'
<1>1. PICK a \in Ids : a = th[t].id
  BY Types DEF IInv, ThreadOK, Dispatch
<1>2. PICK res \in {"done", "unknown"} :
        th' = [th EXCEPT ![t].pc = "finish", ![t].result = res]
  BY DEF Dispatch
<1> DEFINE s == [th[t] EXCEPT !.pc = "finish", !.result = res]
<1>3. /\ ThreadOK(t) /\ Working(t) /\ th[t] \in ThreadStates
      /\ th[t].pc = "dispatch"
      /\ UNCHANGED <<act, consent, own, biz, since>>
  BY Types DEF IInv, Dispatch, Working
<1>4. /\ s \in ThreadStates /\ s.pc = "finish" /\ s.id = a
      /\ s.args = th[t].args /\ s.result = res
  BY <1>1, <1>3 DEF ThreadStates, Pcs, Results
<1>5. /\ th' = [th EXCEPT ![t] = s]
      /\ dispatched' = [dispatched EXCEPT ![a] = dispatched[a] + 1]
  BY <1>1, <1>2 DEF IInv, TypeOK, ThreadStates, Dispatch
<1>6. /\ dispatched[a] = 0 /\ act[a].status = "executing" /\ a # 0
      /\ act[a].version \in since[a]
  BY <1>1, <1>3 DEF ThreadOK, Ids
<1>7. /\ th'[t] = s /\ dispatched'[a] = 1
      /\ \A b \in Ids : b # a => dispatched'[b] = dispatched[b]
      /\ \A u \in Threads : u # t => th'[u] = th[u]
  BY <1>5, <1>6 DEF IInv, TypeOK
<1> HIDE DEF s
<1>8. ASSUME NEW u \in Threads, u # t PROVE Kept(u)
  <2>1. ThreadOK(u) /\ th[u].id \in Ids \union {0} /\ Alone(u, t)
    BY Types DEF IInv
  <2>2. Working(u) => th[u].id # a
    BY <1>1, <1>3, <1>8, <2>1 DEF Alone
  <2>3. Working(u) => th[u].id \in Ids
    BY <2>1 DEF ThreadOK, Working
  <2> QED
    BY <1>3, <1>7, <1>8, <2>1, <2>2, <2>3 DEF Kept, ThreadOK, Made
<1>9. ThreadOK(t)'
  BY <1>1, <1>3, <1>4, <1>6, <1>7 DEF ThreadOK, Working, Made
<1>10. /\ th' \in [Threads -> ThreadStates]
       /\ \A u \in Threads : ThreadOK(u)'
       /\ \A u, v \in Threads : Alone(u, v)'
  BY <1>1, <1>3, <1>4, <1>5, <1>8, <1>9, OneMoves
<1>11. ASSUME NEW b \in Ids
       PROVE  RowOK(b)' /\ ConsentOK(b)' /\ SinceOK(b)'
  <2>1. RowOK(b) /\ ConsentOK(b) /\ SinceOK(b)
    BY DEF IInv
  <2>2. CASE b = a
    BY <1>3, <1>6, <1>7, <2>1, <2>2
    DEF RowOK, ConsentOK, SinceOK, Made, STARTED
  <2>3. CASE b # a
    BY <1>3, <1>7, <2>1, <2>3 DEF RowOK, ConsentOK, SinceOK, Made
  <2> QED
    BY <2>2, <2>3
<1>12. TypeOK'
  BY <1>3, <1>5, <1>6, <1>10 DEF IInv, TypeOK
<1> QED
  BY <1>3, <1>10, <1>11, <1>12 DEF IInv

\* The result is stored by the thread that knows it.
LEMMA FinishStep ==
  ASSUME IInv, NEW t \in Threads, Finish(t)
  PROVE  IInv'
<1>1. PICK a \in Ids : a = th[t].id
  BY Types DEF IInv, ThreadOK, Finish
<1>2. /\ ThreadOK(t) /\ Working(t) /\ th[t].pc = "finish"
      /\ th[t].result \in Results
      /\ UNCHANGED <<consent, own, biz, dispatched, since>>
  BY Types DEF IInv, Finish, Working
<1>3. act[a].status = "executing" /\ act[a] \in Rows /\ RowOK(a)
  BY <1>1, <1>2, Types DEF IInv, ThreadOK
<1> DEFINE status == IF th[t].result = "unknown" THEN "unknown" ELSE "completed"
           r == [act[a] EXCEPT !.status = status, !.result = th[t].result]
<1>4. /\ act' = [act EXCEPT ![a] = r]
      /\ th' = [th EXCEPT ![t] = IdleThread]
  BY <1>1, <1>3 DEF Finish, Leave, IInv, TypeOK, Rows
<1>5. /\ r \in Rows /\ r.status = status /\ r.args = act[a].args
      /\ r.version = act[a].version /\ r.result = th[t].result
  BY <1>2, <1>3 DEF Rows, STARTED
<1>6. /\ act'[a] = r /\ th'[t] = IdleThread /\ IdleThread.pc = "idle"
      /\ \A b \in Ids : b # a => act'[b] = act[b]
      /\ \A u \in Threads : u # t => th'[u] = th[u]
  BY <1>4 DEF IInv, TypeOK, IdleThread, At
<1>7. status \in {"unknown", "completed"}
  OBVIOUS
<1>8. status = "completed" =>
        dispatched[a] = (IF th[t].result = "done" THEN 1 ELSE 0)
  BY <1>1, <1>2 DEF ThreadOK
<1> HIDE DEF status, r
<1>9. \A u \in Threads : u # t => Kept(u)
  <2>1. \A u \in Threads : u # t => ~(Working(u) /\ th[u].id = a)
    BY <1>1, <1>2 DEF IInv, Alone
  <2>2. r.status # "none"
    BY <1>5, <1>7
  <2> QED
    BY <1>2, <1>4, <1>5, <1>6, <2>1, <2>2, RowMoves
<1>10. /\ th' \in [Threads -> ThreadStates]
       /\ \A u \in Threads : ThreadOK(u)'
       /\ \A u, v \in Threads : Alone(u, v)'
  BY <1>4, <1>6, <1>9, IdleOK, OneMoves
<1>11. ASSUME NEW b \in Ids
       PROVE  RowOK(b)' /\ ConsentOK(b)' /\ SinceOK(b)'
  <2>1. RowOK(b) /\ ConsentOK(b) /\ SinceOK(b)
    BY DEF IInv
  <2>2. CASE b = a
    <3>1. act'[b].status \in {"unknown", "completed"} /\ act'[b].args = act[a].args
          /\ act'[b].version = act[a].version /\ act'[b].result = th[t].result
      BY <1>5, <1>6, <1>7, <2>2
    <3>2. act'[b].status = "completed" =>
            dispatched[a] = (IF act'[b].result = "done" THEN 1 ELSE 0)
      BY <1>5, <1>6, <1>8, <2>2
    <3>3. act[b].status = "executing"
      BY <1>3, <2>2
    <3>4. /\ act[b].args \in Args /\ consent[b] # 0 /\ dispatched[b] <= 1
      BY <2>1, <3>3 DEF RowOK, Made, STARTED
    <3> QED
      BY <1>2, <2>1, <2>2, <3>1, <3>2, <3>3, <3>4
      DEF RowOK, ConsentOK, SinceOK, Made, STARTED
  <2>3. CASE b # a
    BY <1>2, <1>6, <2>1, <2>3 DEF RowOK, ConsentOK, SinceOK, Made
  <2> QED
    BY <2>2, <2>3
<1>12. own'.human => \A b \in Ids : act'[b].status # "executing"
  BY <1>2, <1>5, <1>6, <1>7 DEF IInv
<1>13. TypeOK'
  BY <1>2, <1>4, <1>5, <1>10 DEF IInv, TypeOK
<1> QED
  BY <1>10, <1>11, <1>12, <1>13 DEF IInv

-----------------------------------------------------------------------------
(* The other steps *)

\* The release: a consent given under the human is as old as the takeover.
LEMMA ReleaseStep ==
  ASSUME IInv, Release
  PROVE  IInv'
<1>1. /\ own' = [human |-> FALSE, version |-> own.version + 1]
      /\ own.human /\ own.version \in Nat \ {0}
      /\ UNCHANGED <<act, consent, biz, th, dispatched, since>>
  BY DEF Release, IInv, TypeOK
<1>2. own' \in [human: BOOLEAN, version: Nat \ {0}]
  BY <1>1
<1>3. TypeOK'
  BY <1>1, <1>2 DEF IInv, TypeOK
<1>4. \A u \in Threads : Kept(u)
  BY <1>1 DEF IInv, ThreadOK, Kept, Made
<1>5. /\ \A u \in Threads : ThreadOK(u)'
      /\ \A u, v \in Threads : Alone(u, v)'
  BY <1>1, <1>4, NobodyMoves
<1>6. ASSUME NEW a \in Ids
      PROVE  RowOK(a)' /\ ConsentOK(a)' /\ SinceOK(a)'
  <2>1. RowOK(a) /\ ConsentOK(a) /\ SinceOK(a) /\ consent[a] \in Nat
    BY Types DEF IInv
  <2>2. own'.version = own.version + 1 /\ ~own'.human
    BY <1>1
  <2>3. ConsentOK(a)'
    BY <1>1, <2>1, <2>2 DEF ConsentOK
  <2> QED
    BY <1>1, <2>1, <2>3 DEF RowOK, SinceOK, Made
<1> QED
  BY <1>1, <1>3, <1>5, <1>6 DEF IInv

\* The business changes: the new snapshot counts for what executes.
LEMMA BusinessStep ==
  ASSUME IInv, NEW x \in Args, NEW v \in Versions, BusinessChanges(x, v)
  PROVE  IInv'
<1>1. /\ biz' = [biz EXCEPT ![x] = v]
      /\ UNCHANGED <<act, consent, own, th, dispatched>>
  BY DEF BusinessChanges
<1>2. \A a \in Ids : since'[a] = IF act[a].args = x /\ act[a].status = "executing"
                                   THEN since[a] \union {v} ELSE since[a]
  BY DEF BusinessChanges
<1>3. since' \in [Ids -> SUBSET Versions]
  BY DEF BusinessChanges, IInv, TypeOK
<1>4. TypeOK'
  BY <1>1, <1>3 DEF IInv, TypeOK
<1>5. \A a \in Ids : since[a] \subseteq since'[a]
  BY <1>2
<1>6. \A u \in Threads : Kept(u)
  BY <1>1, <1>5, Types DEF IInv, ThreadOK, Kept, Made
<1>7. /\ \A u \in Threads : ThreadOK(u)'
      /\ \A u, w \in Threads : Alone(u, w)'
  BY <1>1, <1>6, NobodyMoves
<1>8. ASSUME NEW a \in Ids
      PROVE  RowOK(a)' /\ ConsentOK(a)' /\ SinceOK(a)'
  <2>1. RowOK(a) /\ ConsentOK(a) /\ SinceOK(a)
    BY DEF IInv
  <2>2. act[a].status = "executing" => biz'[act[a].args] \in since'[a]
    <3>1. CASE act[a].args = x
      BY <1>1, <1>2, <3>1 DEF IInv, TypeOK
    <3>2. CASE act[a].args # x /\ act[a].status = "executing"
      <4>1. act[a].args \in Args
        BY <2>1, <3>2 DEF RowOK, Made
      <4> QED
        BY <1>1, <1>2, <2>1, <3>2, <4>1 DEF IInv, TypeOK, SinceOK
    <3> QED
      BY <3>1, <3>2
  <2>3. SinceOK(a)'
    BY <1>1, <1>5, <2>1, <2>2 DEF SinceOK
  <2> QED
    BY <1>1, <2>1, <2>3 DEF RowOK, ConsentOK, Made
<1> QED
  BY <1>1, <1>4, <1>7, <1>8 DEF IInv

-----------------------------------------------------------------------------
(* The theorems *)

\* Nothing is proposed and nobody calls.
LEMMA InitHolds ==
  ASSUME Init
  PROVE  IInv
<1>1. TypeOK
  <2>1. NoRow \in Rows
    BY DEF NoRow, Rows, Results
  <2>2. IdleThread \in ThreadStates
    BY DEF IdleThread, At, ThreadStates, Pcs, Results
  <2> QED
    BY <2>1, <2>2 DEF Init, TypeOK
<1>2. \A a \in Ids : RowOK(a) /\ ConsentOK(a) /\ SinceOK(a)
  BY DEF Init, NoRow, RowOK, ConsentOK, SinceOK, Made, STARTED
<1>3. \A t \in Threads : ThreadOK(t) /\ ~Working(t)
  BY DEF Init, IdleThread, At, ThreadOK, Working
<1> QED
  BY <1>1, <1>2, <1>3 DEF Init, IInv, Alone

\* Every step of a thread, of the customer, of the operator and of the world
\* preserves the invariant.
LEMMA NextPreserves ==
  ASSUME IInv, [Next]_vars
  PROVE  IInv'
<1>1. CASE UNCHANGED vars
  BY <1>1 DEF vars, IInv, TypeOK, RowOK, ConsentOK, SinceOK, ThreadOK, Alone,
              Working, Made
<1>2. ASSUME NEW t \in Threads, ThreadStep(t)
      PROVE  IInv'
  BY <1>2, SnapshotStep, GetRowStep, ProposeStep, ValidateStep, ClaimStep,
     RereadStep, RefuseStep, DispatchStep, FinishStep, StopStep, ConfirmStep
     DEF ThreadStep
<1>3. ASSUME NEW t \in Threads, NEW x \in Args, Call(t, x)
      PROVE  IInv'
  BY <1>3, CallStep
<1>4. ASSUME NEW t \in Threads, NEW a \in Ids, CallAction(t, a) \/ AskConfirm(t, a)
      PROVE  IInv'
  BY <1>4, ActionCallStep
<1>5. ASSUME NEW A \in SUBSET Ids, Revoke(A)
      PROVE  IInv'
  BY <1>5, RevokeStep
<1>6. CASE TakeOver \/ Release
  BY <1>6, TakeOverStep, ReleaseStep
<1>7. ASSUME NEW a \in Ids, Revise(a) \/ Expire(a)
      PROVE  IInv'
  BY <1>7, ReviseStep, ExpireStep
<1>8. ASSUME NEW x \in Args, NEW v \in Versions, BusinessChanges(x, v)
      PROVE  IInv'
  BY <1>8, BusinessStep
<1> QED
  BY <1>1, <1>2, <1>3, <1>4, <1>5, <1>6, <1>7, <1>8 DEF Next

\* The invariant holds in every reachable state, for any number of calls,
\* actions, tools, snapshots and takeovers.
THEOREM InvariantHolds == Spec => []IInv
<1>1. Init => IInv
  BY InitHolds
<1>2. IInv /\ [Next]_vars => IInv'
  BY NextPreserves
<1> QED
  BY <1>1, <1>2, PTL DEF Spec

\* The claim consumes the confirmation: no action reaches its tool twice.
THEOREM DispatchedOnce == Spec => []DispatchedAtMostOnce
<1>1. IInv => DispatchedAtMostOnce
  BY DEF IInv, RowOK, DispatchedAtMostOnce
<1> QED
  BY <1>1, InvariantHolds, PTL

\* An action that is shown as withdrawn never reached its tool.
THEOREM WithdrawnIsOff == Spec => []WithdrawnWasNotDispatched
<1>1. IInv => WithdrawnWasNotDispatched
  BY DEF IInv, RowOK, WithdrawnWasNotDispatched
<1> QED
  BY <1>1, InvariantHolds, PTL

\* The takeover and the claim exclude each other.
THEOREM QuietWhileHuman == Spec => []QuietUnderHuman
<1>1. ASSUME IInv, own.human, NEW t \in Threads, Working(t)
      PROVE  FALSE
  <2>1. th[t].id \in Ids /\ act[th[t].id].status = "executing"
    BY <1>1, Types DEF IInv, ThreadOK, Working
  <2> QED
    BY <1>1, <2>1 DEF IInv
<1>2. IInv => QuietUnderHuman
  BY <1>1 DEF QuietUnderHuman, Working
<1> QED
  BY <1>2, InvariantHolds, PTL

\* What is dispatched is what the customer saw, as of some moment since the
\* claim.
THEOREM AsConfirmed == Spec => []DispatchedAsConfirmed
<1>1. IInv => DispatchedAsConfirmed
  BY DEF IInv, SinceOK, DispatchedAsConfirmed
<1> QED
  BY <1>1, InvariantHolds, PTL

\* A completed action's stored result is the truth about its tool.
THEOREM ResultIsTrue == Spec => []StoredResultIsTrue
<1>1. IInv => StoredResultIsTrue
  BY DEF IInv, RowOK, StoredResultIsTrue
<1> QED
  BY <1>1, InvariantHolds, PTL

\* Only a dispatch calls a tool.
LEMMA OnlyDispatch ==
  ASSUME IInv, Next, dispatched' # dispatched
  PROVE  \E t \in Threads : Dispatch(t)
BY DEF Next, ThreadStep, Call, CallAction, Snapshot, ReadRow, ReuseProposal,
       Propose, Validate, Claim, Reread, Refuse, Finish, Stop, AskConfirm,
       ConfirmChecks, ConfirmCommits, Revoke, TakeOver, Release, Revise, Expire,
       BusinessChanges

\* A consent given before a takeover is never acted on.
THEOREM OldConsentDead == Spec => OldConsentNeverRevives
<1> DEFINE Step == \A a \in Ids : dispatched'[a] # dispatched[a]
                     => consent[a] # 0 /\ consent[a] + 1 >= own.version
<1>1. ASSUME IInv, Next, NEW a \in Ids, dispatched'[a] # dispatched[a]
      PROVE  consent[a] # 0 /\ consent[a] + 1 >= own.version
  <2>1. PICK t \in Threads : Dispatch(t)
    BY <1>1, OnlyDispatch
  <2>2. a = th[t].id /\ th[t].pc = "dispatch"
    BY <1>1, <2>1 DEF Dispatch, IInv, TypeOK
  <2>3. act[a].status = "executing"
    BY <1>1, <2>2 DEF IInv, ThreadOK, Working
  <2>4. RowOK(a) /\ ConsentOK(a) /\ ~own.human
    BY <1>1, <2>3 DEF IInv
  <2> QED
    BY <2>3, <2>4 DEF RowOK, ConsentOK, STARTED
<1>2. IInv /\ [Next]_vars => [Step]_vars
  BY <1>1
<1>3. Spec => [][Step]_vars
  BY <1>2, InvariantHolds, PTL DEF Spec
<1> QED
  BY <1>3 DEF OldConsentNeverRevives

=============================================================================
