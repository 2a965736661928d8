----------------------------- MODULE RemoteTools -----------------------------
(***************************************************************************)
(* The tools of an MCP server beside the local ones.  A ToolManager        *)
(* connects, compares what the server offers with the contract that an     *)
(* administrator has approved and that its run has pinned, and shows the   *)
(* model a tool either from the server, or from here, or not at all; when  *)
(* the server is refused it falls back to local tools.  A remote call asks *)
(* for the contract again.  The server may change its tools, and the       *)
(* administrator the contract, at any time.                                *)
(***************************************************************************)
EXTENDS Naturals, FiniteSets

CONSTANTS
  Local, LocalReads,   \* the tools of the registry, and those that only read
  ContextBound,        \* CONTEXT_BOUND_TOOLS
  Allowed,             \* what is left by the filters of the manager
  Schemas, ToolsOf,    \* what the server may offer, and the tools in it
  Terms,               \* what may be approved: a schema and the tools' policies
  Nothing,             \* an empty list of definitions
  Rpm,                 \* rpm of a tool's policy
  Managers,
  MaxVersion           \* bound on the approvals

VARIABLES
  governed,   \* mcp_governance_enabled
  server,     \* the definitions that the server offers
  contract,   \* the row of connector_contracts
  pin,        \* the snapshot of the contract in the run's row
  mgr,        \* the managers of the run
  recent,     \* the connector.attempt audits of the last minute, by tool
  over,       \* history: the versions that were disabled or replaced
  sent        \* history: the calls that went out

vars == <<governed, server, contract, pin, mgr, recent, over, sent>>

Names == Local \union UNION {ToolsOf[s] : s \in Schemas}
Seen == Schemas \union {Nothing}
NoContract == [version |-> 0, active |-> FALSE]
Contracts == {NoContract} \union [version: 1 .. MaxVersion, active: BOOLEAN, terms: Terms]
Idle == [pc |-> "new", tool |-> CHOOSE n \in Names : TRUE, seen |-> Nothing, slow |-> FALSE,
         approved |-> NoContract, fell |-> FALSE, local |-> {}, mcp |-> {}, began |-> {}]

ManagerStates ==
  [pc: {"new", "pin", "store", "verify", "disable", "show", "fallback", "ready",
        "admit", "send"},
   tool: Names, seen: Seen, slow: BOOLEAN, approved: Contracts, fell: BOOLEAN,
   local: SUBSET Local, mcp: SUBSET Names, began: SUBSET (1 .. MaxVersion)]

TypeOK ==
  /\ governed \in BOOLEAN /\ server \in Schemas
  /\ contract \in Contracts /\ pin \in Contracts
  /\ mgr \in [Managers -> ManagerStates]
  /\ \A m \in Managers : mgr[m].mcp \intersect mgr[m].local = {}
  /\ recent \in [Names -> 0 .. Rpm]
  /\ over \subseteq 1 .. MaxVersion
  /\ sent \subseteq [manager: Managers, tool: Names, began: SUBSET (1 .. MaxVersion)]

Init ==
  /\ governed \in BOOLEAN
  /\ server \in Schemas
  /\ contract = NoContract /\ pin = NoContract
  /\ mgr = [m \in Managers |-> Idle]
  /\ recent = [n \in Names |-> 0]
  /\ over = {} /\ sent = {}

Goto(m, pc) == mgr' = [mgr EXCEPT ![m].pc = pc]

-----------------------------------------------------------------------------
(* The administrator and the server *)

\* register(): the next version, whatever the server offers at the moment.
Register(t) ==
  /\ contract.version < MaxVersion
  /\ contract' = [version |-> contract.version + 1, active |-> TRUE, terms |-> t]
  /\ over' = over \union ({contract.version} \ {0})
  /\ UNCHANGED <<governed, server, pin, mgr, recent, sent>>

Change(s) ==
  /\ s # server
  /\ server' = s
  /\ UNCHANGED <<governed, contract, pin, mgr, recent, over, sent>>

MinutePasses ==
  /\ recent' = [n \in Names |-> 0]
  /\ UNCHANGED <<governed, server, contract, pin, mgr, over, sent>>

-----------------------------------------------------------------------------
(* _init_mcp *)

\* connect(): the definitions, an error, or after thirty seconds an empty list
\* that the background thread may still fill.
Connect(m) ==
  /\ mgr[m].pc = "new"
  /\ LET Continue(seen, slow, pc) ==
           mgr' = [mgr EXCEPT ![m] = [@ EXCEPT !.seen = seen, !.slow = slow, !.pc = pc]]
         connected == IF governed THEN "pin" ELSE "show"
     IN  \/ Continue(server, FALSE, connected)
         \/ Continue(Nothing, FALSE, "fallback")
         \/ Continue(Nothing, TRUE, connected)
  /\ UNCHANGED <<governed, server, contract, pin, recent, over, sent>>

Arrive(m) ==
  /\ mgr[m].slow /\ mgr[m].pc \in {"pin", "store", "verify", "disable", "show", "fallback"}
  /\ mgr' = [mgr EXCEPT ![m] = [@ EXCEPT !.seen = server, !.slow = FALSE]]
  /\ UNCHANGED <<governed, server, contract, pin, recent, over, sent>>

\* snapshot(): the contract as the run knows it.  The first manager of a run that
\* stores it decides, whatever another one has read meanwhile.
Pin(m) ==
  /\ mgr[m].pc = "pin"
  /\ LET known == IF pin = NoContract THEN contract ELSE pin
     IN  mgr' = [mgr EXCEPT ![m] =
                   [@ EXCEPT !.approved = known,
                             !.pc = IF known = NoContract THEN "fallback" ELSE "store"]]
  /\ UNCHANGED <<governed, server, contract, pin, recent, over, sent>>

Store(m) ==
  /\ mgr[m].pc = "store"
  /\ pin' = IF pin = NoContract THEN mgr[m].approved ELSE pin
  /\ mgr' = [mgr EXCEPT ![m] = [@ EXCEPT !.approved = pin', !.pc = "verify"]]
  /\ UNCHANGED <<governed, server, contract, recent, over, sent>>

\* (mutant of Stands: a disabled contract still stands)
StandsByVersion(m) == contract.version = mgr[m].approved.version

\* The contract that the manager has pinned is the active one.
Stands(m) == contract.active /\ contract.version = mgr[m].approved.version

\* verify(): what was offered is compared with what was approved.
Verify(m) ==
  /\ mgr[m].pc = "verify"
  /\ Goto(m, IF ~Stands(m) THEN "fallback"
             ELSE IF contract.terms.schema # mgr[m].seen THEN "disable" ELSE "show")
  /\ UNCHANGED <<governed, server, contract, pin, recent, over, sent>>

\* Its update, of the version that it has read.
Disable(m) ==
  /\ mgr[m].pc = "disable"
  /\ IF contract.version = mgr[m].approved.version
     THEN /\ contract' = [contract EXCEPT !.active = FALSE]
          /\ over' = over \union {contract.version}
     ELSE UNCHANGED <<contract, over>>
  /\ Goto(m, "fallback")
  /\ UNCHANGED <<governed, server, pin, recent, sent>>

Offered(m) == IF mgr[m].seen = Nothing THEN {} ELSE ToolsOf[mgr[m].seen]

\* The remote tools that the policies let the model see.
Visible(m) ==
  IF governed THEN Offered(m) \intersect mgr[m].approved.terms.reads
                              \intersect mgr[m].approved.terms.permitted
              ELSE Offered(m)

Ready(m, local, mcp, fell) ==
  mgr' = [mgr EXCEPT ![m] = [@ EXCEPT !.pc = "ready", !.slow = FALSE, !.fell = fell,
                                      !.local = local \intersect Allowed,
                                      !.mcp = mcp \intersect Allowed]]

\* A local tool stands back for a remote one, unless it is bound to the context.
Show(m) ==
  /\ mgr[m].pc = "show"
  /\ LET local == {n \in Local : n \notin Visible(m) \/ n \in ContextBound}
     IN  Ready(m, local, Visible(m) \ local, FALSE)
  /\ UNCHANGED <<governed, server, contract, pin, recent, over, sent>>

\* What the policies declare equivalent to a local tool.
Equivalent(m) ==
  IF mgr[m].approved = NoContract THEN {} ELSE mgr[m].approved.terms.equivalent

\* (mutant of Blocked: a contract that is not there blocks nothing)
BlockedByContract(m) ==
  IF mgr[m].approved = NoContract THEN {} ELSE (Offered(m) \intersect Local) \ Equivalent(m)

\* Local tools that must not take the place of a remote one of their name.
Blocked(m) ==
  IF governed THEN (Offered(m) \intersect Local) \ Equivalent(m) ELSE {}

Fallback(m) ==
  /\ mgr[m].pc = "fallback"
  /\ Ready(m, Local \ Blocked(m), {}, TRUE)
  /\ UNCHANGED <<governed, server, contract, pin, recent, over, sent>>

-----------------------------------------------------------------------------
(* A remote call *)

\* The checks before the call.  Without governance only the names of local tools
\* that read are called.
Call(m, n) ==
  /\ mgr[m].pc = "ready" /\ n \in mgr[m].mcp
  /\ IF governed
     THEN Stands(m) /\ n \in mgr[m].approved.terms.permitted \intersect
                              mgr[m].approved.terms.reads
     ELSE n \in Local \intersect LocalReads
  /\ mgr' = [mgr EXCEPT ![m] = [@ EXCEPT !.pc = IF governed THEN "admit" ELSE "send",
                                         !.tool = n]]
  /\ UNCHANGED <<governed, server, contract, pin, recent, over, sent>>

\* admit(): one transaction that holds the contract's row.
Admit(m) ==
  /\ mgr[m].pc = "admit"
  /\ LET n == mgr[m].tool
     IN  IF Stands(m) /\ recent[n] < Rpm
         THEN /\ mgr' = [mgr EXCEPT ![m] = [@ EXCEPT !.pc = "send", !.began = over]]
              /\ recent' = [recent EXCEPT ![n] = @ + 1]
         ELSE Goto(m, "ready") /\ UNCHANGED recent
  /\ UNCHANGED <<governed, server, contract, pin, over, sent>>

Send(m) ==
  /\ mgr[m].pc = "send"
  /\ sent' = sent \union {[manager |-> m, tool |-> mgr[m].tool, began |-> mgr[m].began]}
  /\ Goto(m, "ready")
  /\ UNCHANGED <<governed, server, contract, pin, recent, over>>

\* Another attempt of the run, or the same one after a crash, makes its manager anew.
Restart(m) ==
  /\ mgr[m].pc # "new"
  /\ mgr' = [mgr EXCEPT ![m] = Idle]
  /\ sent' = {c \in sent : c.manager # m}
  /\ UNCHANGED <<governed, server, contract, pin, recent, over>>

ManagerStep(m) ==
  \/ Connect(m) \/ Arrive(m) \/ Pin(m) \/ Store(m) \/ Verify(m) \/ Disable(m) \/ Show(m)
  \/ Fallback(m) \/ Admit(m) \/ Send(m) \/ Restart(m)
  \/ \E n \in Names : Call(m, n)

Next ==
  \/ MinutePasses
  \/ \E t \in Terms : Register(t)
  \/ \E s \in Schemas : Change(s)
  \/ \E m \in Managers : ManagerStep(m)

Spec == Init /\ [][Next]_vars

-----------------------------------------------------------------------------
\* Under governance a call goes to the server only for a tool that the pinned
\* contract lets read and permits, whose definition is the approved one, that is
\* not bound to the context, and never on a contract that was disabled or
\* replaced before the call was admitted; and when the server was refused, no local
\* tool stands in for one that it had offered unless the contract says so
\* (_init_mcp, GovernedMCPToolCaller, admit).
RemoteToolsAreApproved ==
  governed =>
    /\ \A c \in sent :
         LET a == mgr[c.manager].approved
         IN  /\ a.version \notin c.began
             /\ c.tool \in (a.terms.reads \intersect a.terms.permitted) \ ContextBound
             /\ mgr[c.manager].seen = a.terms.schema
    /\ \A m \in Managers :
         mgr[m].pc = "ready" /\ mgr[m].fell =>
           mgr[m].local \intersect Offered(m) \subseteq Equivalent(m)

-----------------------------------------------------------------------------
(* Why it holds *)

\* What is disabled or replaced is over, and nothing else is.
ContractOK ==
  /\ over \subseteq 1 .. contract.version
  /\ contract.active => contract.version \notin over

\* A contract that was read: one version has one set of terms.
Known(c) ==
  c # NoContract =>
    /\ c.version <= contract.version
    /\ c.version = contract.version => contract.terms = c.terms

Open == {"ready", "admit", "send"}

\* What a manager may rely on, by how far it has come.
ManagerOK(m) ==
  LET q == mgr[m] IN
  /\ Known(q.approved)
  /\ q.slow => q.seen = Nothing
  /\ q.pc \in {"store", "verify", "disable"} => q.approved # NoContract
  /\ governed /\ q.pc = "show" =>
       q.approved # NoContract /\ q.seen = q.approved.terms.schema
  /\ governed /\ q.pc \in Open =>
       /\ q.mcp # {} => q.approved # NoContract /\ q.seen = q.approved.terms.schema
       /\ q.mcp \intersect ContextBound = {}
       /\ q.fell => q.local \intersect Offered(m) \subseteq Equivalent(m)
  /\ governed /\ q.pc \in {"admit", "send"} =>
       q.tool \in q.mcp \intersect q.approved.terms.reads
                        \intersect q.approved.terms.permitted
  /\ governed /\ q.pc = "send" => q.approved.version \notin q.began

\* A call that went out, by a manager that has kept what it relied on.
SentOK(c) ==
  governed =>
    LET a == mgr[c.manager].approved
    IN  /\ mgr[c.manager].pc \in Open
        /\ a.version \notin c.began
        /\ c.tool \in (a.terms.reads \intersect a.terms.permitted) \ ContextBound
        /\ mgr[c.manager].seen = a.terms.schema

IInv ==
  /\ TypeOK /\ ContractOK /\ Known(pin)
  /\ \A m \in Managers : ManagerOK(m)
  /\ \A c \in sent : SentOK(c)

=============================================================================
