------------------------- MODULE HarnessLifecycle -------------------------
(***************************************************************************)
(* The Harness (src/harness.go) and what it owns, from New to Close: the   *)
(* goroutines of the embedding host create, resume and run sessions and    *)
(* read templates, while any of them, a tool inside a run included, may    *)
(* close the Harness.                                                      *)
(*                                                                         *)
(* The owned parts are here as far as the Harness relies on them:          *)
(*   store       the session store: the sessions that exist, and Close,    *)
(*               which waits for the calls inside (module SessionStore     *)
(*               has the rest);                                            *)
(*   contexts    contextresolver.Resolver: session views with the policy   *)
(*               of the run, and the tool-policy scopes of invocations;    *)
(*   extensions  extensions.Store: the catalog snapshots of sessions.      *)
(*                                                                         *)
(* A step is a stretch of code between two points where another goroutine  *)
(* can interfere: a mutex region, or one call into a part.  The ADK runner *)
(* is external: a run is any sequence of model turns, instruction and tool *)
(* requests and session appends.                                           *)
(***************************************************************************)
EXTENDS Naturals, FiniteSets

CONSTANTS
  Callers,   \* goroutines of the embedding host
  Sessions,  \* session IDs
  Ops,       \* the public operations the callers use
  Faults,    \* what may fail or refuse to stop
  NULL

ASSUME ConstantsAssumption ==
  /\ NULL \notin Callers \cup Sessions
  /\ IsFiniteSet(Callers)
  /\ Ops \subseteq {"new", "resume", "run", "template", "list", "get", "close"}
  /\ Faults \subseteq {"store", "context", "extension", "mcp", "plugin", "stuck", "cancel"}

VARIABLES
  \* the Harness
  closed, rootDone, \* Harness.closed; the root context is cancelled
  active,           \* active[s]: the caller that holds session s, or NULL
  activeRuns,       \* the count of the WaitGroup
  finish,           \* where finishClose is
  closeErr,         \* what closeErr joins: "timeout", "resource"
  \* the parts
  store,            \* [ids, pending, closed, inside]; pending is the session
                    \* of a create marker that the next Create completes
  contexts,         \* [closed, views, scopes, dropping, inside]; views[s] is
                    \* "none", "plain", or "policy" with a run policy in it;
                    \* scopes[s] is "none", "open" or "narrowed" by that policy
  extensions,       \* [closed, views, inside]; views[s] is "none", "plain",
                    \* or "full" with the instruction records of the session
  mcpClosed,
  \* the callers
  pc, proc,         \* where a caller is, and its local variables
  \* history
  used, known,      \* IDs the store ever generated; IDs the host may use
  ready,            \* sessions NewSession or ResumeSession made ready
  leftover          \* sessions whose Delete failed in an error of NewSession

harness == <<closed, rootDone, active, activeRuns, finish, closeErr>>
parts   == <<store, contexts, extensions, mcpClosed>>
history == <<used, known, ready, leftover>>
vars    == <<harness, parts, pc, proc, history>>

Idle == [op |-> "none", ses |-> NULL, linked |-> FALSE, cancelled |-> FALSE, recs |-> FALSE,
         inRun |-> FALSE, view |-> "none", result |-> "none"]

Init ==
  /\ closed = FALSE
  /\ rootDone = FALSE
  /\ active = [s \in Sessions |-> NULL]
  /\ activeRuns = 0
  /\ finish = "open"
  /\ closeErr = {}
  /\ \E old \in SUBSET Sessions :      \* sessions of an earlier process
       /\ store = [ids |-> old, pending |-> NULL, closed |-> FALSE, inside |-> {}]
       /\ used = old
       /\ known = old
  /\ contexts = [closed |-> FALSE, inside |-> {}, views |-> [s \in Sessions |-> "none"],
                 scopes |-> [s \in Sessions |-> "none"], dropping |-> {}]
  /\ extensions = [closed |-> FALSE, inside |-> {}, views |-> [s \in Sessions |-> "none"]]
  /\ mcpClosed = FALSE
  /\ pc = [c \in Callers |-> "idle"]
  /\ proc = [c \in Callers |-> Idle]
  /\ ready = {}
  /\ leftover = {}

-----------------------------------------------------------------------------
(* Control.  A definition named ..._Bug is that of a faulty Harness: it    *)
(* breaks a property below when it stands in for the one it precedes.      *)

Goto(c, label) == pc' = [pc EXCEPT ![c] = label]
Local(c, field, value) == proc' = [proc EXCEPT ![c][field] = value]
Cancelled(c) == proc[c].cancelled

FailTo_Bug2(c) == IF proc[c].inRun THEN "releaserun" ELSE "leave"
FailTo(c) == IF proc[c].inRun THEN "releaserun"
             ELSE IF proc[c].op = "new" /\ proc[c].ses # NULL THEN "undo" ELSE "leave"
Fails(c, label) == Goto(c, label) /\ Local(c, "result", "failed")
Fail(c) == Fails(c, FailTo(c))
Succeed(c) == Goto(c, "leave") /\ Local(c, "result", "ok")

AfterContext(c) == IF proc[c].inRun THEN "lookup" ELSE "records"
AfterExtension(c) == IF proc[c].inRun THEN "run"
                     ELSE IF proc[c].op \in {"new", "resume"} THEN "leave" ELSE "snapshot"

(* A start that extensions refuse has a context to drop first.             *)
ExtensionFails(c) ==
  Fails(c, IF proc[c].op \in {"new", "resume"} THEN "dropcontext" ELSE FailTo(c))
ExtensionDone(c) ==
  /\ Goto(c, AfterExtension(c))
  /\ IF AfterExtension(c) = "leave" THEN Local(c, "result", "ok") ELSE UNCHANGED proc

-----------------------------------------------------------------------------
(* Admission: beginOperation and beginSessionOperation.                    *)

beginOperation_Bug == activeRuns' = activeRuns + 1
(* beginOperation: NewSession, and the first half of ResumeSession.        *)
beginOperation == ~closed /\ activeRuns' = activeRuns + 1

(* A bound of the model: the IDs last for the calls that will take one.    *)
IDsLast == Cardinality({c \in Callers : proc[c].op = "new" /\ proc[c].ses = NULL})
             < Cardinality((Sessions \ used) \cup ({store.pending} \ {NULL}))

CallOperation(c) ==
  /\ pc[c] = "idle"
  /\ beginOperation
  /\ \/ /\ "new" \in Ops /\ IDsLast
        /\ proc' = [proc EXCEPT ![c] = [Idle EXCEPT !.op = "new", !.linked = TRUE]]
        /\ Goto(c, "store")
     \/ \E s \in known :
          /\ "resume" \in Ops
          /\ proc' = [proc EXCEPT ![c] = [Idle EXCEPT !.op = "resume", !.ses = s, !.linked = TRUE]]
          /\ Goto(c, "admit")
  /\ UNCHANGED <<closed, rootDone, active, finish, closeErr, parts, history>>

beginSessionOperation_Bug2(c, s) ==
  /\ ~closed
  /\ active[s] = NULL
  /\ active' = [active EXCEPT ![s] = c]
  /\ activeRuns' = activeRuns
(* beginSessionOperation: one operation at a time holds a session.         *)
beginSessionOperation(c, s) ==
  /\ ~closed
  /\ active[s] = NULL
  /\ active' = [active EXCEPT ![s] = c]
  /\ activeRuns' = activeRuns + 1

CallSessionOperation(c) ==
  /\ pc[c] = "idle"
  /\ \E op \in Ops \cap {"run", "template", "list", "get"}, s \in known :
       /\ beginSessionOperation(c, s)
       /\ proc' = [proc EXCEPT ![c] = [Idle EXCEPT !.op = op, !.ses = s, !.linked = TRUE,
                                                   !.inRun = (op = "run")]]
       /\ Goto(c, "store")
  /\ UNCHANGED <<closed, rootDone, finish, closeErr, parts, history>>

(* ResumeSession's second admission; ErrClosed and ErrSessionBusy end it.  *)
Admit(c) ==
  /\ pc[c] = "admit"
  /\ LET s == proc[c].ses IN
     IF closed \/ active[s] # NULL
       THEN Fail(c) /\ UNCHANGED <<active, activeRuns>>
       ELSE beginSessionOperation(c, s) /\ Goto(c, "store") /\ UNCHANGED proc
  /\ UNCHANGED <<closed, rootDone, finish, closeErr, parts, history>>

(* The host cancels the context of its call.                               *)
HostCancels(c) ==
  /\ "cancel" \in Faults
  /\ proc[c].linked /\ ~Cancelled(c)
  /\ Local(c, "cancelled", TRUE)
  /\ UNCHANGED <<harness, parts, pc, history>>

(* The goroutine of linkedOperationContext sees the root context end.      *)
linkedOperationContext(c) ==
  /\ rootDone
  /\ proc[c].linked /\ ~Cancelled(c)
  /\ Local(c, "cancelled", TRUE)
  /\ UNCHANGED <<harness, parts, pc, history>>

Held(c) == {s \in Sessions : active[s] = c}

(* The release functions, run once by the deferred calls: the session is   *)
(* free before the WaitGroup is told.                                      *)
Leave(c) ==
  /\ pc[c] = "leave"
  /\ active' = [s \in Sessions |-> IF active[s] = c THEN NULL ELSE active[s]]
  /\ Local(c, "linked", FALSE)
  /\ Goto(c, IF proc[c].op = "resume" /\ Held(c) # {} THEN "done2" ELSE "done1")
  /\ IF proc[c].result = "ok" /\ proc[c].op \in {"new", "resume"}
       THEN /\ ready' = ready \cup {proc[c].ses}
            /\ known' = known \cup {proc[c].ses}
       ELSE UNCHANGED <<ready, known>>
  /\ UNCHANGED <<closed, rootDone, activeRuns, finish, closeErr, parts, used, leftover>>
Done(c) ==
  /\ pc[c] \in {"done1", "done2"}
  /\ activeRuns' = activeRuns - 1
  /\ IF pc[c] = "done2"
       THEN Goto(c, "done1") /\ UNCHANGED proc
       ELSE Goto(c, "idle") /\ proc' = [proc EXCEPT ![c] = Idle]
  /\ UNCHANGED <<closed, rootDone, active, finish, closeErr, parts, history>>

-----------------------------------------------------------------------------
(* The session store.                                                      *)

CallStore(c) ==
  /\ pc[c] = "store"
  /\ IF store.closed \/ Cancelled(c)
       THEN Fail(c) /\ UNCHANGED store
       ELSE /\ store' = [store EXCEPT !.inside = @ \cup {c}]
            /\ Goto(c, "storing") /\ UNCHANGED proc
  /\ UNCHANGED <<harness, contexts, extensions, mcpClosed, history>>

(* Create generates the ID, or completes the create that a failed call     *)
(* left behind; a failing Create may leave its marker and its transcript.  *)
CreateReturns(c) ==
  /\ pc[c] = "storing" /\ proc[c].op = "new"
  /\ \E s \in IF store.pending = NULL THEN Sessions \ used ELSE {store.pending} :
       /\ used' = used \cup {s}
       /\ \/ /\ store' = [store EXCEPT !.ids = @ \cup {s}, !.pending = NULL, !.inside = @ \ {c}]
             /\ Local(c, "ses", s)
             /\ Goto(c, "context")
          \/ /\ "store" \in Faults
             /\ \E kept \in SUBSET {s} :
                  store' = [store EXCEPT !.ids = @ \cup kept, !.pending = s, !.inside = @ \ {c}]
             /\ Fails(c, "leave")
  /\ UNCHANGED <<harness, contexts, extensions, mcpClosed, known, ready, leftover>>

(* Get for the other operations, and any call of the runner during a run.  *)
StoreReturns(c) ==
  /\ pc[c] = "storing" /\ proc[c].op # "new"
  /\ store' = [store EXCEPT !.inside = @ \ {c}]
  /\ \/ /\ proc[c].ses \in store.ids
        /\ Goto(c, IF proc[c].inRun THEN "run" ELSE IF proc[c].op = "resume" THEN "dropmcp" ELSE "extension")
        /\ UNCHANGED proc
     \/ /\ proc[c].ses \notin store.ids \/ "store" \in Faults
        /\ Fail(c)
  /\ UNCHANGED <<harness, contexts, extensions, mcpClosed, history>>

(* NewSession takes the session back with a context that nobody cancels.   *)
CallDelete(c) ==
  /\ pc[c] = "undo"
  /\ IF store.closed
       THEN /\ leftover' = leftover \cup {proc[c].ses}
            /\ Goto(c, "leave") /\ UNCHANGED store
       ELSE /\ store' = [store EXCEPT !.inside = @ \cup {c}]
            /\ Goto(c, "undoing") /\ UNCHANGED leftover
  /\ UNCHANGED <<harness, contexts, extensions, mcpClosed, proc, used, known, ready>>
DeleteReturns(c) ==
  /\ pc[c] = "undoing"
  /\ \/ /\ store' = [store EXCEPT !.ids = @ \ {proc[c].ses}, !.inside = @ \ {c}]
        /\ UNCHANGED leftover
     \/ /\ "store" \in Faults
        /\ \E lost \in SUBSET {proc[c].ses} :
             store' = [store EXCEPT !.ids = @ \ lost, !.inside = @ \ {c}]
        /\ leftover' = leftover \cup {proc[c].ses}
  /\ Goto(c, "leave")
  /\ UNCHANGED <<harness, contexts, extensions, mcpClosed, proc, used, known, ready>>

-----------------------------------------------------------------------------
(* The context resolver.                                                   *)

LeaveContexts(c) == contexts' = [contexts EXCEPT !.inside = @ \ {c}]
View(c) == contexts.views[proc[c].ses]

(* Resolver.beginOperation, for StartSession and for Instructions.         *)
CallContexts(c) ==
  /\ pc[c] = "context"
  /\ IF contexts.closed
       THEN Fail(c) /\ UNCHANGED contexts
       ELSE /\ contexts' = [contexts EXCEPT !.inside = @ \cup {c}]
            /\ Goto(c, "started") /\ UNCHANGED proc
  /\ UNCHANGED <<harness, store, extensions, mcpClosed, history>>

(* startSession looks for a view, discovers the documents without the      *)
(* mutex, and looks again.                                                 *)
startSession(c) ==
  /\ pc[c] = "started"
  /\ IF contexts.closed \/ Cancelled(c)
       THEN LeaveContexts(c) /\ Fail(c)
       ELSE /\ Goto(c, IF View(c) = "none" THEN "discover" ELSE AfterContext(c))
            /\ IF View(c) = "none" \/ proc[c].inRun THEN UNCHANGED contexts ELSE LeaveContexts(c)
            /\ UNCHANGED proc
  /\ UNCHANGED <<harness, store, extensions, mcpClosed, history>>
(* discover may finish although its context was cancelled meanwhile.       *)
Discovered(c) == ~contexts.closed
ContextStarts(c) ==
  /\ pc[c] = "discover"
  /\ \/ /\ Discovered(c)
        /\ contexts' = [contexts EXCEPT !.views[proc[c].ses] = IF @ = "none" THEN "plain" ELSE @,
                                        !.inside = IF proc[c].inRun THEN @ ELSE @ \ {c}]
        /\ Goto(c, AfterContext(c)) /\ UNCHANGED proc
     \/ /\ contexts.closed \/ Cancelled(c) \/ "context" \in Faults
        /\ LeaveContexts(c) /\ Fail(c)
  /\ UNCHANGED <<harness, store, extensions, mcpClosed, history>>

(* Instructions takes the view and, under its mutex, installs the scope.   *)
TakeView(c) ==
  /\ pc[c] = "lookup"
  /\ IF View(c) = "none"
       THEN LeaveContexts(c) /\ Fail(c)
       ELSE /\ Local(c, "view", View(c))
            /\ Goto(c, "render") /\ UNCHANGED contexts
  /\ UNCHANGED <<harness, store, extensions, mcpClosed, history>>
(* The policy of the view joins the scope: a narrowed scope stays so.      *)
SetOrIntersectPolicy(scope, view) ==
  IF scope = "narrowed" \/ view = "policy" THEN "narrowed" ELSE "open"
Instructions(c) ==
  /\ pc[c] = "render"
  /\ \/ /\ contexts' = [contexts EXCEPT !.inside = @ \ {c},
             !.scopes[proc[c].ses] = SetOrIntersectPolicy(@, proc[c].view)]
        /\ Goto(c, "run") /\ UNCHANGED proc
     \/ /\ Cancelled(c) \/ "context" \in Faults
        /\ LeaveContexts(c) /\ Fail(c)
  /\ UNCHANGED <<harness, store, extensions, mcpClosed, history>>

InstructionRecords(c) ==
  /\ pc[c] = "records"
  /\ Local(c, "recs", ~contexts.closed /\ View(c) # "none")
  /\ Goto(c, "extension")
  /\ UNCHANGED <<harness, parts, history>>

DropView(s) == [contexts EXCEPT !.views[s] = "none", !.scopes[s] = "none"]
(* DropSession after extensions failed, and before ResumeSession starts.   *)
DropContext(c) ==
  /\ pc[c] = "dropcontext"
  /\ contexts' = DropView(proc[c].ses)
  /\ Goto(c, IF proc[c].result = "failed" THEN FailTo(c) ELSE "dropextension")
  /\ UNCHANGED <<harness, store, extensions, mcpClosed, proc, history>>

(* Expand runs outside the operations that Close waits for.                *)
Expand(c) ==
  /\ pc[c] = "expand"
  /\ IF contexts.closed THEN Fail(c) ELSE Goto(c, "expanding") /\ UNCHANGED proc
  /\ UNCHANGED <<harness, parts, history>>
Expanded(c) ==
  /\ pc[c] = "expanding"
  /\ IF Cancelled(c) THEN Fail(c)
     ELSE \/ Fail(c)
          \/ proc[c].op = "get" /\ Succeed(c)
          \/ proc[c].op = "template" /\ Goto(c, "policy") /\ UNCHANGED proc
  /\ UNCHANGED <<harness, parts, history>>

(* SetRunPolicy, the first thing runAcquired does for a template.          *)
SetRunPolicy(c) ==
  /\ pc[c] = "policy"
  /\ IF View(c) = "none"
       THEN Fails(c, "releaserun") /\ UNCHANGED contexts
       ELSE /\ contexts' = [contexts EXCEPT !.views[proc[c].ses] = "policy"]
            /\ Goto(c, "store") /\ Local(c, "inRun", TRUE)
  /\ UNCHANGED <<harness, store, extensions, mcpClosed, history>>

ReleasedRun_Bug(s) == [contexts EXCEPT !.scopes[s] = "none"]
ReleasedRun(s) ==
  [contexts EXCEPT !.scopes[s] = "none", !.views[s] = IF @ = "none" THEN @ ELSE "plain"]
ReleaseRun(c) ==
  /\ pc[c] = "releaserun"
  /\ contexts' = ReleasedRun(proc[c].ses)
  /\ Goto(c, "leave")
  /\ UNCHANGED <<harness, store, extensions, mcpClosed, proc, history>>

-----------------------------------------------------------------------------
(* The extension store and the MCP manager.                                *)

Catalog(c) == extensions.views[proc[c].ses]

(* startSession of the extension store.  A caller that finds a discovery   *)
(* of its session pending would wait for it: OneDiscovery says none does.  *)
CallExtensions(c) ==
  /\ pc[c] = "extension"
  /\ IF Cancelled(c) \/ extensions.closed
       THEN ExtensionFails(c) /\ UNCHANGED extensions
       ELSE IF Catalog(c) # "none"
       THEN ExtensionDone(c) /\ UNCHANGED extensions
       ELSE /\ extensions' = [extensions EXCEPT !.inside = @ \cup {c}]
            /\ Goto(c, "catalog") /\ UNCHANGED proc
  /\ UNCHANGED <<harness, store, contexts, mcpClosed, history>>
ExtensionStarts(c) ==
  /\ pc[c] = "catalog"
  /\ \/ /\ ~extensions.closed
        /\ extensions' = [extensions EXCEPT !.inside = @ \ {c},
              !.views[proc[c].ses] = IF proc[c].recs THEN "full" ELSE "plain"]
        /\ ExtensionDone(c)
     \/ /\ extensions.closed \/ Cancelled(c) \/ "extension" \in Faults
        /\ extensions' = [extensions EXCEPT !.inside = @ \ {c}]
        /\ ExtensionFails(c)
  /\ UNCHANGED <<harness, store, contexts, mcpClosed, history>>

Snapshot(c) ==
  /\ pc[c] = "snapshot"
  /\ IF Catalog(c) = "none" THEN Fail(c)
     ELSE IF proc[c].op = "list" THEN Succeed(c)
     ELSE Goto(c, "expand") /\ UNCHANGED proc
  /\ UNCHANGED <<harness, parts, history>>

(* ResumeSession drops what the session had before it starts it again.     *)
DropMCP(c) ==
  /\ pc[c] = "dropmcp"
  /\ \/ /\ ~mcpClosed
        /\ Goto(c, "dropcontext") /\ UNCHANGED proc
        /\ ready' = ready \ {proc[c].ses}
     \/ /\ mcpClosed \/ Cancelled(c) \/ "mcp" \in Faults
        /\ Fail(c) /\ UNCHANGED ready
  /\ UNCHANGED <<harness, parts, used, known, leftover>>
DropExtension(c) ==
  /\ pc[c] = "dropextension"
  /\ extensions' = [extensions EXCEPT !.views[proc[c].ses] = "none"]
  /\ Goto(c, "context")
  /\ UNCHANGED <<harness, store, contexts, mcpClosed, proc, history>>

-----------------------------------------------------------------------------
(* The body of a run, driven by the ADK runner.                            *)

RunContinues(c) ==
  /\ pc[c] = "run"
  /\ \E label \in {"context", "extension", "store", "model"} : Goto(c, label)
  /\ UNCHANGED <<harness, parts, proc, history>>
RunEnds(c) ==
  /\ pc[c] = "run"
  /\ Goto(c, "releaserun")
  /\ \E result \in {"ok", "failed"} : Local(c, "result", result)
  /\ UNCHANGED <<harness, parts, history>>
(* A model or tool may take its time; "stuck" ones ignore cancellation.    *)
ModelReturns(c) ==
  /\ pc[c] = "model"
  /\ Goto(c, "run")
  /\ UNCHANGED <<harness, parts, proc, history>>

-----------------------------------------------------------------------------
(* Close.                                                                  *)

(* The host, or a tool in the middle of a run, calls Close.                *)
CallClose(c) ==
  /\ "close" \in Ops
  /\ pc[c] = "idle" \/ pc[c] = "run"
  /\ IF closed THEN Goto(c, "closing") /\ UNCHANGED <<closed, finish>>
               ELSE closed' = TRUE /\ finish' = "called" /\ Goto(c, "cancel")
  /\ UNCHANGED <<rootDone, active, activeRuns, closeErr, parts, proc, history>>
CancelAll_Bug(c) ==
  /\ pc[c] = "cancel"
  /\ finish' = "wait"
  /\ Goto(c, "closing")
  /\ UNCHANGED <<closed, rootDone, active, activeRuns, closeErr, parts, proc, history>>
(* The first caller cancels the root context and every session operation.  *)
CancelAll(c) ==
  /\ pc[c] = "cancel"
  /\ rootDone' = TRUE
  /\ proc' = [d \in Callers |-> [proc[d] EXCEPT !.cancelled = @ \/ Held(d) # {}]]
  /\ finish' = "wait"
  /\ Goto(c, "closing")
  /\ UNCHANGED <<closed, active, activeRuns, closeErr, parts, history>>
CloseReturns(c) ==
  /\ pc[c] = "closing"
  /\ finish = "closed"
  /\ Goto(c, IF proc[c].inRun THEN "run" ELSE "idle")
  /\ UNCHANGED <<harness, parts, proc, history>>

Finish(from, to) == finish = from /\ finish' = to
Keeps == UNCHANGED <<closed, rootDone, active, activeRuns, pc, proc, history>>
NoError == UNCHANGED closeErr
MayFail(kind) == closeErr' \in {closeErr} \cup {closeErr \cup {"resource"} : f \in {kind} \cap Faults}

RunsStopped == activeRuns = 0
(* finishClose waits for the operations, but not longer than its timer.    *)
StopsWaiting ==
  /\ Finish("wait", "plugins") /\ Keeps /\ UNCHANGED parts
  /\ RunsStopped /\ NoError
TimesOut ==
  /\ Finish("wait", "plugins") /\ Keeps /\ UNCHANGED parts
  /\ closeErr' = closeErr \cup {"timeout"}
closePluginResources ==
  /\ Finish("plugins", "mcp") /\ Keeps /\ UNCHANGED parts
  /\ MayFail("plugin")
CloseMCP ==
  /\ Finish("mcp", "extensions") /\ Keeps
  /\ MayFail("mcp")
  /\ mcpClosed' = TRUE
  /\ UNCHANGED <<store, contexts, extensions>>
CloseExtensions ==
  /\ Finish("extensions", "extensionswait") /\ Keeps /\ NoError
  /\ extensions' = [extensions EXCEPT !.closed = TRUE]
  /\ UNCHANGED <<store, contexts, mcpClosed>>
ExtensionsClosed ==
  /\ Finish("extensionswait", "contexts") /\ Keeps /\ NoError
  /\ extensions.inside = {}
  /\ extensions' = [extensions EXCEPT !.views = [s \in Sessions |-> "none"]]
  /\ UNCHANGED <<store, contexts, mcpClosed>>
CloseContexts ==
  /\ Finish("contexts", "contextswait") /\ Keeps /\ NoError
  /\ contexts' = [contexts EXCEPT !.closed = TRUE, !.views = [s \in Sessions |-> "none"],
                                  !.dropping = {s \in Sessions : contexts.views[s] # "none"}]
  /\ UNCHANGED <<store, extensions, mcpClosed>>
ContextsClosed ==
  /\ Finish("contextswait", "store") /\ Keeps /\ NoError
  /\ contexts.inside = {}
  /\ contexts' = [contexts EXCEPT !.dropping = {},
       !.scopes = [s \in Sessions |-> IF s \in contexts.dropping THEN "none" ELSE contexts.scopes[s]]]
  /\ UNCHANGED <<store, extensions, mcpClosed>>
CloseStore ==
  /\ Finish("store", "storewait") /\ Keeps /\ NoError
  /\ store' = [store EXCEPT !.closed = TRUE]
  /\ UNCHANGED <<contexts, extensions, mcpClosed>>
StoreClosed ==
  /\ Finish("storewait", "publish") /\ Keeps
  /\ store.inside = {}
  /\ MayFail("store")
  /\ UNCHANGED parts
PublishClose ==
  /\ Finish("publish", "closed") /\ Keeps /\ NoError
  /\ UNCHANGED parts

-----------------------------------------------------------------------------

Step(c) ==
  \/ Admit(c) \/ Leave(c) \/ Done(c)
  \/ CallStore(c) \/ CreateReturns(c) \/ StoreReturns(c) \/ CallDelete(c) \/ DeleteReturns(c)
  \/ CallContexts(c) \/ startSession(c) \/ ContextStarts(c) \/ TakeView(c) \/ Instructions(c)
  \/ InstructionRecords(c) \/ DropContext(c) \/ Expand(c) \/ Expanded(c)
  \/ SetRunPolicy(c) \/ ReleaseRun(c)
  \/ CallExtensions(c) \/ ExtensionStarts(c) \/ Snapshot(c) \/ DropMCP(c) \/ DropExtension(c)
  \/ CancelAll(c) \/ CloseReturns(c)
finishClose ==
  \/ StopsWaiting \/ TimesOut \/ closePluginResources \/ CloseMCP
  \/ CloseExtensions \/ ExtensionsClosed \/ CloseContexts \/ ContextsClosed
  \/ CloseStore \/ StoreClosed \/ PublishClose

Next ==
  \/ \E c \in Callers :
       \/ CallOperation(c) \/ CallSessionOperation(c) \/ CallClose(c)
       \/ HostCancels(c) \/ linkedOperationContext(c)
       \/ RunContinues(c) \/ RunEnds(c) \/ ModelReturns(c)
       \/ Step(c)
  \/ finishClose

Spec == Init /\ [][Next]_vars

(* The Go scheduler runs every goroutine that can run; a part finishes     *)
(* what it was called for.  A cancelled run comes to its end, unless its   *)
(* model or a tool is stuck; nothing makes an uncancelled one end.         *)
Fairness ==
  /\ \A c \in Callers :
       /\ WF_vars(Step(c)) /\ WF_vars(linkedOperationContext(c))
       /\ SF_vars(RunEnds(c) /\ Cancelled(c))
       /\ "stuck" \notin Faults => WF_vars(ModelReturns(c) /\ Cancelled(c))
  /\ WF_vars(finishClose)
FairSpec == Spec /\ Fairness

-----------------------------------------------------------------------------
(* Properties.                                                             *)

Teardown == {"plugins", "mcp", "extensions", "extensionswait", "contexts", "contextswait",
             "store", "storewait", "publish", "closed"}
InCall(c) == proc[c].op # "none"
Running(c, s) == active[s] = c /\ proc[c].inRun

(* The types of the variables.                                             *)
TypeOK ==
  /\ closed \in BOOLEAN /\ rootDone \in BOOLEAN /\ mcpClosed \in BOOLEAN
  /\ active \in [Sessions -> Callers \cup {NULL}]
  /\ activeRuns \in Nat
  /\ finish \in Teardown \cup {"open", "called", "wait"}
  /\ closeErr \subseteq {"timeout", "resource"}
  /\ store \in [ids : SUBSET Sessions, pending : Sessions \cup {NULL}, closed : BOOLEAN,
                inside : SUBSET Callers]
  /\ contexts \in [closed : BOOLEAN, inside : SUBSET Callers, dropping : SUBSET Sessions,
                   views : [Sessions -> {"none", "plain", "policy"}],
                   scopes : [Sessions -> {"none", "open", "narrowed"}]]
  /\ extensions \in [closed : BOOLEAN, inside : SUBSET Callers,
                     views : [Sessions -> {"none", "plain", "full"}]]
  /\ proc \in [Callers -> [op : Ops \cup {"none"}, ses : Sessions \cup {NULL}, linked : BOOLEAN,
                           cancelled : BOOLEAN, recs : BOOLEAN, inRun : BOOLEAN,
                           view : {"none", "plain", "policy"}, result : {"none", "ok", "failed"}]]
  /\ pc \in [Callers -> {"idle", "admit", "store", "storing", "context", "started", "discover",
         "records", "extension", "catalog", "snapshot", "dropmcp", "dropcontext", "dropextension",
         "undo", "undoing", "expand", "expanding", "policy", "run", "lookup", "render", "model",
         "releaserun", "leave", "done1", "done2", "cancel", "closing"}]
  /\ used \subseteq Sessions /\ known \subseteq used /\ ready \subseteq known
  /\ leftover \subseteq used

(* finishClose takes the parts down under a running operation only when    *)
(* Close is going to report ErrCloseTimeout.                               *)
InterruptsOnlyAfterTimeout ==
  finish \in Teardown /\ "timeout" \notin closeErr => \A c \in Callers : ~InCall(c)

(* A tool-policy scope exists only while a run of its session does, so no  *)
(* late tool call finds the scope of an earlier run; and whatever the      *)
(* other goroutines do, the scope of a template run is narrowed by the     *)
(* policy of its template, while a plain run does not inherit one.         *)
ScopesFollowRuns ==
  \A s \in Sessions : contexts.scopes[s] # "none" =>
    \E c \in Callers :
      /\ Running(c, s)
      /\ contexts.scopes[s] = "narrowed" <=> proc[c].op = "template"

(* NewSession and ResumeSession are all or nothing.  A session in the      *)
(* store is one the host can name, one that a NewSession in progress       *)
(* holds, one whose failed Delete an error has reported, or one that the   *)
(* next NewSession completes; and until Close a session that was made      *)
(* ready keeps its context view and a catalog with its instruction         *)
(* records.                                                                *)
SessionsAreWhole ==
  /\ \A s \in store.ids :
       \/ s \in known \cup leftover \cup {store.pending}
       \/ \E c \in Callers : proc[c].op = "new" /\ proc[c].ses = s
  /\ \A s \in ready :
       /\ finish \notin Teardown => contexts.views[s] # "none" /\ extensions.views[s] = "full"
       /\ extensions.views[s] # "plain"

(* Every Close returns, even when a run is stuck or calls Close itself;    *)
(* and once Close is called, every operation comes to its end or is inside *)
(* the call of a model or tool, whose answer nothing can force: no         *)
(* operation hangs in the harness itself.                                  *)
CloseStopsAll ==
  \A c \in Callers :
    /\ pc[c] \in {"cancel", "closing"} ~> pc[c] \notin {"cancel", "closing"}
    /\ closed /\ InCall(c) ~> (~InCall(c) \/ pc[c] = "model")
=============================================================================
