--------------------------- MODULE LanguageServers ---------------------------
(***************************************************************************)
(* Language servers behind the write and edit tools: src/lsp/manager.go    *)
(* (one process for each server and workspace root, started by the first   *)
(* touch that matches, replaced when it exits, disabled after FailureLimit *)
(* failures), src/lsp/enforcer.go (which server reports belong to which    *)
(* tool call) and the lifetime of a transport in process.go, transport.go. *)
(*                                                                         *)
(* A text is the number of the touch that wrote it.  The model leaves out  *)
(* the exported methods that only tests call (Call, DidOpen, DidChange,    *)
(* DidClose, Diagnostics), the normalization and rendering of diagnostics, *)
(* warnings, and the selection of roots and servers.                       *)
(***************************************************************************)
EXTENDS Naturals, FiniteSets

CONSTANTS
  Callers,         \* write and edit calls at a time
  Keys,            \* pairs of server and workspace root that match the documents
  Docs,
  Clients,         \* bound: clients that somebody still refers to
  FailureLimit,
  MaxTouches,      \* bound
  MaxPublications, \* bound on the publications a client accepts for a document
  Unversioned,     \* servers report on documents that are not open, too
  NULL

ASSUME ConstantsAssumption ==
  /\ FailureLimit \in Nat \ {0}
  /\ MaxTouches \in Nat /\ MaxPublications \in Nat
  /\ Unversioned \in BOOLEAN
  /\ NULL \notin Callers \cup Keys \cup Docs \cup Clients

VARIABLES
  \* Manager
  closed,     \* Close has begun, lifecycle contexts are canceled
  starting,   \* starting[k]: its start is under way
  client,     \* client[k]: serverState.client
  failures, disabled,
  closing,    \* Close: "none", "waiting" for starts, then "clean" or "timeout"
  \* clients
  key,        \* key[c], NULL before the client is used
  wire,       \* wire[c]: "up", "cut" (disconnected, or being stopped), "down"
  watched,    \* clients with a watch goroutine
  docLock,    \* documentMu: the caller inside syncDocument, or NULL
  version,    \* versions[path], 0 for a document that is not open
  diag,       \* diagnosticState of a document
  \* the servers and the disk
  disk,
  received,   \* the texts a server has loaded or been sent, with their versions
  mistold,    \* history: clients for which a notification failed that was sent
              \* over a connection that stays
  \* Enforcer
  enforcing,  \* not closed
  receipts,
  \* the callers
  touches, pc, proc

manager  == <<closed, starting, client, failures, disabled, closing>>
clients  == <<key, wire, watched>>
document == <<docLock, version, diag>>
server   == <<disk, received, mistold>>
enforcer == <<enforcing, receipts>>
vars == <<manager, clients, document, server, enforcer, touches, pc, proc>>

NoDiag == [document |-> 0, generation |-> 0, values |-> NULL, publication |-> 0, versioned |-> FALSE]

(* A call: todo are the servers that ObserveTouch has not reached, code is *)
(* how its start ended, waits are tickets, found those whose client is     *)
(* still the current one, decor is what the tool result will show.         *)
Idle == [doc |-> NULL, text |-> 0, todo |-> {}, key |-> NULL, con |-> NULL, code |-> "",
         version |-> 0, previous |-> 0, generation |-> 0, waits |-> {}, found |-> {}, decor |-> {}]

Init ==
  /\ closed = FALSE /\ closing = "none"
  /\ starting = [k \in Keys |-> FALSE]
  /\ client = [k \in Keys |-> NULL]
  /\ failures = [k \in Keys |-> 0]
  /\ disabled = [k \in Keys |-> FALSE]
  /\ key = [c \in Clients |-> NULL]
  /\ wire = [c \in Clients |-> "down"]
  /\ watched = {}
  /\ docLock = [c \in Clients |-> NULL]
  /\ version = [c \in Clients |-> [d \in Docs |-> 0]]
  /\ diag = [c \in Clients |-> [d \in Docs |-> NoDiag]]
  /\ disk = [d \in Docs |-> 0]
  /\ received = [c \in Clients |-> [d \in Docs |-> {}]]
  /\ mistold = {}
  /\ enforcing = TRUE
  /\ receipts = [p \in Callers |-> {}]
  /\ touches = 0
  /\ pc = [p \in Callers |-> "idle"]
  /\ proc = [p \in Callers |-> Idle]

Goto(p, label) == pc' = [pc EXCEPT ![p] = label]
Cut(c) == wire' = [wire EXCEPT ![c] = IF @ = "up" THEN "cut" ELSE @]

(* The next server for the touch, or the end of ObserveTouch.  When the    *)
(* context has ended, synchronize ends at once for the servers that follow.*)
Cleared(p) == [proc[p] EXCEPT !.key = NULL, !.con = NULL, !.code = "",
                              !.version = 0, !.previous = 0, !.generation = 0]
NextServer(p)    == Goto(p, "next") /\ proc' = [proc EXCEPT ![p] = Cleared(p)]
NoMoreServers(p) == Goto(p, "next") /\ proc' = [proc EXCEPT ![p] = [Cleared(p) EXCEPT !.todo = {}]]

-----------------------------------------------------------------------------
(* recordFailure, and the end of the transport of a server it disables.    *)
(* A definition named ..._Bug is that of a faulty program: it breaks a     *)
(* property below when it stands in for the one it precedes.               *)

Counts(c) == client[key[c]] = c /\ ~closed
AtLimit(k) == failures[k] + 1 >= FailureLimit
Disables(c) == Counts(c) /\ AtLimit(key[c])

Detached_Bug(c, disconnected) == IF disconnected THEN NULL ELSE c
Detached(c, disconnected) == IF disconnected \/ AtLimit(key[c]) THEN NULL ELSE c

RecordFailure(c, disconnected) ==
  IF Counts(c)
  THEN /\ failures' = [failures EXCEPT ![key[c]] = @ + 1]
       /\ client' = [client EXCEPT ![key[c]] = Detached(c, disconnected)]
       /\ disabled' = [disabled EXCEPT ![key[c]] = @ \/ AtLimit(key[c])]
  ELSE UNCHANGED <<client, failures, disabled>>

-----------------------------------------------------------------------------
(* ObserveTouch and Manager.Start.                                         *)

(* A tool has replaced the file and publishes the touch.                   *)
BeginTouch(p) ==
  /\ pc[p] = "idle" /\ touches < MaxTouches
  /\ touches' = touches + 1
  /\ \E d \in Docs :
       /\ disk' = [disk EXCEPT ![d] = touches + 1]
       /\ proc' = [proc EXCEPT ![p] = [Idle EXCEPT !.doc = d, !.text = touches + 1,
                                                   !.todo = IF enforcing THEN Keys ELSE {}]]
  /\ Goto(p, "next")
  /\ UNCHANGED <<manager, clients, document, received, mistold, enforcer>>

Starting_Bug(k) == FALSE
Starting(k) == starting[k]

(* beginStart for one of the servers that are left.                        *)
BeginStart(p) ==
  /\ pc[p] = "next"
  /\ \E k \in proc[p].todo :
       LET Proceed(c) == proc' = [proc EXCEPT ![p].key = k, ![p].todo = @ \ {k}, ![p].con = c] IN
       \/ /\ closed \/ (client[k] = NULL /\ disabled[k])
          /\ proc' = [proc EXCEPT ![p].todo = @ \ {k}]
          /\ UNCHANGED <<pc, starting>>
       \/ /\ ~closed /\ client[k] # NULL
          /\ Goto(p, "sync") /\ Proceed(client[k])
          /\ UNCHANGED starting
       \/ /\ ~closed /\ client[k] = NULL /\ ~disabled[k] /\ Starting(k)
          /\ Goto(p, "waiting") /\ Proceed(NULL)
          /\ UNCHANGED starting
       \/ /\ ~closed /\ client[k] = NULL /\ ~disabled[k] /\ ~Starting(k)
          /\ starting' = [starting EXCEPT ![k] = TRUE]
          /\ Goto(p, "launch") /\ Proceed(NULL)
  /\ UNCHANGED <<closed, client, failures, disabled, closing, clients, document, server, enforcer, touches>>

(* The context of a caller that waits for the start of another one ends.   *)
StopWaiting(p) ==
  /\ pc[p] = "waiting"
  /\ NoMoreServers(p)
  /\ UNCHANGED <<manager, clients, document, server, enforcer, touches>>

(* startClient, up to the transport.                                       *)
LaunchFails(p) ==
  /\ pc[p] = "launch"
  /\ \E code \in {"unavailable", "failed", "ended"} : proc' = [proc EXCEPT ![p].code = code]
  /\ Goto(p, "complete")
  /\ UNCHANGED <<manager, clients, document, server, enforcer, touches>>

(* Clients that somebody still refers to.                                  *)
Tickets(p) == proc[p].waits \cup proc[p].found \cup receipts[p]
Held == {proc[p].con : p \in Callers} \cup {client[k] : k \in Keys} \cup watched
          \cup {w.con : w \in UNION {Tickets(p) : p \in Callers}}

Launch(p) ==
  /\ pc[p] = "launch"
  /\ \E c \in Clients \ Held :
       /\ wire[c] = "down"
       /\ key' = [key EXCEPT ![c] = proc[p].key]
       /\ wire' = [wire EXCEPT ![c] = "up"]
       /\ version' = [version EXCEPT ![c] = [d \in Docs |-> 0]]
       /\ diag' = [diag EXCEPT ![c] = [d \in Docs |-> NoDiag]]
       /\ received' = [received EXCEPT ![c] = [d \in Docs |-> {[version |-> 0, text |-> disk[d]]}]]
       /\ mistold' = mistold \ {c}
       /\ proc' = [proc EXCEPT ![p].con = c]
  /\ Goto(p, "initialize")
  /\ UNCHANGED <<manager, watched, docLock, disk, enforcer, touches>>

(* The handshake; one that fails or is given up closes the transport.      *)
Initialize(p) ==
  /\ pc[p] = "initialize"
  /\ \/ /\ wire[proc[p].con] = "up"
        /\ proc' = [proc EXCEPT ![p].code = "ok"]
        /\ UNCHANGED wire
     \/ /\ \E code \in {"failed", "ended"} : proc' = [proc EXCEPT ![p].code = code, ![p].con = NULL]
        /\ Cut(proc[p].con)
  /\ Goto(p, "complete")
  /\ UNCHANGED <<manager, key, watched, document, server, enforcer, touches>>

(* completeStart, which wakes whoever waits for the start.  A client that  *)
(* has disconnected already is rejected; a start whose caller's context    *)
(* has ended meanwhile does not count.  Without a client finishStart has   *)
(* nothing left to do.                                                     *)
Wakes(q, k) == pc[q] = "waiting" /\ proc[q].key = k

Installs(code) == code = "ok" /\ ~closed

Complete(p) ==
  LET k == proc[p].key
      dead == proc[p].con # NULL /\ wire[proc[p].con] = "down" IN
  /\ pc[p] = "complete"
  /\ \E code \in {IF dead THEN "failed" ELSE proc[p].code, "ended"} :
       LET c == IF dead /\ code = "failed" THEN NULL ELSE proc[p].con
           left == [Cleared(p) EXCEPT !.todo = IF code = "ended" THEN {} ELSE @] IN
       /\ client' = [client EXCEPT ![k] = IF Installs(code) THEN c ELSE @]
       /\ failures' = [failures EXCEPT ![k] =
                         IF Installs(code) THEN 0 ELSE IF code = "ended" THEN @ ELSE @ + 1]
       /\ disabled' = [disabled EXCEPT ![k] =
                         /\ ~Installs(code) /\ code # "ended"
                         /\ code = "unavailable" \/ AtLimit(k)]
       /\ pc' = [q \in Callers |-> IF q = p THEN IF c = NULL THEN "next" ELSE "finish"
                                   ELSE IF Wakes(q, k) THEN "next" ELSE pc[q]]
       /\ proc' = [q \in Callers |->
                     IF q = p
                     THEN IF c = NULL THEN left
                          ELSE [proc[p] EXCEPT !.code = IF code = "ok" /\ ~Installs(code) THEN "closed" ELSE code]
                     ELSE IF Wakes(q, k) THEN [Cleared(q) EXCEPT !.todo = @ \cup {k}] ELSE proc[q]]
  /\ starting' = [starting EXCEPT ![k] = FALSE]
  /\ UNCHANGED <<closed, closing, clients, document, server, enforcer, touches>>

(* finishStart: a client that was not taken over is closed, any other is   *)
(* watched.                                                                *)
Discard_Bug(p) == UNCHANGED wire
Discard(p) == Cut(proc[p].con)

FinishStart(p) ==
  /\ pc[p] = "finish"
  /\ \/ /\ proc[p].code = "ok"
        /\ watched' = watched \cup {proc[p].con}
        /\ Goto(p, "sync") /\ proc' = [proc EXCEPT ![p].code = ""]
        /\ UNCHANGED wire
     \/ /\ proc[p].code # "ok"
        /\ Discard(p)
        /\ IF proc[p].code = "ended" THEN NoMoreServers(p) ELSE NextServer(p)
        /\ UNCHANGED watched
  /\ UNCHANGED <<manager, key, document, server, enforcer, touches>>

-----------------------------------------------------------------------------
(* syncDocument.                                                           *)

Prepare(p) ==
  LET c == proc[p].con
      d == proc[p].doc IN
  /\ pc[p] = "sync"
  /\ docLock[c] = NULL
  /\ docLock' = [docLock EXCEPT ![c] = p]
  /\ diag' = [diag EXCEPT ![c][d].document = version[c][d] + 1]
  /\ proc' = [proc EXCEPT ![p].version = version[c][d] + 1,
                          ![p].previous = diag[c][d].document,
                          ![p].generation = diag[c][d].generation]
  /\ Goto(p, "notify")
  /\ UNCHANGED <<manager, clients, version, server, enforcer, touches>>

Receives(p) ==
  received' = [received EXCEPT ![proc[p].con][proc[p].doc] =
                 @ \cup {[version |-> proc[p].version, text |-> proc[p].text]}]

Ticket(p) == [key |-> proc[p].key, con |-> proc[p].con, doc |-> proc[p].doc,
              version |-> proc[p].version, generation |-> proc[p].generation]

NotifyDocument(p) ==
  LET c == proc[p].con IN
  /\ pc[p] = "notify" /\ wire[c] = "up"
  /\ Receives(p)
  /\ version' = [version EXCEPT ![c][proc[p].doc] = proc[p].version]
  /\ docLock' = [docLock EXCEPT ![c] = NULL]
  /\ proc' = [proc EXCEPT ![p] = [Cleared(p) EXCEPT !.waits = @ \cup {Ticket(p)}]]
  /\ Goto(p, "next")
  /\ UNCHANGED <<manager, clients, diag, disk, mistold, enforcer, touches>>

(* Notify fails.  When its context ends, runBounded closes the connection, *)
(* whether or not the message was sent, unless the context ends between    *)
(* its last two statements: the message is sent and the connection stays.  *)
(* A failure does not count when the context of the caller has ended.      *)
NotifyFails(p) ==
  LET c == proc[p].con IN
  /\ pc[p] = "notify"
  /\ \E sent, cut, counts \in BOOLEAN :
       /\ sent => wire[c] = "up"
       /\ IF sent THEN Receives(p) ELSE UNCHANGED received
       /\ mistold' = IF sent /\ ~cut THEN mistold \cup {c} ELSE mistold
       /\ IF counts THEN RecordFailure(c, FALSE) ELSE UNCHANGED <<client, failures, disabled>>
       /\ IF cut \/ (counts /\ Disables(c)) THEN Cut(c) ELSE UNCHANGED wire
       /\ proc' = [proc EXCEPT ![p].todo = IF counts THEN @ ELSE {}]
  /\ Goto(p, "undo")
  /\ UNCHANGED <<closed, starting, closing, key, watched, document, disk, enforcer, touches>>

(* rollbackDiagnostics.                                                    *)
Restored(p) == proc[p].previous

Rollback(p) ==
  /\ pc[p] = "undo"
  /\ diag' = [diag EXCEPT ![proc[p].con][proc[p].doc].document = Restored(p)]
  /\ docLock' = [docLock EXCEPT ![proc[p].con] = NULL]
  /\ NextServer(p)
  /\ UNCHANGED <<manager, clients, version, server, enforcer, touches>>

-----------------------------------------------------------------------------
(* The receipt of a tool call, and what its result is decorated with.      *)

Keeps == enforcing

StoreReceipt(p) ==
  /\ pc[p] = "next" /\ proc[p].todo = {}
  /\ receipts' = [receipts EXCEPT ![p] = IF Keeps THEN proc[p].waits ELSE {}]
  /\ proc' = [proc EXCEPT ![p].waits = {}]
  /\ Goto(p, "returned")
  /\ UNCHANGED <<manager, clients, document, server, enforcing, touches>>

Return(p) == Goto(p, "idle") /\ proc' = [proc EXCEPT ![p] = Idle]

(* The call fails after all (Drop), or no server was told.                 *)
Drop(p) ==
  /\ pc[p] = "returned"
  /\ receipts' = [receipts EXCEPT ![p] = {}]
  /\ Return(p)
  /\ UNCHANGED <<manager, clients, document, server, enforcing, touches>>

Await(p) ==
  /\ pc[p] = "returned" /\ receipts[p] # {}
  /\ receipts' = [receipts EXCEPT ![p] = {}]
  /\ proc' = [proc EXCEPT ![p].waits = receipts[p]]
  /\ Goto(p, "await")
  /\ UNCHANGED <<manager, clients, document, server, enforcing, touches>>

(* waitForDiagnostics: a client that was replaced since has nothing to say.*)
LookUp(p) ==
  /\ pc[p] = "await"
  /\ \E w \in proc[p].waits :
       proc' = [proc EXCEPT ![p].waits = @ \ {w},
                            ![p].found = IF client[w.key] = w.con THEN @ \cup {w} ELSE @]
  /\ UNCHANGED <<manager, clients, document, server, enforcer, touches, pc>>

Settled_Bug(w) == LET s == diag[w.con][w.doc] IN
  s.document = w.version /\ (~s.versioned \/ s.publication = w.version) /\ s.values # NULL
Settled(w) == LET s == diag[w.con][w.doc] IN
  /\ s.document = w.version
  /\ s.generation > w.generation
  /\ ~s.versioned \/ s.publication = w.version

Decorate(p) ==
  /\ pc[p] = "await"
  /\ \E w \in proc[p].found :
       LET s == diag[w.con][w.doc] IN
       /\ Settled(w)
       /\ proc' = [proc EXCEPT ![p].found = @ \ {w},
                               ![p].decor = @ \cup {[text |-> s.values, version |-> w.version,
                                                     versioned |-> s.versioned,
                                                     misled |-> w.con \in mistold]}]
  /\ UNCHANGED <<manager, clients, document, server, enforcer, touches, pc>>

(* A newer version of the document, the settle timeout, or the end of the  *)
(* caller's context.                                                       *)
Unsettled(p) ==
  /\ pc[p] = "await"
  /\ \E w \in proc[p].found : proc' = [proc EXCEPT ![p].found = @ \ {w}]
  /\ UNCHANGED <<manager, clients, document, server, enforcer, touches, pc>>

EndTouch(p) ==
  /\ pc[p] = "await" /\ proc[p].waits = {} /\ proc[p].found = {}
  /\ Return(p)
  /\ UNCHANGED <<manager, clients, document, server, enforcer, touches>>

-----------------------------------------------------------------------------
(* A server and its process.                                               *)

(* It reports, any number of times and in any order, on the texts it knows,*)
(* without a version on one that it has only loaded.                       *)
Accepts(s, m, versioned) ==
  IF versioned THEN s.document \in {0, m.version} ELSE s.document <= 1

Publish(c, d) ==
  /\ wire[c] # "down"
  /\ diag[c][d].generation < MaxPublications
  /\ \E m \in received[c][d], versioned \in BOOLEAN :
       /\ IF versioned THEN m.version > 0 ELSE m.version = 0 /\ Unversioned
       /\ Accepts(diag[c][d], m, versioned)
       /\ diag' = [diag EXCEPT ![c][d] =
                    [document |-> @.document, generation |-> @.generation + 1, values |-> m.text,
                     publication |-> IF versioned THEN m.version ELSE 0, versioned |-> versioned]]
  /\ UNCHANGED <<manager, clients, docLock, version, server, enforcer, touches, pc, proc>>

(* handleMessage: a publication that cannot be decoded or leaves the root. *)
Garble(c) ==
  /\ wire[c] # "down"
  /\ Counts(c)
  /\ RecordFailure(c, FALSE)
  /\ IF Disables(c) THEN Cut(c) ELSE UNCHANGED wire
  /\ UNCHANGED <<closed, starting, closing, key, watched, document, server, enforcer, touches, pc, proc>>

Exit(c) ==
  /\ wire[c] = "up"
  /\ Cut(c)
  /\ UNCHANGED <<manager, key, watched, document, server, enforcer, touches, pc, proc>>

(* The lifecycle context of the manager has ended.                         *)
Lifecycle(c) ==
  /\ closed /\ wire[c] = "up"
  /\ Cut(c)
  /\ UNCHANGED <<manager, key, watched, document, server, enforcer, touches, pc, proc>>

(* The process tree is gone: Done is closed.                               *)
Reap(c) ==
  /\ wire[c] = "cut"
  /\ wire' = [wire EXCEPT ![c] = "down"]
  /\ UNCHANGED <<manager, key, watched, document, server, enforcer, touches, pc, proc>>

Watch(c) ==
  /\ c \in watched
  /\ wire[c] = "down" \/ closed
  /\ watched' = watched \ {c}
  /\ RecordFailure(c, TRUE)
  /\ UNCHANGED <<closed, starting, closing, key, wire, document, server, enforcer, touches, pc, proc>>

-----------------------------------------------------------------------------
(* Close of the enforcer, then of the manager.                             *)

CloseEnforcer ==
  /\ enforcing
  /\ enforcing' = FALSE
  /\ receipts' = [p \in Callers |-> {}]
  /\ UNCHANGED <<manager, clients, document, server, touches, pc, proc>>

CloseManager ==
  /\ ~enforcing /\ ~closed
  /\ closed' = TRUE /\ closing' = "waiting"
  /\ client' = [k \in Keys |-> NULL]
  /\ wire' = [c \in Clients |-> IF wire[c] = "up" /\ c \in {client[k] : k \in Keys} THEN "cut" ELSE wire[c]]
  /\ UNCHANGED <<starting, failures, disabled, key, watched, document, server, enforcer, touches, pc, proc>>

(* The starts under way are over, or InitializeTimeout is.                 *)
CloseEnds ==
  /\ closing = "waiting"
  /\ closing' = IF \A k \in Keys : ~starting[k] THEN "clean" ELSE "timeout"
  /\ UNCHANGED <<closed, starting, client, failures, disabled, clients, document, server, enforcer,
                 touches, pc, proc>>

-----------------------------------------------------------------------------
Next ==
  \/ \E p \in Callers :
       \/ BeginTouch(p) \/ BeginStart(p) \/ StopWaiting(p)
       \/ LaunchFails(p) \/ Launch(p) \/ Initialize(p) \/ Complete(p) \/ FinishStart(p)
       \/ Prepare(p) \/ NotifyDocument(p) \/ NotifyFails(p) \/ Rollback(p)
       \/ StoreReceipt(p) \/ Drop(p) \/ Await(p)
       \/ LookUp(p) \/ Decorate(p) \/ Unsettled(p) \/ EndTouch(p)
  \/ \E c \in Clients :
       \/ Garble(c) \/ Exit(c) \/ Lifecycle(c) \/ Reap(c) \/ Watch(c)
       \/ \E d \in Docs : Publish(c, d)
  \/ CloseEnforcer \/ CloseManager \/ CloseEnds

Spec == Init /\ [][Next]_vars

-----------------------------------------------------------------------------
Labels == {"idle", "next", "waiting", "launch", "initialize", "complete", "finish",
           "sync", "notify", "undo", "returned", "await"}
Texts == 0..MaxTouches
TicketSet == [key: Keys, con: Clients, doc: Docs, version: Texts, generation: Nat]
DiagnosticState == [document: Texts, generation: Nat, values: Texts \cup {NULL},
                    publication: Texts, versioned: BOOLEAN]
Call == [doc: Docs \cup {NULL}, text: Texts, todo: SUBSET Keys, key: Keys \cup {NULL},
         con: Clients \cup {NULL}, code: {"", "ok", "unavailable", "failed", "ended", "closed"},
         version: Texts, previous: Texts, generation: Nat,
         waits: SUBSET TicketSet, found: SUBSET TicketSet,
         decor: SUBSET [text: Texts, version: Texts, versioned: BOOLEAN, misled: BOOLEAN]]

TypeOK ==
  /\ closed \in BOOLEAN /\ enforcing \in BOOLEAN
  /\ closing \in {"none", "waiting", "clean", "timeout"}
  /\ starting \in [Keys -> BOOLEAN] /\ disabled \in [Keys -> BOOLEAN]
  /\ client \in [Keys -> Clients \cup {NULL}]
  /\ failures \in [Keys -> 0..FailureLimit]
  /\ key \in [Clients -> Keys \cup {NULL}]
  /\ wire \in [Clients -> {"up", "cut", "down"}]
  /\ watched \in SUBSET Clients /\ mistold \in SUBSET Clients
  /\ docLock \in [Clients -> Callers \cup {NULL}]
  /\ version \in [Clients -> [Docs -> Texts]]
  /\ diag \in [Clients -> [Docs -> DiagnosticState]]
  /\ disk \in [Docs -> Texts]
  /\ received \in [Clients -> [Docs -> SUBSET [version: Texts, text: Texts]]]
  /\ receipts \in [Callers -> SUBSET TicketSet]
  /\ touches \in Texts
  /\ pc \in [Callers -> Labels]
  /\ proc \in [Callers -> Call]

Starter(p) == pc[p] \in {"launch", "initialize", "complete"}

(* A process that nobody has stopped is the client of the manager, or in   *)
(* the hands of the call that starts it, or dies with the closed manager;  *)
(* and after a Close without an error no server is started or kept, and no *)
(* receipt of a call that was under way is left behind.                    *)
NothingForgotten ==
  /\ \A c \in Clients : wire[c] = "up" =>
       \/ closed
       \/ \E k \in Keys : client[k] = c
       \/ \E p \in Callers : proc[p].con = c /\ pc[p] \in {"initialize", "complete", "finish"}
  /\ closing = "clean" =>
       /\ \A k \in Keys : client[k] = NULL /\ ~starting[k]
       /\ \A p \in Callers : receipts[p] = {}

(* "starts one server per resolved workspace root and server ID": one call *)
(* starts it, however many touches come at once, restarts included, and    *)
(* the only second process is one that its own starter is about to stop.   *)
OneServer ==
  /\ \A p, q \in Callers : Starter(p) /\ Starter(q) /\ proc[p].key = proc[q].key => p = q
  /\ \A c, e \in Clients :
       wire[c] = "up" /\ wire[e] = "up" /\ key[c] = key[e] /\ c # e /\ ~closed =>
         \E p \in Callers : pc[p] = "finish" /\ proc[p].code = "ended" /\ proc[p].con \in {c, e}

(* What decorates a result was reported for the text of that very call, by *)
(* its version, unless the server has been sent another text under the     *)
(* same one; a report without a version counts for the first only.         *)
DecorationsFit ==
  \A p \in Callers : \A x \in proc[p].decor :
    IF x.versioned THEN x.text = proc[p].text \/ x.misled ELSE x.version = 1
=============================================================================
