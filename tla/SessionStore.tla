--------------------------- MODULE SessionStore ---------------------------
(***************************************************************************)
(* The durable session store (src/sessionstore) of one application:        *)
(* concurrent Create, AppendEvent, Get, List and Delete calls over the     *)
(* session transcripts, the create/delete markers, the shared app and user *)
(* journals and the order sequence, with I/O faults and process crashes.   *)
(*                                                                         *)
(* A step of the model is a stretch of the code between two points where   *)
(* another goroutine can interfere: a lock is taken or released, a durable *)
(* file changes, or one transcript is read by a scan.  The io lock of a    *)
(* transcript, the order lock, pendingMu and cacheMu protect stretches     *)
(* that are single steps here.                                             *)
(*                                                                         *)
(* Data is abstracted to logical records.  A delta is identified with the  *)
(* record that carries it: projectJournal keeps, for every key, the value  *)
(* of the record with the highest order, so a projected state is the set   *)
(* of records it was computed from.  Every record has an app delta; the    *)
(* records of UserEvents have a user delta too.  A torn tail is a record   *)
(* that was not appended: every load cuts it off before anything else.     *)
(*                                                                         *)
(* An error that is returned before anything changed is the same as the    *)
(* call not being made, and has no step of its own.                        *)
(***************************************************************************)
EXTENDS Naturals

CONSTANTS
  Procs,       \* goroutines that call the store
  Users,
  Sessions,    \* session identities (a path below users/<user>/sessions)
  UserOf,      \* the user a session identity belongs to
  Events,      \* event IDs handed to AppendEvent
  Header,      \* stands for the session header among the events
  UserEvents,  \* the events (or Header) whose state delta has user: keys
  MaxOrder,    \* math.MaxUint64: the last order reserveRecord hands out
  Ops,         \* the public operations the callers use
  Faults,      \* the kinds of I/O fault the file system shows
  CanCrash,    \* whether the process may die and be restarted
  NULL

ASSUME ConstantsAssumption ==
  /\ UserOf \in [Sessions -> Users]
  /\ Header \notin Events
  /\ UserEvents \subseteq Events \cup {Header}
  /\ MaxOrder \in Nat
  /\ NULL \notin Procs
  /\ Ops \subseteq {"create", "append", "get", "list", "delete"}
  /\ Faults \subseteq {"log", "cleanup", "marker", "journal", "read", "seq", "seqlost"}
  /\ CanCrash \in BOOLEAN

VARIABLES
  \* durable: the files below the storage directory
  file,    \* file[s]: the transcript is "none", "torn" inside its header, or "ok"
  log,     \* log[s]: the logical records of the transcript of s
  cmark,   \* cmark[s]: incarnation in the create-pending marker, 0 if none
  dmark,   \* dmark[s]: incarnation in the delete-pending marker, 0 if none
  seq,     \* shared_sequence, 0 if missing
  appJ,    \* app_state.jsonl
  userJ,   \* userJ[u]: user_state.jsonl of u
  \* volatile: appLocks, sessionLock and the callers
  inv,     \* recordInventory: built or not, the records it holds, maximum
  pending, \* records committed to a transcript and not known to be journaled
  cacheA,  \* the remembered app projection
  cacheU,  \* cacheU[u]: the remembered projection of user u
  handles, \* <<session, incarnation>> of the durableSessions callers hold
  createL, opL, projL,   \* create, op and project mutexes: holder or NULL
  pc, ctx, \* where a caller is, and its local variables
  \* history
  acked,   \* records whose Create or AppendEvent returned success
  gone     \* <<session, incarnation>> whose Delete returned success

durable  == <<file, log, cmark, dmark, seq, appJ, userJ>>
cache    == <<cacheA, cacheU>>
volatile == <<inv, pending, cacheA, cacheU, handles>>
locks    == <<createL, opL, projL>>
history  == <<acked, gone>>
vars     == <<durable, volatile, locks, pc, ctx, history>>

Orders  == 1 .. MaxOrder
Records == [ord : Orders, ses : Sessions, inc : Orders, ev : Events \cup {Header}]

(* UserID of a stateRecord.                                                *)
Owner(r) == UserOf[r.ses]
OwnedBy(u, S) == {r \in S : Owner(r) = u}

(* sharedRecordID: the kind, user, session, incarnation and event of r.    *)
sharedRecordID(r) == <<r.ses, r.inc, r.ev>>

(* claimLogicalOrder and addJournalRecord: two different records share     *)
(* neither an ID nor an order.                                             *)
Contradicts(a, b) == a # b /\ (sharedRecordID(a) = sharedRecordID(b) \/ a.ord = b.ord)
Conflict(S) == \E a, b \in S : Contradicts(a, b)

Unknown == [known |-> FALSE, recs |-> {}]
Known(S) == [known |-> TRUE, recs |-> S]
NoInventory == [built |-> FALSE, recs |-> {}, max |-> 0]
Max2(m, n) == IF m < n THEN n ELSE m

Blank == [op |-> "none", ses |-> NULL, user |-> NULL, ev |-> NULL, inc |-> 0, ord |-> 0,
          todo |-> {}, scan |-> {}, left |-> {}, app |-> {}, usr |-> {}, must |-> {}]

(* The record caller p is to commit, or has found committed already.       *)
Rec(p) == [ord |-> ctx[p].ord, ses |-> ctx[p].ses, inc |-> ctx[p].inc, ev |-> ctx[p].ev]
HeaderOf(s, i) == [ord |-> i, ses |-> s, inc |-> i, ev |-> Header]

(* The definitions named ..._Bug are those of a faulty store: each breaks  *)
(* a property below when it stands in for the definition it precedes.      *)

SameIncarnation_Bug(s, i) == log[s] # {}
(* The transcript of s is there and of incarnation i.                      *)
SameIncarnation(s, i) == HeaderOf(s, i) \in log[s]

ensureNoDeleteMarker_Bug(s) == TRUE
(* ensureNoDeleteMarker, eventByID                                         *)
ensureNoDeleteMarker(s) == dmark[s] = 0
eventByID(s, e) == {r \in log[s] : r.ev = e}

Init ==
  /\ file = [s \in Sessions |-> "none"]
  /\ log = [s \in Sessions |-> {}]
  /\ cmark = [s \in Sessions |-> 0]
  /\ dmark = [s \in Sessions |-> 0]
  /\ seq = 0
  /\ appJ = {}
  /\ userJ = [u \in Users |-> {}]
  /\ inv = NoInventory
  /\ pending = {}
  /\ cacheA = Unknown
  /\ cacheU = [u \in Users |-> Unknown]
  /\ handles = {}
  /\ createL = NULL
  /\ opL = [s \in Sessions |-> NULL]
  /\ projL = NULL
  /\ pc = [p \in Procs |-> "idle"]
  /\ ctx = [p \in Procs |-> Blank]
  /\ acked = {}
  /\ gone = {}

-----------------------------------------------------------------------------
(* Control.                                                                *)

Goto(p, to) == pc' = [pc EXCEPT ![p] = to]
SetCtx(p, c) == ctx' = [ctx EXCEPT ![p] = c]

TakeOp(p, s) == opL[s] = NULL /\ opL' = [opL EXCEPT ![s] = p]
TakeProject(p) == projL = NULL /\ projL' = p
FreeProject_Bug(p) == UNCHANGED projL
FreeProject(p) == projL' = IF projL = p THEN NULL ELSE projL

(* The operation of p returns: its deferred unlocks run.                   *)
Return(p) ==
  /\ Goto(p, "idle")
  /\ SetCtx(p, Blank)
  /\ createL' = IF createL = p THEN NULL ELSE createL
  /\ opL' = [s \in Sessions |-> IF opL[s] = p THEN NULL ELSE opL[s]]
  /\ FreeProject(p)

(* rememberProjection: the recovery baseline of the app and of one user.   *)
rememberProjection(u, app, usr) ==
  /\ cacheA' = Known(app)
  /\ cacheU' = [cacheU EXCEPT ![u] = Known(usr)]

(* cachedProjection                                                        *)
CacheKnown(u) == cacheA.known /\ cacheU[u].known

releaseRecordReservation(r) == inv' = [inv EXCEPT !.recs = @ \ {r}]

Called(op, s, u) == [Blank EXCEPT !.op = op, !.ses = s, !.user = u, !.must = acked]

-----------------------------------------------------------------------------
(* Create.                                                                 *)

(* create: the create mutex of the application.                            *)
CallCreate(p, s) ==
  /\ "create" \in Ops
  /\ pc[p] = "idle"
  /\ createL = NULL
  /\ createL' = p
  /\ Goto(p, "create")
  /\ SetCtx(p, [Called("create", s, UserOf[s]) EXCEPT !.ev = Header])
  /\ UNCHANGED <<durable, volatile, opL, projL, history>>

(* create after op.Lock: the delete marker, another transaction's marker   *)
(* (different initial state) or a transcript refuse the session; a create  *)
(* marker with the same initial state resumes its transaction.             *)
CreateRefused(p) ==
  LET s == ctx[p].ses IN
  /\ pc[p] = "create"
  /\ opL[s] = NULL
  /\ ~ensureNoDeleteMarker(s) \/ cmark[s] # 0 \/ file[s] # "none"
  /\ Return(p)
  /\ UNCHANGED <<durable, volatile, history>>

CreateBegins(p) ==
  LET s == ctx[p].ses IN
  /\ pc[p] = "create"
  /\ TakeOp(p, s)
  /\ ensureNoDeleteMarker(s)
  /\ cmark[s] # 0 \/ file[s] = "none"
  /\ SetCtx(p, [ctx[p] EXCEPT !.inc = cmark[s], !.ord = cmark[s]])
  /\ Goto(p, "baseline")
  /\ UNCHANGED <<durable, volatile, createL, projL, history>>

(* readSharedProjection, called by startCreate, resumeCreate and           *)
(* appendEvent before they rely on the cache.                              *)
readSharedProjection(p) ==
  LET u == ctx[p].user
      next == CASE ctx[p].op = "append" -> "append"
                [] ctx[p].inc = 0 -> "reserve"
                [] OTHER -> "validate" IN
  /\ pc[p] = "baseline"
  /\ projL = NULL
  /\ \/ /\ rememberProjection(u, appJ, userJ[u])
        /\ Goto(p, next)
        /\ UNCHANGED <<locks, ctx>>
     \/ /\ "read" \in Faults
        /\ Return(p)
        /\ UNCHANGED cache
  /\ UNCHANGED <<durable, inv, pending, handles, history>>

(* buildRecordInventory under the project mutex: what the process knows of *)
(* the app journal, the user journals, the transcripts, pending records    *)
(* and the create markers.                                                 *)
Inventory_Bug == pending \cup (UNION {log[s] : s \in Sessions})
Inventory ==
  cacheA.recs \cup pending
    \cup (UNION {userJ[u] : u \in Users})
    \cup (UNION {log[s] : s \in Sessions})
    \cup {HeaderOf(s, cmark[s]) : s \in {t \in Sessions : cmark[t] # 0}}

MaxOrderOf(S) ==
  CHOOSE n \in 0 .. MaxOrder :
    /\ \A r \in S : r.ord <= n
    /\ n = 0 \/ \E r \in S : r.ord = n

ensureRecordInventory(p) ==
  /\ pc[p] \in {"reserve", "validate"}
  /\ ~inv.built
  /\ projL = NULL
  /\ \/ /\ ~Conflict(Inventory)
        /\ inv' = [built |-> TRUE, recs |-> Inventory, max |-> MaxOrderOf(Inventory)]
        /\ UNCHANGED <<pc, ctx, locks>>
     \/ /\ Conflict(Inventory) \/ "read" \in Faults
        /\ Return(p)
        /\ UNCHANGED inv
  /\ UNCHANGED <<durable, pending, cache, handles, history>>

(* reserveRecord: the next order, the logical record that claims it, and   *)
(* the sequence file.  writeFileAtomic may fail after its rename.          *)
NextOrder_Bug == seq + 1
NextOrder == Max2(seq, inv.max) + 1
OrderExhausted_Bug == NextOrder > MaxOrder + 1
OrderExhausted == NextOrder > MaxOrder
Reserved(p) == [ord |-> NextOrder, ses |-> ctx[p].ses, ev |-> ctx[p].ev,
                inc |-> IF ctx[p].op = "create" THEN NextOrder ELSE ctx[p].inc]

reserveRecord(p) ==
  LET r == Reserved(p) IN
  /\ pc[p] = "reserve"
  /\ inv.built
  /\ \/ /\ ~OrderExhausted /\ ~Conflict(inv.recs \cup {r})
        /\ inv' = [built |-> TRUE, recs |-> inv.recs \cup {r}, max |-> NextOrder]
        /\ seq' = NextOrder
        /\ SetCtx(p, [ctx[p] EXCEPT !.ord = r.ord, !.inc = r.inc])
        /\ Goto(p, IF ctx[p].op = "create" THEN "marker" ELSE "commit")
        /\ UNCHANGED locks
     \/ /\ ~OrderExhausted /\ ~Conflict(inv.recs \cup {r}) /\ "seq" \in Faults
        /\ inv' = [inv EXCEPT !.max = NextOrder]
        /\ seq' \in {seq, NextOrder}
        /\ Return(p)
     \/ /\ OrderExhausted \/ Conflict(inv.recs \cup {r})
        /\ Return(p)
        /\ UNCHANGED <<inv, seq>>
  /\ UNCHANGED <<file, log, cmark, dmark, appJ, userJ, pending, cache, handles, history>>

(* persistCreateStart: the create-pending marker.                          *)
persistCreateStart(p) ==
  LET s == ctx[p].ses IN
  /\ pc[p] = "marker"
  /\ \/ /\ cmark' = [cmark EXCEPT ![s] = ctx[p].inc]
        /\ Goto(p, "header")
        /\ UNCHANGED <<inv, ctx, locks>>
     \/ /\ "marker" \in Faults
        /\ cmark' \in {cmark, [cmark EXCEPT ![s] = ctx[p].inc]}
        /\ releaseRecordReservation(Rec(p))
        /\ Return(p)
  /\ UNCHANGED <<file, log, dmark, seq, appJ, userJ, pending, cache, handles, history>>

(* What a failed createLog leaves: nothing, when the open failed or the    *)
(* file was removed again; when that removal fails (its error is ignored), *)
(* a torn or a complete header.                                            *)
HeaderWritten(s, r) ==
  /\ file' = [file EXCEPT ![s] = "ok"]
  /\ log' = [log EXCEPT ![s] = {r}]
HeaderFailed(s, r) ==
  \/ UNCHANGED <<file, log>>
  \/ "cleanup" \in Faults /\ file' = [file EXCEPT ![s] = "torn"] /\ UNCHANGED log
  \/ "cleanup" \in Faults /\ HeaderWritten(s, r)

(* commitCreate up to the reconciliation: createLog; a failed write rolls  *)
(* the marker back, a failed directory sync keeps it for a retry.          *)
commitCreate(p) ==
  LET s == ctx[p].ses IN
  /\ pc[p] = "header"
  /\ \/ /\ HeaderWritten(s, Rec(p))
        /\ Goto(p, "reconcile")
        /\ UNCHANGED <<cmark, inv, ctx, locks>>
     \/ /\ "log" \in Faults
        /\ HeaderFailed(s, Rec(p))
        /\ \/ cmark' = [cmark EXCEPT ![s] = 0]
           \/ "marker" \in Faults /\ UNCHANGED cmark
        /\ releaseRecordReservation(Rec(p))
        /\ Return(p)
     \/ /\ "log" \in Faults
        /\ HeaderWritten(s, Rec(p))
        /\ Return(p)
        /\ UNCHANGED <<cmark, inv>>
  /\ UNCHANGED <<dmark, seq, appJ, userJ, pending, cache, handles, history>>

(* resumeCreate: validateReservedRecord claims the marker's record again   *)
(* and lifts the sequence over everything the inventory holds.             *)
validateReservedRecord(p) ==
  LET r == Rec(p)
      top == Max2(inv.max, r.ord) IN
  /\ pc[p] = "validate"
  /\ inv.built
  /\ \/ /\ ~Conflict(inv.recs \cup {r})
        /\ inv' = [built |-> TRUE, recs |-> inv.recs \cup {r}, max |-> top]
        /\ seq' = Max2(seq, top)
        /\ Goto(p, "resume")
        /\ UNCHANGED <<ctx, locks>>
     \/ /\ ~Conflict(inv.recs \cup {r}) /\ "seq" \in Faults /\ seq < top
        /\ inv' = [built |-> TRUE, recs |-> inv.recs \cup {r}, max |-> top]
        /\ seq' \in {seq, top}
        /\ Return(p)
     \/ /\ Conflict(inv.recs \cup {r})
        /\ Return(p)
        /\ UNCHANGED <<inv, seq>>
  /\ UNCHANGED <<file, log, cmark, dmark, appJ, userJ, pending, cache, handles, history>>

(* resumeCreate: load the transcript or write its header again.  A torn    *)
(* header is ErrCorruptLog, a header of another incarnation too.           *)
ResumeLoads(p) ==
  LET s == ctx[p].ses IN
  /\ pc[p] = "resume"
  /\ \/ /\ file[s] = "ok" /\ SameIncarnation(s, cmark[s])
        /\ Goto(p, "reconcile")
        /\ UNCHANGED <<file, log, ctx, locks>>
     \/ /\ file[s] = "none"
        /\ HeaderWritten(s, Rec(p))
        /\ Goto(p, "reconcile")
        /\ UNCHANGED <<ctx, locks>>
     \/ /\ file[s] = "none" /\ "log" \in Faults
        /\ HeaderFailed(s, Rec(p))
        /\ Return(p)
     \/ /\ \/ file[s] = "torn"
           \/ file[s] = "ok" /\ ~SameIncarnation(s, cmark[s])
           \/ "read" \in Faults
        /\ Return(p)
        /\ UNCHANGED <<file, log>>
  /\ UNCHANGED <<cmark, dmark, seq, appJ, userJ, volatile, history>>

(* finishCreateMarker: finishMarker restores the marker when the removal   *)
(* cannot be synced, which may fail too.                                   *)
finishCreateMarker(p) ==
  LET s == ctx[p].ses IN
  /\ pc[p] = "finish"
  /\ \/ /\ cmark' = [cmark EXCEPT ![s] = 0]
        /\ Goto(p, "done")
        /\ UNCHANGED <<ctx, locks>>
     \/ /\ "marker" \in Faults
        /\ cmark' \in {cmark, [cmark EXCEPT ![s] = 0]}
        /\ Return(p)
  /\ UNCHANGED <<file, log, dmark, seq, appJ, userJ, volatile, history>>

-----------------------------------------------------------------------------
(* AppendEvent.                                                            *)

(* appendEvent starts from a handle; without a cached projection of the    *)
(* user it establishes one before it takes the op mutex.                   *)
CallAppend(p, h, e) ==
  LET s == h[1] IN
  /\ "append" \in Ops
  /\ pc[p] = "idle"
  /\ h \in handles
  /\ SetCtx(p, [Called("append", s, UserOf[s]) EXCEPT !.ev = e, !.inc = h[2]])
  /\ Goto(p, IF CacheKnown(UserOf[s]) THEN "append" ELSE "baseline")
  /\ UNCHANGED <<durable, volatile, locks, history>>

(* appendEvent under the op mutex: the transcript must be there and of the *)
(* handle's incarnation; a known event ID is replayed, not written again.  *)
AppendLoads(p) ==
  LET s == ctx[p].ses
      prior == eventByID(s, ctx[p].ev) IN
  /\ pc[p] = "append"
  /\ TakeOp(p, s)
  /\ file[s] = "ok"
  /\ SameIncarnation(s, ctx[p].inc)
  /\ \/ /\ prior = {}
        /\ Goto(p, "reserve")
        /\ UNCHANGED ctx
     \/ \E r \in prior :
        /\ SetCtx(p, [ctx[p] EXCEPT !.ord = r.ord])
        /\ Goto(p, "reconcile")
  /\ UNCHANGED <<durable, volatile, createL, projL, history>>

AppendRefused(p) ==
  LET s == ctx[p].ses IN
  /\ pc[p] = "append"
  /\ opL[s] = NULL
  /\ \/ file[s] # "ok"
     \/ ~SameIncarnation(s, ctx[p].inc)
     \/ "read" \in Faults
  /\ Return(p)
  /\ UNCHANGED <<durable, volatile, history>>

(* appendNewEvent: appendBytes commits the event.  When it fails, the line *)
(* is not there, or it is there and only its sync failed (not committed,   *)
(* so the reservation is released), or only the close failed (committed).  *)
appendNewEvent(p) ==
  LET s == ctx[p].ses
      written == [log EXCEPT ![s] = @ \cup {Rec(p)}] IN
  /\ pc[p] = "commit"
  /\ \/ /\ log' = written
        /\ Goto(p, "reconcile")
        /\ UNCHANGED <<inv, ctx, locks>>
     \/ /\ "log" \in Faults
        /\ log' \in {log, written}
        /\ releaseRecordReservation(Rec(p))
        /\ Return(p)
     \/ /\ "log" \in Faults
        /\ log' = written
        /\ Return(p)
        /\ UNCHANGED inv
  /\ UNCHANGED <<file, cmark, dmark, seq, appJ, userJ, pending, cache, handles, history>>

-----------------------------------------------------------------------------
(* Get, List and Delete up to their scan.                                  *)

CallGet(p, s) ==
  /\ "get" \in Ops
  /\ pc[p] = "idle"
  /\ TakeOp(p, s)
  /\ SetCtx(p, [Called("get", s, UserOf[s]) EXCEPT !.todo = Sessions])
  /\ Goto(p, "scan")
  /\ UNCHANGED <<durable, volatile, createL, projL, history>>

CallList(p) ==
  /\ "list" \in Ops
  /\ pc[p] = "idle"
  /\ SetCtx(p, [Called("list", NULL, NULL) EXCEPT !.todo = Sessions])
  /\ Goto(p, "scan")
  /\ UNCHANGED <<durable, volatile, locks, history>>

(* deleteLocked: a delete marker resumes its transaction (resumeDelete), a *)
(* create marker without a transcript is deleted (deletePendingCreate), a  *)
(* transcript is projected first (deleteExisting).                         *)
CallDelete(p, s) ==
  LET call(i) == [Called("delete", s, UserOf[s]) EXCEPT !.inc = i] IN
  /\ "delete" \in Ops
  /\ pc[p] = "idle"
  /\ file[s] # "torn"
  /\ TakeOp(p, s)
  /\ \/ /\ dmark[s] # 0 /\ file[s] = "ok" /\ ~SameIncarnation(s, dmark[s])
        /\ SetCtx(p, call(dmark[s])) /\ Goto(p, "unmark")
     \/ /\ dmark[s] # 0 /\ file[s] = "ok" /\ SameIncarnation(s, dmark[s])
        /\ SetCtx(p, call(dmark[s])) /\ Goto(p, "remove")
     \/ /\ dmark[s] # 0 /\ file[s] = "none"
        /\ SetCtx(p, call(dmark[s])) /\ Goto(p, "uncreate")
     \/ /\ dmark[s] = 0 /\ file[s] = "none" /\ cmark[s] # 0
        /\ SetCtx(p, call(cmark[s])) /\ Goto(p, "mark")
     \/ /\ dmark[s] = 0 /\ file[s] = "ok"
        /\ \E r \in log[s] : SetCtx(p, [call(r.inc) EXCEPT !.todo = Sessions])
        /\ Goto(p, "scan")
  /\ UNCHANGED <<durable, volatile, createL, projL, history>>

-----------------------------------------------------------------------------
(* Reconciliation of the shared state.                                     *)

(* reconcileCommittedShared takes the project mutex and adds the records   *)
(* of the transcript to the pending ones.                                  *)
reconcileCommittedShared(p) ==
  /\ pc[p] = "reconcile"
  /\ TakeProject(p)
  /\ pending' = pending \cup log[ctx[p].ses]
  /\ SetCtx(p, [ctx[p] EXCEPT !.todo = Sessions])
  /\ Goto(p, "scan")
  /\ UNCHANGED <<durable, inv, cache, handles, createL, opL, history>>

Reconciling(p) == ctx[p].op \in {"create", "append"}

AfterScan(p) == IF Reconciling(p) THEN "repair" ELSE "project"

UsersIn(S) == {Owner(r) : r \in S}

(* scanApp reads one transcript under its io lock.  After the last one,    *)
(* reconciliation already holds the project mutex; Get answers not found   *)
(* when its transcript was absent; List repairs for every user it saw.     *)
scanApp(p, s) ==
  LET found == IF file[s] = "ok" THEN ctx[p].scan \cup log[s] ELSE ctx[p].scan
      last == ctx[p].todo = {s}
      missing == ctx[p].op = "get" /\ \A r \in found : r.ses # ctx[p].ses IN
  /\ pc[p] = "scan"
  /\ s \in ctx[p].todo
  /\ file[s] # "torn"
  /\ last => ~Conflict(found) /\ ~missing /\ ~(ctx[p].op = "list" /\ found = {})
  /\ SetCtx(p, [ctx[p] EXCEPT !.todo = @ \ {s}, !.scan = found,
                              !.left = IF last /\ ctx[p].op = "list" THEN UsersIn(found) ELSE @])
  /\ Goto(p, IF last THEN AfterScan(p) ELSE "scan")
  /\ UNCHANGED <<durable, volatile, locks, history>>

(* scanApp fails on a torn header, an unreadable transcript or two records *)
(* with one order; Get and List also end here when there is nothing to do. *)
(* A committed Create or AppendEvent falls back to the pending records.    *)
ScanEnds(p, s) ==
  LET found == IF file[s] = "ok" THEN ctx[p].scan \cup log[s] ELSE ctx[p].scan
      broken == \/ file[s] = "torn"
                \/ "read" \in Faults
                \/ ctx[p].todo = {s} /\ Conflict(found)
      nothing == /\ ctx[p].todo = {s}
                 /\ \/ ctx[p].op = "get" /\ \A r \in found : r.ses # ctx[p].ses
                    \/ ctx[p].op = "list" /\ found = {} IN
  /\ pc[p] = "scan"
  /\ s \in ctx[p].todo
  /\ broken \/ nothing
  /\ IF Reconciling(p)
     THEN /\ SetCtx(p, [ctx[p] EXCEPT !.todo = {}, !.scan = pending])
          /\ Goto(p, "fallback")
          /\ UNCHANGED locks
     ELSE Return(p)
  /\ UNCHANGED <<durable, volatile, history>>

(* repairShared of Get, Delete and, user by user, List (listProjections).  *)
repairShared(p) ==
  /\ pc[p] = "project"
  /\ TakeProject(p)
  /\ \/ /\ ctx[p].op # "list"
        /\ UNCHANGED ctx
     \/ /\ ctx[p].op = "list"
        /\ \E u \in ctx[p].left : SetCtx(p, [ctx[p] EXCEPT !.user = u, !.left = @ \ {u}])
  /\ Goto(p, "repair")
  /\ UNCHANGED <<durable, volatile, createL, opL, history>>

(* repairSharedLocked: the scanned records the app journal lacks are       *)
(* appended in their order, then those the user's journal lacks.           *)
AppMissing(p) == ctx[p].scan \ appJ
UserMissing_Bug(p) ==
  {r \in OwnedBy(ctx[p].user, ctx[p].scan) : r.ev # Header} \ userJ[ctx[p].user]
UserMissing(p) == OwnedBy(ctx[p].user, ctx[p].scan) \ userJ[ctx[p].user]
JournalConflict(p) ==
  Conflict(appJ \cup ctx[p].scan) \/ Conflict(userJ[ctx[p].user] \cup OwnedBy(ctx[p].user, ctx[p].scan))
First(S, r) == r \in S /\ \A q \in S : r.ord <= q.ord

RepairApp(p) ==
  /\ pc[p] = "repair"
  /\ ~Conflict(appJ \cup ctx[p].scan)
  /\ \E r \in AppMissing(p) : First(AppMissing(p), r) /\ appJ' = appJ \cup {r}
  /\ UNCHANGED <<file, log, cmark, dmark, seq, userJ, volatile, locks, pc, ctx, history>>

RepairUser_Bug(p) ==
  /\ pc[p] = "repair"
  /\ ~JournalConflict(p)
  /\ \E r \in UserMissing(p) : userJ' = [userJ EXCEPT ![ctx[p].user] = @ \cup {r}]
  /\ UNCHANGED <<file, log, cmark, dmark, seq, appJ, volatile, locks, pc, ctx, history>>

RepairUser(p) ==
  /\ pc[p] = "repair"
  /\ AppMissing(p) = {}
  /\ ~JournalConflict(p)
  /\ \E r \in UserMissing(p) :
       /\ First(UserMissing(p), r)
       /\ userJ' = [userJ EXCEPT ![ctx[p].user] = @ \cup {r}]
  /\ UNCHANGED <<file, log, cmark, dmark, seq, appJ, volatile, locks, pc, ctx, history>>

(* Where an operation goes on once it has its projection.                  *)
AfterProjection(p) ==
  CASE ctx[p].op = "create" -> "finish"
    [] ctx[p].op = "delete" -> "mark"
    [] ctx[p].op = "list" /\ ctx[p].left # {} -> "project"
    [] OTHER -> "done"

Projected(p, app, usr) ==
  /\ rememberProjection(ctx[p].user, app, usr)
  /\ SetCtx(p, [ctx[p] EXCEPT !.app = app, !.usr = usr])
  /\ Goto(p, AfterProjection(p))
  /\ FreeProject(p)
  /\ UNCHANGED <<createL, opL>>

projectJournal(p) == appJ
projectUserJournal(p) == userJ[ctx[p].user]

(* The journals are complete: the snapshots are refreshed, the projection  *)
(* is remembered, and reconciliation forgets the pending records whose app *)
(* and user delta are both journaled.                                      *)
RepairDone(p) ==
  LET u == ctx[p].user IN
  /\ pc[p] = "repair"
  /\ AppMissing(p) = {} /\ UserMissing(p) = {}
  /\ ~JournalConflict(p)
  /\ Projected(p, projectJournal(p), projectUserJournal(p))
  /\ pending' = IF Reconciling(p)
                THEN {r \in pending : Owner(r) # u /\ r.ev \in UserEvents}
                ELSE pending
  /\ UNCHANGED <<durable, inv, handles, history>>

(* A journal cannot be read, it or a snapshot cannot be written (its bytes *)
(* may have arrived), or the journals contradict the scan.  Reconciliation *)
(* falls back with the project mutex held, Get and List take it anew, and  *)
(* Delete gives up.                                                        *)
RepairFails(p) ==
  /\ pc[p] = "repair"
  /\ Faults \cap {"journal", "read"} # {} \/ JournalConflict(p)
  /\ \/ /\ Reconciling(p)
        /\ SetCtx(p, [ctx[p] EXCEPT !.scan = @ \cup pending])
        /\ Goto(p, "fallback")
        /\ UNCHANGED locks
     \/ /\ ctx[p].op \in {"get", "list"}
        /\ Goto(p, "refallback")
        /\ FreeProject(p)
        /\ UNCHANGED <<ctx, createL, opL>>
     \/ /\ ctx[p].op = "delete"
        /\ Return(p)
  /\ UNCHANGED <<durable, volatile, history>>

authoritativeFallback(p) ==
  /\ pc[p] = "refallback"
  /\ TakeProject(p)
  /\ Goto(p, "fallback")
  /\ UNCHANGED <<durable, volatile, createL, opL, ctx, history>>

(* authoritativeFallbackLocked with readable journals: the projection is   *)
(* what they hold and the given records.                                   *)
mergePendingUser_Bug(p) == userJ[ctx[p].user]
mergePendingApp(p) == appJ \cup ctx[p].scan
mergePendingUser(p) == userJ[ctx[p].user] \cup OwnedBy(ctx[p].user, ctx[p].scan)

FallbackToJournals(p) ==
  /\ pc[p] = "fallback"
  /\ ~JournalConflict(p)
  /\ Projected(p, mergePendingApp(p), mergePendingUser(p))
  /\ UNCHANGED <<durable, inv, pending, handles, history>>

(* fallbackProjection: with unreadable journals the remembered projection  *)
(* takes the records whose ID it does not hold (mergeKnownSharedRecords).  *)
(* The error is reported: AppendEvent has committed and goes on, the other *)
(* operations fail.                                                        *)
mergeKnownApp(p) == cacheA.recs \cup ctx[p].scan
mergeKnownUser(p) == cacheU[ctx[p].user].recs \cup OwnedBy(ctx[p].user, ctx[p].scan \ cacheA.recs)

FallbackToCache(p) ==
  /\ pc[p] = "fallback"
  /\ "read" \in Faults
  /\ CacheKnown(ctx[p].user)
  /\ ~Conflict(mergeKnownApp(p))
  /\ IF ctx[p].op = "append"
     THEN Projected(p, mergeKnownApp(p), mergeKnownUser(p))
     ELSE /\ rememberProjection(ctx[p].user, mergeKnownApp(p), mergeKnownUser(p))
          /\ Return(p)
  /\ UNCHANGED <<durable, inv, pending, handles, history>>

(* No cached projection, or two records that contradict each other.        *)
FallbackFails(p) ==
  /\ pc[p] = "fallback"
  /\ \/ JournalConflict(p)
     \/ "read" \in Faults /\ (~CacheKnown(ctx[p].user) \/ Conflict(mergeKnownApp(p)))
  /\ Return(p)
  /\ UNCHANGED <<durable, volatile, history>>

(* The operation returns success; Create, Get and List hand out sessions.  *)
Finish(p) ==
  LET c == ctx[p]
      listed == {<<r.ses, r.inc>> : r \in c.scan} IN
  /\ pc[p] = "done"
  /\ handles' = handles \cup CASE c.op = "create" -> {<<c.ses, c.inc>>}
                               [] c.op = "get" -> {h \in listed : h[1] = c.ses}
                               [] c.op = "list" -> listed
                               [] OTHER -> {}
  /\ acked' = IF c.op \in {"create", "append"} THEN acked \cup {Rec(p)} ELSE acked
  /\ gone' = IF c.op = "delete" THEN gone \cup {<<c.ses, c.inc>>} ELSE gone
  /\ Return(p)
  /\ UNCHANGED <<durable, inv, pending, cache>>

-----------------------------------------------------------------------------
(* Delete after the projection.                                            *)

(* deleteExisting and deletePendingCreate: the delete-pending marker.      *)
WriteDeleteMarker(p) ==
  LET s == ctx[p].ses IN
  /\ pc[p] = "mark"
  /\ \/ /\ dmark' = [dmark EXCEPT ![s] = ctx[p].inc]
        /\ Goto(p, IF file[s] = "none" THEN "uncreate" ELSE "remove")
        /\ UNCHANGED <<ctx, locks>>
     \/ /\ "marker" \in Faults
        /\ dmark' \in {dmark, [dmark EXCEPT ![s] = ctx[p].inc]}
        /\ Return(p)
  /\ UNCHANGED <<file, log, cmark, seq, appJ, userJ, volatile, history>>

removeSessionLog(p) ==
  LET s == ctx[p].ses IN
  /\ pc[p] = "remove"
  /\ \/ /\ file' = [file EXCEPT ![s] = "none"]
        /\ log' = [log EXCEPT ![s] = {}]
        /\ Goto(p, "uncreate")
        /\ UNCHANGED <<ctx, locks>>
     \/ /\ "log" \in Faults
        /\ Return(p)
        /\ UNCHANGED <<file, log>>
  /\ UNCHANGED <<cmark, dmark, seq, appJ, userJ, volatile, history>>

removeCreateMarker(p) ==
  /\ pc[p] = "uncreate"
  /\ \/ /\ cmark' = [cmark EXCEPT ![ctx[p].ses] = 0]
        /\ Goto(p, "unmark")
        /\ UNCHANGED <<ctx, locks>>
     \/ /\ "marker" \in Faults
        /\ Return(p)
        /\ UNCHANGED cmark
  /\ UNCHANGED <<file, log, dmark, seq, appJ, userJ, volatile, history>>

finishDeleteMarker(p) ==
  LET s == ctx[p].ses IN
  /\ pc[p] = "unmark"
  /\ \/ /\ dmark' = [dmark EXCEPT ![s] = 0]
        /\ Goto(p, "done")
        /\ UNCHANGED <<ctx, locks>>
     \/ /\ "marker" \in Faults
        /\ dmark' \in {dmark, [dmark EXCEPT ![s] = 0]}
        /\ Return(p)
  /\ UNCHANGED <<file, log, cmark, seq, appJ, userJ, volatile, history>>

-----------------------------------------------------------------------------
(* The environment.                                                        *)

(* The process dies and is started again: what is in memory is lost.  A    *)
(* header being written at that moment may be cut short.                   *)
Crash ==
  /\ CanCrash
  /\ \/ UNCHANGED file
     \/ \E p \in Procs :
          /\ pc[p] = "header" \/ (pc[p] = "resume" /\ file[ctx[p].ses] = "none")
          /\ file' = [file EXCEPT ![ctx[p].ses] = "torn"]
  /\ inv' = NoInventory
  /\ pending' = {}
  /\ cacheA' = Unknown
  /\ cacheU' = [u \in Users |-> Unknown]
  /\ handles' = {}
  /\ createL' = NULL
  /\ opL' = [s \in Sessions |-> NULL]
  /\ projL' = NULL
  /\ pc' = [p \in Procs |-> "idle"]
  /\ ctx' = [p \in Procs |-> Blank]
  /\ UNCHANGED <<log, cmark, dmark, seq, appJ, userJ, history>>

(* The sequence file is deleted or damaged: reserveRecord repairs it.      *)
LoseSequence ==
  /\ "seqlost" \in Faults
  /\ seq # 0
  /\ seq' = 0
  /\ UNCHANGED <<file, log, cmark, dmark, appJ, userJ, volatile, locks, pc, ctx, history>>

Call(p) ==
  \/ \E s \in Sessions : CallCreate(p, s) \/ CallGet(p, s) \/ CallDelete(p, s)
  \/ \E h \in handles, e \in Events : CallAppend(p, h, e)
  \/ CallList(p)

Step(p) ==
  \/ CreateRefused(p) \/ CreateBegins(p) \/ readSharedProjection(p)
  \/ ensureRecordInventory(p) \/ reserveRecord(p) \/ persistCreateStart(p)
  \/ commitCreate(p) \/ validateReservedRecord(p) \/ ResumeLoads(p) \/ finishCreateMarker(p)
  \/ AppendLoads(p) \/ AppendRefused(p) \/ appendNewEvent(p)
  \/ reconcileCommittedShared(p)
  \/ \E s \in Sessions : scanApp(p, s) \/ ScanEnds(p, s)
  \/ repairShared(p) \/ RepairApp(p) \/ RepairUser(p) \/ RepairDone(p) \/ RepairFails(p)
  \/ authoritativeFallback(p) \/ FallbackToJournals(p) \/ FallbackToCache(p) \/ FallbackFails(p)
  \/ Finish(p)
  \/ WriteDeleteMarker(p) \/ removeSessionLog(p) \/ removeCreateMarker(p) \/ finishDeleteMarker(p)

Next == (\E p \in Procs : Call(p) \/ Step(p)) \/ Crash \/ LoseSequence

Spec == Init /\ [][Next]_vars

(* sync.Mutex hands a lock to a waiter in bounded time (starvation mode),  *)
(* and a goroutine that runs goes on: strong fairness of every caller.     *)
Fairness == \A p \in Procs : SF_vars(Step(p))
FairSpec == Spec /\ Fairness

-----------------------------------------------------------------------------
(* Properties.                                                             *)

Labels == {"idle", "create", "baseline", "reserve", "validate", "marker", "header", "resume",
           "finish", "append", "commit", "reconcile", "scan", "project", "repair", "refallback",
           "fallback", "done", "mark", "remove", "uncreate", "unmark"}
RecSets == SUBSET Records
Contexts ==
  [op : {"none", "create", "append", "get", "list", "delete"},
   ses : Sessions \cup {NULL}, user : Users \cup {NULL}, ev : Events \cup {Header, NULL},
   inc : 0 .. MaxOrder, ord : 0 .. MaxOrder, todo : SUBSET Sessions, scan : RecSets,
   left : SUBSET Users, app : RecSets, usr : RecSets, must : RecSets]

(* Every variable has its type.                                            *)
TypeOK ==
  /\ file \in [Sessions -> {"none", "torn", "ok"}]
  /\ log \in [Sessions -> RecSets]
  /\ cmark \in [Sessions -> 0 .. MaxOrder]
  /\ dmark \in [Sessions -> 0 .. MaxOrder]
  /\ seq \in 0 .. MaxOrder
  /\ appJ \in RecSets
  /\ userJ \in [Users -> RecSets]
  /\ inv \in [built : BOOLEAN, recs : RecSets, max : 0 .. MaxOrder]
  /\ pending \in RecSets
  /\ cacheA \in [known : BOOLEAN, recs : RecSets]
  /\ cacheU \in [Users -> [known : BOOLEAN, recs : RecSets]]
  /\ handles \subseteq Sessions \X Orders
  /\ createL \in Procs \cup {NULL}
  /\ opL \in [Sessions -> Procs \cup {NULL}]
  /\ projL \in Procs \cup {NULL}
  /\ pc \in [Procs -> Labels]
  /\ ctx \in [Procs -> Contexts]
  /\ acked \in RecSets
  /\ gone \subseteq Sessions \X Orders

(* The records that exist anywhere: in files, in memory, or reserved by a  *)
(* caller that has not written its record yet.                             *)
InFlight(p) == pc[p] \in {"marker", "header", "commit"}
AllRecords ==
  pending \cup appJ
    \cup (UNION {userJ[u] : u \in Users})
    \cup (UNION {log[s] : s \in Sessions})
    \cup {HeaderOf(s, cmark[s]) : s \in {t \in Sessions : cmark[t] # 0}}
    \cup {Rec(p) : p \in {q \in Procs : InFlight(q)}}

(* No two records anywhere share an order or an identity: reserveRecord    *)
(* never hands out an order twice and no retry commits an event twice, so  *)
(* errLogicalRecordConflict cannot be met, whatever failed before.         *)
RecordsAgree == ~Conflict(AllRecords)

(* A transcript holds one incarnation, led by its header; a create marker  *)
(* beside it belongs to that incarnation (resumeCreate never finds that    *)
(* the transaction contradicts the transcript).                            *)
TranscriptSound ==
  \A s \in Sessions :
    /\ file[s] # "ok" => log[s] = {}
    /\ file[s] = "ok" =>
         \E h \in log[s] :
           /\ h = HeaderOf(s, h.ord)
           /\ \A r \in log[s] : r.ses = s /\ r.inc = h.ord /\ h.ord <= r.ord
           /\ cmark[s] \in {0, h.ord}
           /\ dmark[s] \in {0, h.ord}

(* What AppendEvent or Create acknowledged stays on disk: its app delta in *)
(* the transcript or the app journal, its user delta in the transcript or  *)
(* the user's journal, even after the session was deleted.  And a Delete   *)
(* that returns success has removed the session, although it may have      *)
(* resumed an older one: no transcript and no marker is left.              *)
AckedDurable ==
  /\ \A r \in acked :
       /\ r \in log[r.ses] \cup appJ
       /\ r.ev \in UserEvents => r \in log[r.ses] \cup userJ[Owner(r)]
  /\ \A p \in Procs :
       pc[p] = "done" /\ ctx[p].op = "delete" =>
         file[ctx[p].ses] = "none" /\ cmark[ctx[p].ses] = 0 /\ dmark[ctx[p].ses] = 0

(* repairSharedLocked writes the app journal before the user's: whatever a *)
(* crash or a fault leaves, a user journal is not ahead of the app journal *)
(* and holds records of its user only.                                     *)
UserJournalBehind ==
  \A u \in Users : userJ[u] \subseteq appJ /\ \A r \in userJ[u] : Owner(r) = u

(* The projection an operation returns with holds every delta that was     *)
(* acknowledged before the operation began, and that of a Create or        *)
(* AppendEvent its own.                                                    *)
ReadsAreCurrent ==
  \A p \in Procs :
    pc[p] = "done" /\ ctx[p].op # "delete" =>
      LET due == ctx[p].must \cup (IF ctx[p].op \in {"create", "append"} THEN {Rec(p)} ELSE {})
      IN  /\ due \subseteq ctx[p].app
          /\ {r \in OwnedBy(ctx[p].user, due) : r.ev \in UserEvents} \subseteq ctx[p].usr

(* A deleted incarnation does not come back: no retried Create, resumed    *)
(* marker or stale handle writes it again.                                 *)
DeletedStaysDeleted ==
  \A g \in gone : cmark[g[1]] # g[2] /\ \A r \in log[g[1]] : r.inc # g[2]

(* Records join a transcript in ascending order, across restarts and with  *)
(* concurrent reservations: replaying lines in order applies deltas in     *)
(* order.                                                                  *)
TranscriptAscends ==
  [][\A s \in Sessions : \A r \in log'[s] \ log[s] : \A q \in log[s] : q.ord < r.ord]_vars

(* Every operation returns: no lock cycle, no lost wake-up, no endless     *)
(* retry.                                                                  *)
OperationsReturn == \A p \in Procs : pc[p] # "idle" ~> pc[p] = "idle"
=============================================================================
