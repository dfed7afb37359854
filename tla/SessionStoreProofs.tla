------------------------- MODULE SessionStoreProofs -------------------------
(***************************************************************************)
(* Proofs about the session store, for every value of the constants, in    *)
(* three parts, each of which leans on the ones before it:                 *)
(*   - every variable keeps its type (TypeInv, TypeCorrect);               *)
(*   - records never contradict each other, transcripts are sound and      *)
(*     deletions final (IdentityInv, SoundInv, RecordsNeverContradict);    *)
(*   - what was acknowledged stays and is read (DurableInv, CurrentInv,    *)
(*     AcknowledgedStays, ReadsStayCurrent).                               *)
(***************************************************************************)
EXTENDS SessionStore, FiniteSetTheorems, TLAPS

(* What the label l of a caller says about its local variables c.          *)
Local(c, l) ==
  /\ l # "idle" => c.op # "none"
  /\ l # "idle" /\ c.op # "list" => c.ses \in Sessions /\ c.user = UserOf[c.ses]
  /\ l \in {"create", "marker", "header", "validate", "resume", "finish"} => c.op = "create"
  /\ l \in {"append", "commit"} => c.op = "append"
  /\ l \in {"baseline", "reserve", "reconcile"} => c.op \in {"create", "append"}
  /\ l \in {"baseline", "reserve"} /\ c.op = "create" => c.ord = c.inc
  /\ l \in {"repair", "refallback", "fallback"} => c.user \in Users
  /\ l \in {"mark", "remove", "uncreate", "unmark"} => c.op = "delete"
  /\ l = "project" => c.op \in {"get", "list", "delete"}
  /\ l = "refallback" => c.op \in {"get", "list"}
  /\ c.op = "create" => c.ev = Header
  /\ c.op = "append" => c.ev \in Events /\ c.inc \in Orders
  /\ c.op = "delete" => c.inc \in Orders
  /\ \/ l \in {"marker", "header", "validate", "resume", "commit", "reconcile", "finish"}
     \/ l \in {"scan", "repair", "fallback", "done"} /\ c.op \in {"create", "append"}
     => c.ord \in Orders /\ c.inc \in Orders

(* The type invariant, made inductive by Local and split by the kind of    *)
(* variable.                                                               *)
DurableType ==
  /\ file \in [Sessions -> {"none", "torn", "ok"}]
  /\ log \in [Sessions -> RecSets]
  /\ cmark \in [Sessions -> 0 .. MaxOrder]
  /\ dmark \in [Sessions -> 0 .. MaxOrder]
  /\ seq \in 0 .. MaxOrder
  /\ appJ \in RecSets
  /\ userJ \in [Users -> RecSets]
Inventories == [built : BOOLEAN, recs : RecSets, max : 0 .. MaxOrder]
VolatileType ==
  /\ inv \in Inventories
  /\ pending \in RecSets
  /\ cacheA \in [known : BOOLEAN, recs : RecSets]
  /\ cacheU \in [Users -> [known : BOOLEAN, recs : RecSets]]
  /\ handles \subseteq Sessions \X Orders
LocksType ==
  /\ createL \in Procs \cup {NULL}
  /\ opL \in [Sessions -> Procs \cup {NULL}]
  /\ projL \in Procs \cup {NULL}
CallersType ==
  /\ pc \in [Procs -> Labels]
  /\ ctx \in [Procs -> Contexts]
  /\ \A p \in Procs : Local(ctx[p], pc[p])
HistoryType ==
  /\ acked \in RecSets
  /\ gone \subseteq Sessions \X Orders
TypeInv == DurableType /\ VolatileType /\ LocksType /\ CallersType /\ HistoryType

USE DEF ConstantsAssumption
USE ConstantsAssumption

LEMMA TypeInvImpliesTypeOK == TypeInv => TypeOK
  BY DEF TypeInv, DurableType, VolatileType, LocksType, CallersType, HistoryType, Inventories, TypeOK

LEMMA TypeInit == Init => TypeInv
<1> SUFFICES ASSUME Init PROVE TypeInv
  OBVIOUS
<1>1. DurableType
  BY DEF Init, DurableType, RecSets
<1>2. VolatileType
  BY DEF Init, VolatileType, Inventories, RecSets, Unknown, NoInventory
<1>3. LocksType
  BY DEF Init, LocksType
<1>4. CallersType
  BY DEF Init, CallersType, Local, Contexts, Labels, Blank, RecSets
<1>5. HistoryType
  BY DEF Init, HistoryType, RecSets
<1> QED BY <1>1, <1>2, <1>3, <1>4, <1>5 DEF TypeInv

(* What a step leaves alone keeps its type.                                *)
LEMMA FrameDurable == TypeInv /\ UNCHANGED durable => DurableType'
  BY DEF TypeInv, DurableType, durable
LEMMA FrameVolatile == TypeInv /\ UNCHANGED volatile => VolatileType'
  BY DEF TypeInv, VolatileType, volatile
LEMMA FrameLocks == TypeInv /\ UNCHANGED locks => LocksType'
  BY DEF TypeInv, LocksType, locks
LEMMA FrameCallers == TypeInv /\ UNCHANGED <<pc, ctx>> => CallersType'
  BY DEF TypeInv, CallersType
LEMMA FrameHistory == TypeInv /\ UNCHANGED history => HistoryType'
  BY DEF TypeInv, HistoryType, history

(* The inventories the operations build, extend, raise and reduce.         *)
LEMMA BuiltType ==
  \A S \in RecSets, n \in 0 .. MaxOrder : [built |-> TRUE, recs |-> S, max |-> n] \in Inventories
  BY DEF Inventories
LEMMA RaisedType == \A i \in Inventories, n \in 0 .. MaxOrder : [i EXCEPT !.max = n] \in Inventories
  BY DEF Inventories
LEMMA ReleasedType == \A i \in Inventories : \A r : [i EXCEPT !.recs = @ \ {r}] \in Inventories
  BY DEF Inventories, RecSets
LEMMA InvFields ==
  TypeInv => inv \in Inventories /\ inv.built \in BOOLEAN /\ inv.recs \in RecSets /\ inv.max \in 0 .. MaxOrder
  BY DEF TypeInv, VolatileType, Inventories

(* A caller moves to label l with local variables c.                       *)
LEMMA MoveType ==
  ASSUME TypeInv, NEW p \in Procs, NEW c \in Contexts, NEW l \in Labels, Local(c, l),
         pc' = [pc EXCEPT ![p] = l], ctx' = [ctx EXCEPT ![p] = c]
  PROVE  CallersType'
  BY DEF TypeInv, CallersType

LEMMA ReturnType ==
  ASSUME TypeInv, NEW p \in Procs, Return(p)
  PROVE  LocksType' /\ CallersType'
<1>1. Blank \in Contexts /\ Local(Blank, "idle") /\ "idle" \in Labels
  BY DEF Blank, Contexts, Local, RecSets, Labels
<1>2. pc' = [pc EXCEPT ![p] = "idle"] /\ ctx' = [ctx EXCEPT ![p] = Blank]
  BY DEF Return, Goto, SetCtx
<1>3. CallersType'
  BY <1>1, <1>2, MoveType
<1>4. LocksType'
  BY DEF TypeInv, LocksType, Return, FreeProject
<1> QED BY <1>3, <1>4

LEMMA TakeOpType ==
  ASSUME TypeInv, NEW p \in Procs, NEW s \in Sessions, TakeOp(p, s), UNCHANGED <<createL, projL>>
  PROVE  LocksType'
  BY DEF TypeInv, LocksType, TakeOp

LEMMA TakeProjectType ==
  ASSUME TypeInv, NEW p \in Procs, TakeProject(p), UNCHANGED <<createL, opL>>
  PROVE  LocksType'
  BY DEF TypeInv, LocksType, TakeProject

LEMMA FreeProjectType ==
  ASSUME TypeInv, NEW p \in Procs, FreeProject(p), UNCHANGED <<createL, opL>>
  PROVE  LocksType'
  BY DEF TypeInv, LocksType, FreeProject

LEMMA CallerAt ==
  ASSUME TypeInv, NEW p \in Procs
  PROVE  ctx[p] \in Contexts /\ Local(ctx[p], pc[p])
  BY DEF TypeInv, CallersType

LEMMA GotoType ==
  ASSUME TypeInv, NEW p \in Procs, NEW l \in Labels, Local(ctx[p], l), Goto(p, l), UNCHANGED ctx
  PROVE  CallersType'
<1>1. ctx' = [ctx EXCEPT ![p] = ctx[p]] /\ pc' = [pc EXCEPT ![p] = l]
  BY DEF TypeInv, CallersType, Goto
<1> QED BY <1>1, CallerAt, MoveType

(* A caller that may have to commit a record, or has found it.             *)
LEMMA RecType ==
  ASSUME TypeInv, NEW p \in Procs, ctx[p].op \in {"create", "append"},
         pc[p] \in {"marker", "header", "validate", "resume", "commit", "reconcile", "finish",
                    "scan", "repair", "fallback", "done"}
  PROVE  Rec(p) \in Records
<1>1. Local(ctx[p], pc[p])
  BY CallerAt
<1>2. ctx[p].ses \in Sessions /\ ctx[p].ev \in Events \cup {Header}
      /\ ctx[p].ord \in Orders /\ ctx[p].inc \in Orders
  BY <1>1 DEF Local
<1> QED BY <1>2 DEF Rec, Records

(* The local variables of a call that begins.                              *)
LEMMA CalledType ==
  ASSUME TypeInv, NEW op \in {"create", "append", "get", "list", "delete"},
         NEW s \in Sessions \cup {NULL}, NEW u \in Users \cup {NULL},
         NEW c, c = Called(op, s, u)
  PROVE  /\ c \in Contexts
         /\ c.op = op /\ c.ses = s /\ c.user = u
<1>1. c = [op |-> op, ses |-> s, user |-> u, ev |-> NULL, inc |-> 0, ord |-> 0, todo |-> {},
           scan |-> {}, left |-> {}, app |-> {}, usr |-> {}, must |-> acked]
  BY DEF Called, Blank
<1> QED BY <1>1 DEF TypeInv, HistoryType, Contexts, RecSets


LEMMA CallCreateType ==
  ASSUME TypeInv, NEW p \in Procs, NEW s \in Sessions, CallCreate(p, s)
  PROVE  TypeInv'
<1> DEFINE d == Called("create", s, UserOf[s])
           c == [d EXCEPT !.ev = Header]
<1>1. c \in Contexts /\ Local(c, "create")
  <2>1. d \in Contexts /\ d.op = "create" /\ d.ses = s /\ d.user = UserOf[s]
    BY CalledType
  <2> HIDE DEF d
  <2> QED BY <2>1 DEF Contexts, Local
<1>2. pc' = [pc EXCEPT ![p] = "create"] /\ ctx' = [ctx EXCEPT ![p] = c] /\ "create" \in Labels
  BY DEF CallCreate, Goto, SetCtx, Labels
<1>3. CallersType'
  <2> HIDE DEF c
  <2> QED BY <1>1, <1>2, MoveType
<1>4. LocksType'
  BY DEF CallCreate, TypeInv, LocksType
<1> QED BY <1>3, <1>4, FrameDurable, FrameVolatile, FrameHistory DEF CallCreate, TypeInv

LEMMA CallAppendType ==
  ASSUME TypeInv, NEW p \in Procs, NEW h \in handles, NEW e \in Events, CallAppend(p, h, e)
  PROVE  TypeInv'
<1> DEFINE s == h[1]
           l == IF CacheKnown(UserOf[s]) THEN "append" ELSE "baseline"
           d == Called("append", s, UserOf[s])
           d1 == [d EXCEPT !.ev = e]
           c == [d1 EXCEPT !.inc = h[2]]
<1>1. h[1] \in Sessions /\ h[2] \in Orders
  BY DEF TypeInv, VolatileType
<1>2. c \in Contexts /\ Local(c, l)
  <2>1. d \in Contexts /\ d.op = "append" /\ d.ses = s /\ d.user = UserOf[s]
    BY <1>1, CalledType
  <2> HIDE DEF d
  <2>2. d1 \in Contexts /\ d1.op = "append" /\ d1.ses = s /\ d1.user = UserOf[s] /\ d1.ev = e
    BY <2>1 DEF Contexts
  <2> HIDE DEF d1
  <2> QED BY <1>1, <2>2 DEF Contexts, Local, Orders
<1>3. pc' = [pc EXCEPT ![p] = l] /\ ctx' = [ctx EXCEPT ![p] = c] /\ l \in Labels
  BY DEF CallAppend, Goto, SetCtx, Labels
<1>4. CallersType'
  <2> HIDE DEF c, l
  <2> QED BY <1>2, <1>3, MoveType
<1> QED BY <1>4, FrameDurable, FrameVolatile, FrameLocks, FrameHistory DEF CallAppend, TypeInv

LEMMA CallGetType ==
  ASSUME TypeInv, NEW p \in Procs, NEW s \in Sessions, CallGet(p, s)
  PROVE  TypeInv'
<1> DEFINE d == Called("get", s, UserOf[s])
           c == [d EXCEPT !.todo = Sessions]
<1>1. c \in Contexts /\ Local(c, "scan")
  <2>1. d \in Contexts /\ d.op = "get" /\ d.ses = s /\ d.user = UserOf[s]
    BY CalledType
  <2> HIDE DEF d
  <2> QED BY <2>1 DEF Contexts, Local
<1>2. pc' = [pc EXCEPT ![p] = "scan"] /\ ctx' = [ctx EXCEPT ![p] = c] /\ "scan" \in Labels
  BY DEF CallGet, Goto, SetCtx, Labels
<1>3. CallersType'
  <2> HIDE DEF c
  <2> QED BY <1>1, <1>2, MoveType
<1>4. LocksType'
  BY TakeOpType DEF CallGet
<1> QED BY <1>3, <1>4, FrameDurable, FrameVolatile, FrameHistory DEF CallGet, TypeInv

LEMMA CallListType ==
  ASSUME TypeInv, NEW p \in Procs, CallList(p)
  PROVE  TypeInv'
<1> DEFINE d == Called("list", NULL, NULL)
           c == [d EXCEPT !.todo = Sessions]
<1>1. c \in Contexts /\ Local(c, "scan")
  <2>1. d \in Contexts /\ d.op = "list"
    BY CalledType
  <2> HIDE DEF d
  <2> QED BY <2>1 DEF Contexts, Local
<1>2. pc' = [pc EXCEPT ![p] = "scan"] /\ ctx' = [ctx EXCEPT ![p] = c] /\ "scan" \in Labels
  BY DEF CallList, Goto, SetCtx, Labels
<1>3. CallersType'
  <2> HIDE DEF c
  <2> QED BY <1>1, <1>2, MoveType
<1> QED BY <1>3, FrameDurable, FrameVolatile, FrameLocks, FrameHistory DEF CallList, TypeInv

LEMMA CallDeleteType ==
  ASSUME TypeInv, NEW p \in Procs, NEW s \in Sessions, CallDelete(p, s)
  PROVE  TypeInv'
<1> DEFINE d == Called("delete", s, UserOf[s])
           call(i) == [d EXCEPT !.inc = i]
           marked == {"unmark", "remove", "uncreate", "mark"}
<1>1. d \in Contexts /\ d.op = "delete" /\ d.ses = s /\ d.user = UserOf[s]
  BY CalledType
<1> HIDE DEF d
<1>2. ASSUME NEW i \in Orders, NEW l \in marked
      PROVE  call(i) \in Contexts /\ Local(call(i), l)
  BY <1>1 DEF Contexts, Local, Orders
<1>3. ASSUME NEW i \in Orders
      PROVE  /\ [call(i) EXCEPT !.todo = Sessions] \in Contexts
             /\ Local([call(i) EXCEPT !.todo = Sessions], "scan")
  <2> DEFINE c == call(i)
  <2>1. c \in Contexts /\ c.op = "delete" /\ c.ses = s /\ c.user = UserOf[s] /\ c.inc = i
    BY <1>1 DEF Contexts, Orders
  <2> HIDE DEF c
  <2>2. [c EXCEPT !.todo = Sessions] \in Contexts /\ Local([c EXCEPT !.todo = Sessions], "scan")
    BY <2>1 DEF Contexts, Local
  <2> QED BY <2>2 DEF c
<1>4. CallersType'
  <2>1. /\ dmark[s] # 0 => dmark[s] \in Orders
        /\ cmark[s] # 0 => cmark[s] \in Orders
        /\ \A r \in log[s] : r.inc \in Orders
    BY DEF TypeInv, DurableType, RecSets, Records, Orders
  <2> marked \subseteq Labels /\ "scan" \in Labels
    BY DEF Labels
  <2> HIDE DEF call
  <2>2. CASE \E i \in Orders, l \in marked : SetCtx(p, call(i)) /\ Goto(p, l)
    BY <2>2, <1>2, MoveType DEF SetCtx, Goto
  <2>3. CASE \E i \in Orders : SetCtx(p, [call(i) EXCEPT !.todo = Sessions]) /\ Goto(p, "scan")
    BY <2>3, <1>3, MoveType DEF SetCtx, Goto
  <2> QED BY <2>1, <2>2, <2>3 DEF CallDelete, call, d
<1>5. LocksType'
  BY TakeOpType DEF CallDelete
<1> QED BY <1>4, <1>5, FrameDurable, FrameVolatile, FrameHistory DEF CallDelete, TypeInv

-----------------------------------------------------------------------------
(* Every set of natural numbers that is not empty has a least element.     *)
LEMMA LeastNatural ==
  ASSUME NEW T \in SUBSET Nat, T # {}
  PROVE  \E n \in T : \A m \in T : n <= m
<1> DEFINE TT == {1 .. n : n \in T}
<1>1. TT \subseteq FiniteSubsetsOf(Nat) /\ TT # {}
  <2>1. \A n \in T : IsFiniteSet(1 .. n) /\ 1 .. n \in SUBSET Nat
    BY FS_Interval
  <2> QED BY <2>1 DEF FiniteSubsetsOf
<1> HIDE DEF TT
<1>2. PICK x \in TT : \A y \in TT : <<y, x>> \notin StrictSubsetOrdering(Nat)
  BY <1>1, FS_StrictSubsetOrderingWellFounded, WFMin
<1>3. PICK n \in T : x = 1 .. n
  BY DEF TT
<1>4. ASSUME NEW m \in T, m < n
      PROVE  FALSE
  <2>1. 1 .. m \in TT
    BY DEF TT
  <2>2. <<1 .. m, x>> \notin StrictSubsetOrdering(Nat)
    BY <2>1, <1>2
  <2>3. 1 .. m \subseteq x /\ 1 .. m # x
    BY <1>3, <1>4
  <2>4. 1 .. m \in SUBSET Nat /\ x \in SUBSET Nat
    BY <1>3
  <2> QED BY <2>2, <2>3, <2>4, Zenon DEF StrictSubsetOrdering
<1> QED BY <1>4

(* The maximum of an inventory bounds its orders and is one of them.       *)
LEMMA MaxOrderOfBounds ==
  ASSUME NEW S \in SUBSET Records
  PROVE  /\ MaxOrderOf(S) \in 0 .. MaxOrder
         /\ \A r \in S : r.ord <= MaxOrderOf(S)
<1> DEFINE T == {n \in Nat : \A r \in S : r.ord <= n}
<1>1. MaxOrder \in T
  BY DEF Records, Orders
<1>2. PICK n \in T : \A m \in T : n <= m
  <2> HIDE DEF T
  <2>1. T \in SUBSET Nat
    BY DEF T
  <2> QED BY <1>1, <2>1, LeastNatural
<1>3. n \in 0 .. MaxOrder
  BY <1>1, <1>2
<1>4. n = 0 \/ \E r \in S : r.ord = n
  <2>1. CASE n # 0 /\ n - 1 \notin T
    <3>1. PICK r \in S : ~(r.ord <= n - 1)
      BY <2>1
    <3>2. r.ord \in Nat /\ r.ord <= n
      BY DEF Records, Orders
    <3> QED BY <3>1, <3>2
  <2>2. CASE n # 0 /\ n - 1 \in T
    BY <2>2, <1>2
  <2> QED BY <2>1, <2>2
<1>5. \A r \in S : r.ord <= n
  OBVIOUS
<1> HIDE DEF T
<1>6. \E k \in 0 .. MaxOrder :
        /\ \A r \in S : r.ord <= k
        /\ k = 0 \/ \E r \in S : r.ord = k
  BY <1>3, <1>4, <1>5
<1> QED BY <1>6 DEF MaxOrderOf

LEMMA MaxType == \A m, n \in Nat : Max2(m, n) \in {m, n} /\ m <= Max2(m, n) /\ n <= Max2(m, n)
  BY DEF Max2

LEMMA HeaderType == \A s \in Sessions, i \in Orders : HeaderOf(s, i) \in Records
  BY DEF HeaderOf, Records, Orders

LEMMA InventoryType == TypeInv => Inventory \in RecSets
<1> SUFFICES ASSUME TypeInv, NEW r \in Inventory PROVE r \in Records
  BY DEF RecSets
<1>1. CASE r \in cacheA.recs \cup pending
  BY <1>1 DEF TypeInv, VolatileType, RecSets
<1>2. CASE \E u \in Users : r \in userJ[u]
  BY <1>2 DEF TypeInv, DurableType, RecSets
<1>3. CASE \E s \in Sessions : r \in log[s]
  BY <1>3 DEF TypeInv, DurableType, RecSets
<1>4. CASE \E s \in Sessions : cmark[s] # 0 /\ r = HeaderOf(s, cmark[s])
  BY <1>4, HeaderType DEF TypeInv, DurableType, Orders
<1> QED BY <1>1, <1>2, <1>3, <1>4, Zenon DEF Inventory

-----------------------------------------------------------------------------
(* Create.                                                                 *)

LEMMA CreateRefusedType ==
  ASSUME TypeInv, NEW p \in Procs, CreateRefused(p)
  PROVE  TypeInv'
  BY ReturnType, FrameDurable, FrameVolatile, FrameHistory DEF CreateRefused, TypeInv

LEMMA CreateBeginsType ==
  ASSUME TypeInv, NEW p \in Procs, CreateBegins(p)
  PROVE  TypeInv'
<1> DEFINE s == ctx[p].ses
           c1 == [ctx[p] EXCEPT !.inc = cmark[s]]
           c == [c1 EXCEPT !.ord = cmark[s]]
<1>1. ctx[p] \in Contexts /\ Local(ctx[p], "create")
  BY CallerAt DEF CreateBegins
<1>2. s \in Sessions /\ cmark[s] \in 0 .. MaxOrder
  BY <1>1 DEF Local, TypeInv, DurableType
<1>3. /\ c1 \in Contexts /\ c1.op = "create" /\ c1.ses = s /\ c1.user = UserOf[s]
      /\ c1.ev = Header /\ c1.inc = cmark[s]
  BY <1>1, <1>2 DEF Contexts, Local
<1>4. c \in Contexts /\ Local(c, "baseline")
  <2> HIDE DEF c1
  <2> QED BY <1>2, <1>3 DEF Contexts, Local
<1>5. pc' = [pc EXCEPT ![p] = "baseline"] /\ ctx' = [ctx EXCEPT ![p] = c] /\ "baseline" \in Labels
  BY DEF CreateBegins, Goto, SetCtx, Labels
<1>6. CallersType'
  <2> HIDE DEF c
  <2> QED BY <1>4, <1>5, MoveType
<1>7. LocksType'
  BY <1>2, TakeOpType DEF CreateBegins
<1> QED BY <1>6, <1>7, FrameDurable, FrameVolatile, FrameHistory DEF CreateBegins, TypeInv

LEMMA rememberProjectionType ==
  ASSUME TypeInv, NEW u \in Users, NEW app \in RecSets, NEW usr \in RecSets,
         rememberProjection(u, app, usr), UNCHANGED <<inv, handles>>, pending' \in RecSets
  PROVE  VolatileType'
  BY DEF rememberProjection, Known, TypeInv, VolatileType

LEMMA readSharedProjectionType ==
  ASSUME TypeInv, NEW p \in Procs, readSharedProjection(p)
  PROVE  TypeInv'
<1> DEFINE u == ctx[p].user
           next == CASE ctx[p].op = "append" -> "append"
                     [] ctx[p].inc = 0 -> "reserve"
                     [] OTHER -> "validate"
<1>1. ctx[p] \in Contexts /\ Local(ctx[p], "baseline")
  BY CallerAt DEF readSharedProjection
<1>2. DurableType' /\ HistoryType'
  BY FrameDurable, FrameHistory DEF readSharedProjection
<1>3. CASE Return(p) /\ UNCHANGED cache
  <2>1. VolatileType'
    BY <1>3, FrameVolatile DEF readSharedProjection, cache, volatile
  <2> QED BY <1>2, <1>3, <2>1, ReturnType DEF TypeInv
<1>4. CASE rememberProjection(u, appJ, userJ[u]) /\ Goto(p, next) /\ UNCHANGED <<locks, ctx>>
  <2>1. u \in Users /\ appJ \in RecSets /\ userJ[u] \in RecSets /\ pending \in RecSets
    BY <1>1 DEF Local, TypeInv, DurableType, VolatileType
  <2>2. VolatileType'
    BY <1>4, <2>1, rememberProjectionType DEF readSharedProjection
  <2>3. next \in Labels /\ Local(ctx[p], next)
    BY <1>1 DEF Labels, Local, Contexts, Orders
  <2>4. pc' = [pc EXCEPT ![p] = next] /\ ctx' = [ctx EXCEPT ![p] = ctx[p]]
    BY <1>4 DEF Goto, TypeInv, CallersType
  <2>5. CallersType'
    <3> HIDE DEF next
    <3> QED BY <1>1, <2>3, <2>4, MoveType
  <2> QED BY <1>2, <1>4, <2>2, <2>5, FrameLocks DEF TypeInv
<1> QED BY <1>3, <1>4 DEF readSharedProjection

LEMMA ensureRecordInventoryType ==
  ASSUME TypeInv, NEW p \in Procs, ensureRecordInventory(p)
  PROVE  TypeInv'
<1>1. VolatileType'
  <2>1. Inventory \in RecSets /\ MaxOrderOf(Inventory) \in 0 .. MaxOrder
    BY InventoryType, MaxOrderOfBounds DEF RecSets
  <2>2. \/ inv' = inv
        \/ inv' = [built |-> TRUE, recs |-> Inventory, max |-> MaxOrderOf(Inventory)]
    BY DEF ensureRecordInventory
  <2>3. inv' \in Inventories
    BY <2>1, <2>2, InvFields, BuiltType
  <2> QED BY <2>3 DEF ensureRecordInventory, cache, TypeInv, VolatileType
<1>2. LocksType' /\ CallersType'
  BY ReturnType, FrameLocks, FrameCallers DEF ensureRecordInventory
<1> QED BY <1>1, <1>2, FrameDurable, FrameHistory DEF ensureRecordInventory, TypeInv

LEMMA ReservedType ==
  ASSUME TypeInv, NEW p \in Procs, pc[p] = "reserve", ~OrderExhausted
  PROVE  NextOrder \in Orders /\ Reserved(p) \in Records
<1>1. NextOrder \in Orders
  BY MaxType, InvFields DEF OrderExhausted, NextOrder, TypeInv, DurableType, Orders
<1>2. Local(ctx[p], "reserve")
  BY CallerAt
<1>3. /\ (IF ctx[p].op = "create" THEN NextOrder ELSE ctx[p].inc) \in Orders
      /\ ctx[p].ses \in Sessions /\ ctx[p].ev \in Events \cup {Header}
  BY <1>1, <1>2 DEF Local
<1> QED BY <1>1, <1>3 DEF Reserved, Records

(* reserveRecord with a record r of order n.                               *)
LEMMA reserveRecordType ==
  ASSUME TypeInv, NEW p \in Procs, reserveRecord(p)
  PROVE  TypeInv'
<1> DEFINE r == Reserved(p)
           n == NextOrder
           l == IF ctx[p].op = "create" THEN "marker" ELSE "commit"
           c1 == [ctx[p] EXCEPT !.ord = r.ord]
           c == [c1 EXCEPT !.inc = r.inc]
<1>1. ctx[p] \in Contexts /\ Local(ctx[p], "reserve") /\ pc[p] = "reserve"
  BY CallerAt DEF reserveRecord
<1>2. ~OrderExhausted => n \in Orders /\ r \in Records
  BY <1>1, ReservedType
<1>3. \/ ~OrderExhausted /\ Return(p) /\ inv' = [inv EXCEPT !.max = n] /\ seq' \in {seq, n}
      \/ Return(p) /\ UNCHANGED <<inv, seq>>
      \/ /\ ~OrderExhausted
         /\ inv' = [built |-> TRUE, recs |-> inv.recs \cup {r}, max |-> n] /\ seq' = n
         /\ SetCtx(p, c) /\ Goto(p, l) /\ UNCHANGED locks
  BY DEF reserveRecord
<1>4. UNCHANGED <<file, log, cmark, dmark, appJ, userJ, pending, cache, handles, history>>
  BY DEF reserveRecord
<1> HIDE DEF r, n
<1>5. DurableType' /\ VolatileType' /\ HistoryType'
  <2>1. seq' \in 0 .. MaxOrder
    BY <1>2, <1>3 DEF TypeInv, DurableType, Orders
  <2>2. inv' \in Inventories
    <3>1. ~OrderExhausted => inv.recs \cup {r} \in RecSets /\ n \in 0 .. MaxOrder
      BY <1>2, InvFields DEF RecSets, Orders
    <3>2. \/ inv' = inv
          \/ ~OrderExhausted /\ inv' = [inv EXCEPT !.max = n]
          \/ ~OrderExhausted /\ inv' = [built |-> TRUE, recs |-> inv.recs \cup {r}, max |-> n]
      BY <1>3
    <3> QED BY <3>1, <3>2, InvFields, BuiltType, RaisedType
  <2> QED BY <1>4, <2>1, <2>2, FrameHistory DEF TypeInv, DurableType, VolatileType, cache
<1>6. LocksType' /\ CallersType'
  <2>1. CASE Return(p)
    BY <2>1, ReturnType
  <2>2. CASE ~OrderExhausted /\ SetCtx(p, c) /\ Goto(p, l) /\ UNCHANGED locks
    <3>1. r.ord \in Orders /\ r.inc \in Orders
      BY <1>2, <2>2 DEF Records
    <3>2. /\ c1 \in Contexts /\ c1.op = ctx[p].op /\ c1.ses = ctx[p].ses
          /\ c1.user = ctx[p].user /\ c1.ev = ctx[p].ev /\ c1.ord = r.ord
      BY <1>1, <3>1 DEF Contexts, Orders
    <3>3. /\ c \in Contexts /\ c.op = ctx[p].op /\ c.ses = ctx[p].ses
          /\ c.user = ctx[p].user /\ c.ev = ctx[p].ev /\ c.ord = r.ord /\ c.inc = r.inc
      <4> HIDE DEF c1
      <4> QED BY <3>1, <3>2 DEF Contexts, Orders
    <3> HIDE DEF c
    <3>4. l \in Labels /\ Local(c, l)
      BY <1>1, <3>1, <3>3 DEF Local, Labels
    <3> QED BY <2>2, <3>3, <3>4, MoveType, FrameLocks DEF SetCtx, Goto
  <2> QED BY <1>3, <2>1, <2>2
<1> QED BY <1>5, <1>6 DEF TypeInv

LEMMA persistCreateStartType ==
  ASSUME TypeInv, NEW p \in Procs, persistCreateStart(p)
  PROVE  TypeInv'
<1>1. Local(ctx[p], "marker")
  BY CallerAt DEF persistCreateStart
<1>2. ctx[p].ses \in Sessions /\ ctx[p].inc \in 0 .. MaxOrder
  BY <1>1 DEF Local, Orders
<1>3. DurableType'
  BY <1>2 DEF persistCreateStart, TypeInv, DurableType
<1>4. inv' \in Inventories
  BY InvFields, ReleasedType DEF persistCreateStart, releaseRecordReservation
<1>5. VolatileType'
  BY <1>4 DEF persistCreateStart, cache, TypeInv, VolatileType
<1>6. Local(ctx[p], "header") /\ "header" \in Labels
  BY <1>1 DEF Local, Labels
<1>7. LocksType' /\ CallersType'
  BY <1>6, GotoType, FrameLocks, ReturnType DEF persistCreateStart
<1> QED BY <1>3, <1>5, <1>7, FrameHistory DEF persistCreateStart, TypeInv

LEMMA HeaderWrittenType ==
  ASSUME TypeInv, NEW s \in Sessions, NEW r \in Records, HeaderWritten(s, r)
  PROVE  file' \in [Sessions -> {"none", "torn", "ok"}] /\ log' \in [Sessions -> RecSets]
  BY DEF HeaderWritten, TypeInv, DurableType, RecSets

LEMMA HeaderFailedType ==
  ASSUME TypeInv, NEW s \in Sessions, NEW r \in Records, HeaderFailed(s, r)
  PROVE  file' \in [Sessions -> {"none", "torn", "ok"}] /\ log' \in [Sessions -> RecSets]
  BY HeaderWrittenType DEF HeaderFailed, TypeInv, DurableType

LEMMA commitCreateType ==
  ASSUME TypeInv, NEW p \in Procs, commitCreate(p)
  PROVE  TypeInv'
<1>1. Local(ctx[p], "header") /\ Rec(p) \in Records
  BY CallerAt, RecType DEF commitCreate, Local
<1>2. ctx[p].ses \in Sessions
  BY <1>1 DEF Local
<1>3. file' \in [Sessions -> {"none", "torn", "ok"}] /\ log' \in [Sessions -> RecSets]
  BY <1>1, <1>2, HeaderWrittenType, HeaderFailedType DEF commitCreate
<1>4. cmark' \in [Sessions -> 0 .. MaxOrder]
  BY <1>2 DEF commitCreate, TypeInv, DurableType
<1>5. DurableType'
  BY <1>3, <1>4 DEF commitCreate, TypeInv, DurableType
<1>6. inv' \in Inventories
  BY InvFields, ReleasedType DEF commitCreate, releaseRecordReservation
<1>7. VolatileType'
  BY <1>6 DEF commitCreate, cache, TypeInv, VolatileType
<1>8. Local(ctx[p], "reconcile") /\ "reconcile" \in Labels
  BY <1>1 DEF Local, Labels
<1>9. LocksType' /\ CallersType'
  BY <1>8, GotoType, FrameLocks, ReturnType DEF commitCreate
<1> QED BY <1>5, <1>7, <1>9, FrameHistory DEF commitCreate, TypeInv

LEMMA validateReservedRecordType ==
  ASSUME TypeInv, NEW p \in Procs, validateReservedRecord(p)
  PROVE  TypeInv'
<1> DEFINE r == Rec(p)
           top == Max2(inv.max, r.ord)
<1>1. Local(ctx[p], "validate") /\ r \in Records
  BY CallerAt, RecType DEF validateReservedRecord, Local
<1>2. top \in 0 .. MaxOrder /\ inv.recs \cup {r} \in RecSets
  BY <1>1, MaxType, InvFields DEF Records, RecSets, Orders
<1>3. /\ seq' \in {seq, top, Max2(seq, top)}
      /\ inv' \in {inv, [built |-> TRUE, recs |-> inv.recs \cup {r}, max |-> top]}
  BY DEF validateReservedRecord
<1> HIDE DEF top, r
<1>4. DurableType'
  BY <1>2, <1>3, MaxType DEF validateReservedRecord, TypeInv, DurableType
<1>5. inv' \in Inventories
  BY <1>2, <1>3, InvFields, BuiltType
<1>6. VolatileType'
  BY <1>5 DEF validateReservedRecord, cache, TypeInv, VolatileType
<1>7. Local(ctx[p], "resume") /\ "resume" \in Labels
  BY <1>1 DEF Local, Labels
<1>8. LocksType' /\ CallersType'
  BY <1>7, GotoType, FrameLocks, ReturnType DEF validateReservedRecord
<1> QED BY <1>4, <1>6, <1>8, FrameHistory DEF validateReservedRecord, TypeInv

LEMMA ResumeLoadsType ==
  ASSUME TypeInv, NEW p \in Procs, ResumeLoads(p)
  PROVE  TypeInv'
<1>1. Local(ctx[p], "resume") /\ Rec(p) \in Records
  BY CallerAt, RecType DEF ResumeLoads, Local
<1>2. ctx[p].ses \in Sessions
  BY <1>1 DEF Local
<1>3. file' \in [Sessions -> {"none", "torn", "ok"}] /\ log' \in [Sessions -> RecSets]
  BY <1>1, <1>2, HeaderWrittenType, HeaderFailedType DEF ResumeLoads, TypeInv, DurableType
<1>4. DurableType'
  BY <1>3 DEF ResumeLoads, TypeInv, DurableType
<1>5. Local(ctx[p], "reconcile") /\ "reconcile" \in Labels
  BY <1>1 DEF Local, Labels
<1>6. LocksType' /\ CallersType'
  BY <1>5, GotoType, FrameLocks, ReturnType DEF ResumeLoads
<1> QED BY <1>4, <1>6, FrameVolatile, FrameHistory DEF ResumeLoads, TypeInv

LEMMA finishCreateMarkerType ==
  ASSUME TypeInv, NEW p \in Procs, finishCreateMarker(p)
  PROVE  TypeInv'
<1>1. Local(ctx[p], "finish")
  BY CallerAt DEF finishCreateMarker
<1>2. DurableType'
  BY <1>1 DEF Local, finishCreateMarker, TypeInv, DurableType
<1>3. Local(ctx[p], "done") /\ "done" \in Labels
  BY <1>1 DEF Local, Labels
<1>4. LocksType' /\ CallersType'
  BY <1>3, GotoType, FrameLocks, ReturnType DEF finishCreateMarker
<1> QED BY <1>2, <1>4, FrameVolatile, FrameHistory DEF finishCreateMarker, TypeInv

-----------------------------------------------------------------------------
(* AppendEvent.                                                            *)

LEMMA AppendLoadsType ==
  ASSUME TypeInv, NEW p \in Procs, AppendLoads(p)
  PROVE  TypeInv'
<1> DEFINE s == ctx[p].ses
<1>1. Local(ctx[p], "append") /\ ctx[p] \in Contexts
  BY CallerAt DEF AppendLoads
<1>2. s \in Sessions
  BY <1>1 DEF Local
<1>3. CASE Goto(p, "reserve") /\ UNCHANGED ctx
  <2>1. Local(ctx[p], "reserve") /\ "reserve" \in Labels
    BY <1>1 DEF Local, Labels
  <2> QED BY <1>2, <1>3, <2>1, GotoType, TakeOpType, FrameDurable, FrameVolatile, FrameHistory
          DEF AppendLoads, TypeInv
<1>4. CASE \E r \in log[s] : SetCtx(p, [ctx[p] EXCEPT !.ord = r.ord]) /\ Goto(p, "reconcile")
  <2>1. PICK r \in log[s] : SetCtx(p, [ctx[p] EXCEPT !.ord = r.ord]) /\ Goto(p, "reconcile")
    BY <1>4
  <2> DEFINE c == [ctx[p] EXCEPT !.ord = r.ord]
  <2>2. r.ord \in Orders
    BY <1>2 DEF TypeInv, DurableType, RecSets, Records
  <2>3. c \in Contexts /\ Local(c, "reconcile") /\ "reconcile" \in Labels
    BY <1>1, <2>2 DEF Contexts, Local, Labels, Orders
  <2>4. CallersType'
    BY <2>1, <2>3, MoveType DEF SetCtx, Goto
  <2> QED BY <1>2, <2>4, TakeOpType, FrameDurable, FrameVolatile, FrameHistory DEF AppendLoads, TypeInv
<1> QED BY <1>3, <1>4 DEF AppendLoads, eventByID

LEMMA AppendRefusedType ==
  ASSUME TypeInv, NEW p \in Procs, AppendRefused(p)
  PROVE  TypeInv'
  BY ReturnType, FrameDurable, FrameVolatile, FrameHistory DEF AppendRefused, TypeInv

LEMMA appendNewEventType ==
  ASSUME TypeInv, NEW p \in Procs, appendNewEvent(p)
  PROVE  TypeInv'
<1>1. Local(ctx[p], "commit") /\ Rec(p) \in Records
  BY CallerAt, RecType DEF appendNewEvent, Local
<1>2. log' \in [Sessions -> RecSets]
  <2>1. log \in [Sessions -> RecSets] /\ log[ctx[p].ses] \cup {Rec(p)} \in RecSets
    BY <1>1 DEF Local, TypeInv, DurableType, RecSets
  <2> QED BY <2>1 DEF appendNewEvent
<1>3. DurableType'
  BY <1>2 DEF appendNewEvent, TypeInv, DurableType
<1>4. inv' \in Inventories
  BY InvFields, ReleasedType DEF appendNewEvent, releaseRecordReservation
<1>5. VolatileType'
  BY <1>4 DEF appendNewEvent, cache, TypeInv, VolatileType
<1>6. Local(ctx[p], "reconcile") /\ "reconcile" \in Labels
  BY <1>1 DEF Local, Labels
<1>7. LocksType' /\ CallersType'
  BY <1>6, GotoType, FrameLocks, ReturnType DEF appendNewEvent
<1> QED BY <1>3, <1>5, <1>7, FrameHistory DEF appendNewEvent, TypeInv

-----------------------------------------------------------------------------
(* The reconciliation of the shared state.                                 *)

LEMMA reconcileCommittedSharedType ==
  ASSUME TypeInv, NEW p \in Procs, reconcileCommittedShared(p)
  PROVE  TypeInv'
<1> DEFINE c == [ctx[p] EXCEPT !.todo = Sessions]
<1>1. Local(ctx[p], "reconcile") /\ ctx[p] \in Contexts
  BY CallerAt DEF reconcileCommittedShared
<1>2. c \in Contexts /\ Local(c, "scan") /\ "scan" \in Labels
  BY <1>1 DEF Contexts, Local, Labels
<1>3. CallersType'
  BY <1>2, MoveType DEF reconcileCommittedShared, SetCtx, Goto
<1>4. pending' \in RecSets
  <2>1. log[ctx[p].ses] \in RecSets
    BY <1>1 DEF Local, TypeInv, DurableType
  <2> QED BY <2>1 DEF reconcileCommittedShared, TypeInv, VolatileType, RecSets
<1>5. VolatileType'
  BY <1>4 DEF reconcileCommittedShared, cache, TypeInv, VolatileType
<1> QED BY <1>3, <1>5, TakeProjectType, FrameDurable, FrameHistory
        DEF reconcileCommittedShared, TypeInv

LEMMA scanAppType ==
  ASSUME TypeInv, NEW p \in Procs, NEW s \in Sessions, scanApp(p, s)
  PROVE  TypeInv'
<1> DEFINE found == IF file[s] = "ok" THEN ctx[p].scan \cup log[s] ELSE ctx[p].scan
           last == ctx[p].todo = {s}
           left == IF last /\ ctx[p].op = "list" THEN UsersIn(found) ELSE ctx[p].left
           l == IF last THEN AfterScan(p) ELSE "scan"
           c1 == [ctx[p] EXCEPT !.todo = @ \ {s}]
           c2 == [c1 EXCEPT !.scan = found]
           c == [c2 EXCEPT !.left = left]
<1>1. Local(ctx[p], "scan") /\ ctx[p] \in Contexts
  BY CallerAt DEF scanApp
<1>2. found \in RecSets
  BY <1>1 DEF Contexts, TypeInv, DurableType, RecSets
<1>3. left \in SUBSET Users
  <2>1. ctx[p].left \in SUBSET Users
    BY <1>1 DEF Contexts
  <2>2. \A S \in RecSets : UsersIn(S) \in SUBSET Users
    BY DEF UsersIn, Owner, RecSets, Records
  <2> HIDE DEF found
  <2> QED BY <1>2, <2>1, <2>2
<1>4. SetCtx(p, c) /\ Goto(p, l)
  BY DEF scanApp
<1> HIDE DEF found, left
<1>5. c1 \in Contexts /\ c1.op = ctx[p].op /\ c1.ses = ctx[p].ses /\ c1.user = ctx[p].user
      /\ c1.ev = ctx[p].ev /\ c1.inc = ctx[p].inc /\ c1.ord = ctx[p].ord
  BY <1>1 DEF Contexts
<1>6. c2 \in Contexts /\ c2.op = ctx[p].op /\ c2.ses = ctx[p].ses /\ c2.user = ctx[p].user
      /\ c2.ev = ctx[p].ev /\ c2.inc = ctx[p].inc /\ c2.ord = ctx[p].ord
  <2> HIDE DEF c1
  <2> QED BY <1>2, <1>5 DEF Contexts
<1>7. c \in Contexts /\ c.op = ctx[p].op /\ c.ses = ctx[p].ses /\ c.user = ctx[p].user
      /\ c.ev = ctx[p].ev /\ c.inc = ctx[p].inc /\ c.ord = ctx[p].ord
  <2> HIDE DEF c2
  <2> QED BY <1>3, <1>6 DEF Contexts
<1> HIDE DEF c
<1>8. l \in Labels /\ Local(c, l)
  <2>1. ctx[p].op \in {"create", "append", "get", "list", "delete"}
    BY <1>1, CallerAt DEF scanApp, Local, Contexts
  <2> QED BY <1>1, <1>7, <2>1 DEF Local, Labels, AfterScan, Reconciling
<1>9. CallersType'
  BY <1>4, <1>7, <1>8, MoveType DEF SetCtx, Goto
<1> QED BY <1>9, FrameDurable, FrameVolatile, FrameLocks, FrameHistory DEF scanApp, TypeInv

LEMMA ScanEndsType ==
  ASSUME TypeInv, NEW p \in Procs, NEW s \in Sessions, ScanEnds(p, s)
  PROVE  TypeInv'
<1>1. Local(ctx[p], "scan") /\ ctx[p] \in Contexts
  BY CallerAt DEF ScanEnds
<1>2. CASE ~Reconciling(p)
  BY <1>2, ReturnType, FrameDurable, FrameVolatile, FrameHistory DEF ScanEnds, TypeInv
<1>3. CASE Reconciling(p)
  <2> DEFINE c1 == [ctx[p] EXCEPT !.todo = {}]
             c == [c1 EXCEPT !.scan = pending]
  <2>1. c1 \in Contexts /\ c1.op = ctx[p].op /\ c1.ses = ctx[p].ses /\ c1.user = ctx[p].user
        /\ c1.ev = ctx[p].ev /\ c1.inc = ctx[p].inc /\ c1.ord = ctx[p].ord
    BY <1>1 DEF Contexts
  <2>2. c \in Contexts /\ c.op = ctx[p].op /\ c.ses = ctx[p].ses /\ c.user = ctx[p].user
        /\ c.ev = ctx[p].ev /\ c.inc = ctx[p].inc /\ c.ord = ctx[p].ord
    <3> HIDE DEF c1
    <3>1. pending \in RecSets
      BY DEF TypeInv, VolatileType
    <3> QED BY <2>1, <3>1 DEF Contexts
  <2>3. SetCtx(p, c) /\ Goto(p, "fallback")
    BY <1>3 DEF ScanEnds
  <2> HIDE DEF c
  <2>4. Local(c, "fallback") /\ "fallback" \in Labels
    BY <1>1, <1>3, <2>2 DEF Local, Labels, Reconciling
  <2>5. CallersType'
    BY <2>2, <2>3, <2>4, MoveType DEF SetCtx, Goto
  <2> QED BY <1>3, <2>5, FrameDurable, FrameVolatile, FrameLocks, FrameHistory DEF ScanEnds, TypeInv
<1> QED BY <1>2, <1>3

LEMMA repairSharedType ==
  ASSUME TypeInv, NEW p \in Procs, repairShared(p)
  PROVE  TypeInv'
<1>1. Local(ctx[p], "project") /\ ctx[p] \in Contexts /\ "repair" \in Labels
  BY CallerAt DEF repairShared, Labels
<1>2. CASE ctx[p].op # "list" /\ UNCHANGED ctx
  <2>1. Local(ctx[p], "repair")
    BY <1>1, <1>2 DEF Local
  <2>2. CallersType'
    BY <1>1, <1>2, <2>1, GotoType DEF repairShared
  <2> QED BY <2>2, TakeProjectType, FrameDurable, FrameVolatile, FrameHistory DEF repairShared, TypeInv
<1>3. CASE /\ ctx[p].op = "list"
           /\ \E u \in ctx[p].left : SetCtx(p, [ctx[p] EXCEPT !.user = u, !.left = @ \ {u}])
  <2>1. PICK u \in ctx[p].left : SetCtx(p, [ctx[p] EXCEPT !.user = u, !.left = @ \ {u}])
    BY <1>3
  <2>2. u \in Users
    BY <1>1 DEF Contexts
  <2> DEFINE c1 == [ctx[p] EXCEPT !.user = u]
             c == [c1 EXCEPT !.left = @ \ {u}]
  <2>3. c1 \in Contexts /\ c1.op = "list" /\ c1.user = u
    BY <1>1, <1>3, <2>2 DEF Contexts
  <2>4. c \in Contexts /\ c.op = "list" /\ c.user = u
    <3> HIDE DEF c1
    <3> QED BY <2>3 DEF Contexts
  <2>5. SetCtx(p, c)
    BY <2>1
  <2> HIDE DEF c
  <2>6. Local(c, "repair")
    BY <2>2, <2>4 DEF Local
  <2>7. CallersType'
    BY <1>1, <2>4, <2>5, <2>6, MoveType DEF repairShared, SetCtx, Goto
  <2> QED BY <2>7, TakeProjectType, FrameDurable, FrameVolatile, FrameHistory DEF repairShared, TypeInv
<1> QED BY <1>2, <1>3 DEF repairShared

LEMMA RepairAppType ==
  ASSUME TypeInv, NEW p \in Procs, RepairApp(p)
  PROVE  TypeInv'
<1>1. ctx[p].scan \in RecSets
  BY CallerAt DEF Contexts
<1>2. appJ' \in RecSets
  BY <1>1 DEF RepairApp, AppMissing, TypeInv, DurableType, RecSets
<1>3. DurableType'
  BY <1>2 DEF RepairApp, TypeInv, DurableType
<1> QED BY <1>3, FrameVolatile, FrameLocks, FrameCallers, FrameHistory DEF RepairApp, TypeInv

LEMMA RepairUserType ==
  ASSUME TypeInv, NEW p \in Procs, RepairUser(p)
  PROVE  TypeInv'
<1>1. ctx[p].scan \in RecSets /\ Local(ctx[p], "repair")
  BY CallerAt DEF Contexts, RepairUser
<1>2. userJ' \in [Users -> RecSets]
  <2>1. PICK r \in UserMissing(p) : userJ' = [userJ EXCEPT ![ctx[p].user] = @ \cup {r}]
    BY DEF RepairUser
  <2>2. r \in Records
    BY <1>1 DEF UserMissing, OwnedBy, RecSets
  <2> QED BY <2>1, <2>2 DEF TypeInv, DurableType, RecSets
<1>3. DurableType'
  BY <1>2 DEF RepairUser, TypeInv, DurableType
<1> QED BY <1>3, FrameVolatile, FrameLocks, FrameCallers, FrameHistory DEF RepairUser, TypeInv

LEMMA ProjectedType ==
  ASSUME TypeInv, NEW p \in Procs, pc[p] \in {"repair", "fallback"},
         NEW app \in RecSets, NEW usr \in RecSets, Projected(p, app, usr),
         UNCHANGED <<inv, handles>>, pending' \in RecSets
  PROVE  VolatileType' /\ LocksType' /\ CallersType'
<1> DEFINE c1 == [ctx[p] EXCEPT !.app = app]
           c == [c1 EXCEPT !.usr = usr]
<1>1. Local(ctx[p], pc[p]) /\ ctx[p] \in Contexts
  BY CallerAt
<1>2. c1 \in Contexts /\ c1.op = ctx[p].op /\ c1.ses = ctx[p].ses /\ c1.user = ctx[p].user
      /\ c1.ev = ctx[p].ev /\ c1.inc = ctx[p].inc /\ c1.ord = ctx[p].ord
  BY <1>1 DEF Contexts
<1>3. c \in Contexts /\ c.op = ctx[p].op /\ c.ses = ctx[p].ses /\ c.user = ctx[p].user
      /\ c.ev = ctx[p].ev /\ c.inc = ctx[p].inc /\ c.ord = ctx[p].ord
  <2> HIDE DEF c1
  <2> QED BY <1>2 DEF Contexts
<1>4. SetCtx(p, c) /\ Goto(p, AfterProjection(p))
  BY DEF Projected
<1> HIDE DEF c
<1>5. AfterProjection(p) \in Labels /\ Local(c, AfterProjection(p))
  BY <1>1, <1>3 DEF Local, Labels, AfterProjection
<1>6. CallersType'
  BY <1>3, <1>4, <1>5, MoveType DEF SetCtx, Goto
<1>7. LocksType'
  BY FreeProjectType DEF Projected
<1>8. VolatileType'
  <2>1. ctx[p].user \in Users
    BY <1>1 DEF Local
  <2> QED BY <2>1, rememberProjectionType DEF Projected
<1> QED BY <1>6, <1>7, <1>8

LEMMA RepairDoneType ==
  ASSUME TypeInv, NEW p \in Procs, RepairDone(p)
  PROVE  TypeInv'
<1>1. Local(ctx[p], "repair") /\ pc[p] = "repair"
  BY CallerAt DEF RepairDone
<1>2. projectJournal(p) \in RecSets /\ projectUserJournal(p) \in RecSets
  BY <1>1 DEF Local, projectJournal, projectUserJournal, TypeInv, DurableType
<1>3. pending' \in RecSets
  BY DEF RepairDone, TypeInv, VolatileType, RecSets
<1>4. VolatileType' /\ LocksType' /\ CallersType'
  BY <1>1, <1>2, <1>3, ProjectedType DEF RepairDone
<1> QED BY <1>4, FrameDurable, FrameHistory DEF RepairDone, TypeInv

LEMMA RepairFailsType ==
  ASSUME TypeInv, NEW p \in Procs, RepairFails(p)
  PROVE  TypeInv'
<1>1. Local(ctx[p], "repair") /\ ctx[p] \in Contexts
  BY CallerAt DEF RepairFails
<1>2. CASE Return(p)
  BY <1>2, ReturnType, FrameDurable, FrameVolatile, FrameHistory DEF RepairFails, TypeInv
<1>3. CASE Reconciling(p) /\ UNCHANGED locks
           /\ SetCtx(p, [ctx[p] EXCEPT !.scan = @ \cup pending]) /\ Goto(p, "fallback")
  <2> DEFINE c == [ctx[p] EXCEPT !.scan = @ \cup pending]
  <2>1. ctx[p].scan \cup pending \in RecSets
    BY <1>1 DEF Contexts, TypeInv, VolatileType, RecSets
  <2>2. c \in Contexts /\ c.op = ctx[p].op /\ c.ses = ctx[p].ses /\ c.user = ctx[p].user
        /\ c.ev = ctx[p].ev /\ c.inc = ctx[p].inc /\ c.ord = ctx[p].ord
    BY <1>1, <2>1 DEF Contexts
  <2>3. SetCtx(p, c)
    BY <1>3
  <2> HIDE DEF c
  <2>4. Local(c, "fallback") /\ "fallback" \in Labels
    BY <1>1, <1>3, <2>2 DEF Local, Labels, Reconciling
  <2>5. CallersType'
    BY <1>3, <2>2, <2>3, <2>4, MoveType DEF SetCtx, Goto
  <2> QED BY <1>3, <2>5, FrameDurable, FrameVolatile, FrameLocks, FrameHistory DEF RepairFails, TypeInv
<1>4. CASE /\ ctx[p].op \in {"get", "list"} /\ Goto(p, "refallback") /\ FreeProject(p)
           /\ UNCHANGED <<ctx, createL, opL>>
  <2>1. Local(ctx[p], "refallback") /\ "refallback" \in Labels
    BY <1>1, <1>4 DEF Local, Labels
  <2> QED BY <1>4, <2>1, GotoType, FreeProjectType, FrameDurable, FrameVolatile, FrameHistory
          DEF RepairFails, TypeInv
<1> QED BY <1>2, <1>3, <1>4 DEF RepairFails

LEMMA authoritativeFallbackType ==
  ASSUME TypeInv, NEW p \in Procs, authoritativeFallback(p)
  PROVE  TypeInv'
<1>1. Local(ctx[p], "refallback")
  BY CallerAt DEF authoritativeFallback
<1>2. Local(ctx[p], "fallback") /\ "fallback" \in Labels
  BY <1>1 DEF Local, Labels
<1> QED BY <1>2, GotoType, TakeProjectType, FrameDurable, FrameVolatile, FrameHistory
        DEF authoritativeFallback, TypeInv

LEMMA FallbackToJournalsType ==
  ASSUME TypeInv, NEW p \in Procs, FallbackToJournals(p)
  PROVE  TypeInv'
<1>1. pc[p] = "fallback" /\ Local(ctx[p], "fallback") /\ ctx[p].scan \in RecSets
  BY CallerAt DEF FallbackToJournals, Contexts
<1>2. mergePendingApp(p) \in RecSets /\ mergePendingUser(p) \in RecSets
  BY <1>1 DEF Local, mergePendingApp, mergePendingUser, OwnedBy, TypeInv, DurableType, RecSets
<1>3. pending' \in RecSets
  BY DEF FallbackToJournals, TypeInv, VolatileType
<1>4. VolatileType' /\ LocksType' /\ CallersType'
  BY <1>1, <1>2, <1>3, ProjectedType DEF FallbackToJournals
<1> QED BY <1>4, FrameDurable, FrameHistory DEF FallbackToJournals, TypeInv

LEMMA FallbackToCacheType ==
  ASSUME TypeInv, NEW p \in Procs, FallbackToCache(p)
  PROVE  TypeInv'
<1>1. /\ pc[p] = "fallback" /\ Local(ctx[p], "fallback") /\ ctx[p].scan \in RecSets
      /\ ctx[p].user \in Users
  BY CallerAt DEF FallbackToCache, Contexts, Local
<1>2. cacheA.recs \in RecSets /\ cacheU[ctx[p].user].recs \in RecSets
  BY <1>1 DEF TypeInv, VolatileType
<1>3. mergeKnownApp(p) \in RecSets /\ mergeKnownUser(p) \in RecSets
  BY <1>1, <1>2 DEF mergeKnownApp, mergeKnownUser, OwnedBy, RecSets
<1>4. pending' \in RecSets
  BY DEF FallbackToCache, TypeInv, VolatileType
<1>5. VolatileType' /\ LocksType' /\ CallersType'
  BY <1>1, <1>3, <1>4, ProjectedType, ReturnType, rememberProjectionType DEF FallbackToCache
<1> QED BY <1>5, FrameDurable, FrameHistory DEF FallbackToCache, TypeInv

LEMMA FallbackFailsType ==
  ASSUME TypeInv, NEW p \in Procs, FallbackFails(p)
  PROVE  TypeInv'
  BY ReturnType, FrameDurable, FrameVolatile, FrameHistory DEF FallbackFails, TypeInv

LEMMA FinishType ==
  ASSUME TypeInv, NEW p \in Procs, Finish(p)
  PROVE  TypeInv'
<1> DEFINE c == ctx[p]
<1>1. Local(c, "done") /\ c \in Contexts /\ pc[p] = "done"
  BY CallerAt DEF Finish
<1>2. c.op \in {"create", "append"} => c.ses \in Sessions /\ c.inc \in Orders /\ Rec(p) \in Records
  BY <1>1, RecType DEF Local
<1>3. c.op = "delete" => c.ses \in Sessions /\ c.inc \in Orders
  BY <1>1 DEF Local
<1>4. \A r \in c.scan : r.ses \in Sessions /\ r.inc \in Orders
  BY <1>1 DEF Contexts, RecSets, Records
<1>5. HistoryType'
  BY <1>2, <1>3 DEF Finish, TypeInv, HistoryType, RecSets
<1>6. handles' \subseteq Sessions \X Orders
  <2> DEFINE listed == {<<r.ses, r.inc>> : r \in c.scan}
  <2>1. listed \subseteq Sessions \X Orders
    BY <1>4
  <2>2. CASE c.op = "create"
    BY <2>2, <1>2 DEF Finish, TypeInv, VolatileType
  <2>3. CASE c.op = "get"
    BY <2>1, <2>3 DEF Finish, TypeInv, VolatileType
  <2>4. CASE c.op = "list"
    BY <2>1, <2>4 DEF Finish, TypeInv, VolatileType
  <2>5. CASE c.op \notin {"create", "get", "list"}
    BY <2>5 DEF Finish, TypeInv, VolatileType
  <2> QED BY <2>2, <2>3, <2>4, <2>5
<1>7. VolatileType'
  BY <1>6 DEF Finish, cache, TypeInv, VolatileType
<1> QED BY <1>5, <1>7, ReturnType, FrameDurable DEF Finish, TypeInv

-----------------------------------------------------------------------------
(* Delete after the projection.                                            *)

LEMMA WriteDeleteMarkerType ==
  ASSUME TypeInv, NEW p \in Procs, WriteDeleteMarker(p)
  PROVE  TypeInv'
<1>1. Local(ctx[p], "mark")
  BY CallerAt DEF WriteDeleteMarker
<1>2. ctx[p].ses \in Sessions /\ ctx[p].inc \in 0 .. MaxOrder
  BY <1>1 DEF Local, Orders
<1>3. DurableType'
  BY <1>2 DEF WriteDeleteMarker, TypeInv, DurableType
<1>4. /\ Local(ctx[p], "uncreate") /\ Local(ctx[p], "remove")
      /\ "uncreate" \in Labels /\ "remove" \in Labels
  BY <1>1 DEF Local, Labels
<1>5. LocksType' /\ CallersType'
  BY <1>4, GotoType, FrameLocks, ReturnType DEF WriteDeleteMarker
<1> QED BY <1>3, <1>5, FrameVolatile, FrameHistory DEF WriteDeleteMarker, TypeInv

LEMMA removeSessionLogType ==
  ASSUME TypeInv, NEW p \in Procs, removeSessionLog(p)
  PROVE  TypeInv'
<1>1. Local(ctx[p], "remove")
  BY CallerAt DEF removeSessionLog
<1>2. DurableType'
  BY <1>1 DEF removeSessionLog, TypeInv, DurableType, RecSets
<1>3. Local(ctx[p], "uncreate") /\ "uncreate" \in Labels
  BY <1>1 DEF Local, Labels
<1>4. LocksType' /\ CallersType'
  BY <1>3, GotoType, FrameLocks, ReturnType DEF removeSessionLog
<1> QED BY <1>2, <1>4, FrameVolatile, FrameHistory DEF removeSessionLog, TypeInv

LEMMA removeCreateMarkerType ==
  ASSUME TypeInv, NEW p \in Procs, removeCreateMarker(p)
  PROVE  TypeInv'
<1>1. Local(ctx[p], "uncreate")
  BY CallerAt DEF removeCreateMarker
<1>2. DurableType'
  BY <1>1 DEF removeCreateMarker, TypeInv, DurableType
<1>3. Local(ctx[p], "unmark") /\ "unmark" \in Labels
  BY <1>1 DEF Local, Labels
<1>4. LocksType' /\ CallersType'
  BY <1>3, GotoType, FrameLocks, ReturnType DEF removeCreateMarker
<1> QED BY <1>2, <1>4, FrameVolatile, FrameHistory DEF removeCreateMarker, TypeInv

LEMMA finishDeleteMarkerType ==
  ASSUME TypeInv, NEW p \in Procs, finishDeleteMarker(p)
  PROVE  TypeInv'
<1>1. Local(ctx[p], "unmark")
  BY CallerAt DEF finishDeleteMarker
<1>2. DurableType'
  BY <1>1 DEF Local, finishDeleteMarker, TypeInv, DurableType
<1>3. Local(ctx[p], "done") /\ "done" \in Labels
  BY <1>1 DEF Local, Labels
<1>4. LocksType' /\ CallersType'
  BY <1>3, GotoType, FrameLocks, ReturnType DEF finishDeleteMarker
<1> QED BY <1>2, <1>4, FrameVolatile, FrameHistory DEF finishDeleteMarker, TypeInv

-----------------------------------------------------------------------------
(* The environment, and the theorem.                                       *)

LEMMA CrashType == TypeInv /\ Crash => TypeInv'
<1> SUFFICES ASSUME TypeInv, Crash PROVE TypeInv'
  OBVIOUS
<1>1. file' \in [Sessions -> {"none", "torn", "ok"}]
  BY DEF Crash, TypeInv, DurableType
<1>2. DurableType'
  BY <1>1 DEF Crash, TypeInv, DurableType
<1>3. VolatileType'
  BY DEF Crash, VolatileType, Inventories, NoInventory, Unknown, RecSets
<1>4. LocksType'
  BY DEF Crash, LocksType
<1>5. CallersType'
  <2>1. Blank \in Contexts /\ Local(Blank, "idle") /\ "idle" \in Labels
    BY DEF Blank, Contexts, Local, RecSets, Labels
  <2> QED BY <2>1 DEF Crash, CallersType
<1> QED BY <1>2, <1>3, <1>4, <1>5, FrameHistory DEF Crash, TypeInv

LEMMA LoseSequenceType == TypeInv /\ LoseSequence => TypeInv'
<1> SUFFICES ASSUME TypeInv, LoseSequence PROVE TypeInv'
  OBVIOUS
<1>1. DurableType'
  BY DEF LoseSequence, TypeInv, DurableType
<1> QED BY <1>1, FrameVolatile, FrameLocks, FrameCallers, FrameHistory DEF LoseSequence, TypeInv

LEMMA TypeStep == TypeInv /\ [Next]_vars => TypeInv'
<1> SUFFICES ASSUME TypeInv, [Next]_vars PROVE TypeInv'
  OBVIOUS
<1>1. CASE UNCHANGED vars
  BY <1>1, FrameDurable, FrameVolatile, FrameLocks, FrameCallers, FrameHistory DEF vars, TypeInv
<1>2. ASSUME NEW p \in Procs, Call(p) PROVE TypeInv'
  BY <1>2, CallCreateType, CallGetType, CallDeleteType, CallAppendType, CallListType DEF Call
<1>3. ASSUME NEW p \in Procs, Step(p) PROVE TypeInv'
  BY <1>3, CreateRefusedType, CreateBeginsType, readSharedProjectionType, ensureRecordInventoryType,
     reserveRecordType, persistCreateStartType, commitCreateType, validateReservedRecordType,
     ResumeLoadsType, finishCreateMarkerType, AppendLoadsType, AppendRefusedType,
     appendNewEventType, reconcileCommittedSharedType, scanAppType, ScanEndsType,
     repairSharedType, RepairAppType, RepairUserType, RepairDoneType, RepairFailsType,
     authoritativeFallbackType, FallbackToJournalsType, FallbackToCacheType, FallbackFailsType,
     FinishType, WriteDeleteMarkerType, removeSessionLogType, removeCreateMarkerType,
     finishDeleteMarkerType
     DEF Step
<1> QED BY <1>1, <1>2, <1>3, CrashType, LoseSequenceType DEF Next

(* Every variable keeps its type, whatever the callers, faults and crashes *)
(* do: no operation writes an order, an incarnation or a record that is    *)
(* out of range, and none reads a local variable it has not set.           *)
THEOREM TypeCorrect == Spec => []TypeOK
<1>1. Spec => []TypeInv
  BY TypeInit, TypeStep, PTL DEF Spec
<1> QED BY <1>1, TypeInvImpliesTypeOK, PTL

-----------------------------------------------------------------------------
(***************************************************************************)
(* Proofs that the records of the session store never contradict each      *)
(* other (RecordsAgree), that user journals stay behind the app journal    *)
(* (UserJournalBehind), and that transcripts are sound, ascend and stay    *)
(* deleted, for every value of the constants.                              *)
(*                                                                         *)
(* The argument for RecordsAgree: a new record takes an order above seq,   *)
(* and every order and incarnation in use is at most seq (Bounded), so a   *)
(* new order and a new incarnation are fresh.  The event ID of an          *)
(* AppendEvent is fresh because its transcript holds every known record of *)
(* its incarnation (LogComplete) and eventByID found none.  LogComplete    *)
(* survives the deletion of a transcript because its header does not come  *)
(* back: a create marker that may be resumed has led to no event yet       *)
(* (Resumable).                                                            *)
(*                                                                         *)
(* The argument for transcripts (SoundInv) adds what a call carries from   *)
(* its scan to its write: the writer of a transcript is alone with it, so  *)
(* what it read is what it extends.                                        *)
(***************************************************************************)

(* The labels l at which an operation holds its op mutex.                  *)
HoldsOp(c, l) ==
  /\ l # "idle"
  /\ \/ c.op = "create" /\ l # "create"
     \/ c.op = "append" /\ l \notin {"append", "baseline"}
     \/ c.op \in {"get", "delete"}

LocksHeld == \A p \in Procs : HoldsOp(ctx[p], pc[p]) => opL[ctx[p].ses] = p

(* A create transaction that has its incarnation and not yet its header.   *)
Opening(c, l) ==
  \/ l \in {"marker", "header", "validate", "resume"}
  \/ l = "baseline" /\ c.op = "create" /\ c.inc # 0

(* A record the files, the memory or an opened create transaction hold,    *)
(* and a record an AppendEvent is about to write.                          *)
KnownAs(r) ==
  \/ r \in pending
  \/ r \in appJ
  \/ \E u \in Users : r \in userJ[u]
  \/ \E s \in Sessions : r \in log[s]
  \/ \E s \in Sessions : cmark[s] # 0 /\ r = HeaderOf(s, cmark[s])
  \/ \E p \in Procs : r \in ctx[p].scan
  \/ \E p \in Procs : Opening(ctx[p], pc[p]) /\ r = HeaderOf(ctx[p].ses, ctx[p].inc)
Writing(r) == \E p \in Procs : pc[p] = "commit" /\ r = Rec(p)
Somewhere(r) == KnownAs(r) \/ Writing(r)

Bounded == \A r : Somewhere(r) => r.ord <= seq /\ r.inc <= seq
Agree == \A a, b : Somewhere(a) /\ Somewhere(b) => ~Contradicts(a, b)

(* A transcript holds every known record of its incarnation.               *)
LogComplete == \A r : KnownAs(r) /\ SameIncarnation(r.ses, r.inc) => r \in log[r.ses]

(* A create marker that may be resumed to write a header has led to no     *)
(* other record.                                                           *)
OnlyHeader(s, i) == \A r : KnownAs(r) /\ r.ses = s /\ r.inc = i => r.ev = Header
Resumable ==
  \A s \in Sessions : cmark[s] # 0 /\ dmark[s] = 0 /\ file[s] # "ok" => OnlyHeader(s, cmark[s])

NoFileNoLog == \A s \in Sessions : file[s] # "ok" => log[s] = {}

(* What an operation that holds its op mutex knows about the files.        *)
FilesAt(c, l) ==
  /\ l \in {"baseline", "reserve"} /\ c.op = "create" /\ c.inc = 0 =>
       cmark[c.ses] = 0 /\ dmark[c.ses] = 0 /\ file[c.ses] = "none"
  /\ l = "marker" =>
       /\ cmark[c.ses] = 0 /\ dmark[c.ses] = 0 /\ file[c.ses] = "none"
       /\ OnlyHeader(c.ses, c.inc)
  /\ l = "header" => file[c.ses] = "none"
  /\ Opening(c, l) /\ l # "marker" => cmark[c.ses] = c.inc /\ dmark[c.ses] = 0
  /\ Opening(c, l) => c.ord = c.inc
  /\ l = "reserve" /\ c.op = "append" => SameIncarnation(c.ses, c.inc) /\ eventByID(c.ses, c.ev) = {}
  /\ l = "reserve" /\ c.op = "create" => c.inc = 0
  /\ l = "commit" => SameIncarnation(c.ses, c.inc)
  /\ l \in {"remove", "uncreate"} => dmark[c.ses] # 0
  /\ l = "unmark" => cmark[c.ses] = 0 \/ file[c.ses] = "ok"

IdentityInv ==
  /\ LocksHeld /\ Bounded /\ Agree /\ LogComplete /\ Resumable /\ NoFileNoLog
  /\ \A p \in Procs : FilesAt(ctx[p], pc[p])


LEMMA IdentityInit == Init => IdentityInv
<1> SUFFICES ASSUME Init PROVE IdentityInv
  OBVIOUS
<1>1. \A p \in Procs : pc[p] = "idle" /\ ctx[p] = Blank
  BY DEF Init
<1>2. ASSUME NEW r, Somewhere(r) PROVE FALSE
  <2>1. \A p \in Procs : ~Opening(ctx[p], pc[p]) /\ ctx[p].scan = {} /\ pc[p] # "commit"
    <3>1. Blank.scan = {} /\ ~Opening(Blank, "idle")
      BY DEF Blank, Opening
    <3> QED BY <1>1, <3>1
  <2>2. /\ pending = {} /\ appJ = {}
        /\ \A u \in Users : userJ[u] = {}
        /\ \A s \in Sessions : log[s] = {} /\ cmark[s] = 0
    BY DEF Init
  <2>3. CASE KnownAs(r)
    BY <2>1, <2>2, <2>3 DEF KnownAs
  <2>4. CASE Writing(r)
    BY <2>1, <2>4 DEF Writing
  <2> QED BY <1>2, <2>3, <2>4 DEF Somewhere
<1>3. LocksHeld
  BY <1>1 DEF LocksHeld, HoldsOp, Blank
<1>4. Bounded /\ Agree /\ LogComplete
  BY <1>2 DEF Bounded, Agree, LogComplete, Somewhere
<1>5. Resumable /\ NoFileNoLog
  BY DEF Init, Resumable, NoFileNoLog
<1>6. \A p \in Procs : FilesAt(ctx[p], pc[p])
  BY <1>1 DEF FilesAt, Opening
<1> QED BY <1>3, <1>4, <1>5, <1>6 DEF IdentityInv

LEMMA SomewhereType ==
  ASSUME TypeInv, NEW r, Somewhere(r)
  PROVE  r \in Records
<1>1. CASE r \in pending \/ r \in appJ \/ (\E u \in Users : r \in userJ[u])
            \/ (\E s \in Sessions : r \in log[s])
  BY <1>1 DEF TypeInv, DurableType, VolatileType, RecSets
<1>2. CASE \E s \in Sessions : cmark[s] # 0 /\ r = HeaderOf(s, cmark[s])
  BY <1>2, HeaderType DEF TypeInv, DurableType, Orders
<1>3. CASE \E p \in Procs : r \in ctx[p].scan
  BY <1>3, CallerAt DEF Contexts, RecSets
<1>4. CASE \E p \in Procs : Opening(ctx[p], pc[p]) /\ r = HeaderOf(ctx[p].ses, ctx[p].inc)
  <2>1. PICK p \in Procs : Opening(ctx[p], pc[p]) /\ r = HeaderOf(ctx[p].ses, ctx[p].inc)
    BY <1>4
  <2>2. ctx[p] \in Contexts /\ Local(ctx[p], pc[p])
    BY CallerAt
  <2>3. ctx[p].ses \in Sessions /\ ctx[p].inc \in Orders
    BY <2>1, <2>2 DEF Opening, Local, Contexts, Orders
  <2> QED BY <2>1, <2>3, HeaderType
<1>5. CASE \E p \in Procs : pc[p] = "commit" /\ r = Rec(p)
  <2>1. PICK p \in Procs : pc[p] = "commit" /\ r = Rec(p)
    BY <1>5
  <2>2. ctx[p].op = "append"
    BY <2>1, CallerAt DEF Local
  <2> QED BY <2>1, <2>2, RecType
<1> QED BY <1>1, <1>2, <1>3, <1>4, <1>5 DEF Somewhere, KnownAs, Writing

(* What is known of a header that was opened.                              *)
LEMMA OpeningIsHeader ==
  ASSUME TypeInv, NEW p \in Procs, Opening(ctx[p], pc[p]), FilesAt(ctx[p], pc[p])
  PROVE  /\ Rec(p) = HeaderOf(ctx[p].ses, ctx[p].inc)
         /\ KnownAs(Rec(p))
<1>1. Local(ctx[p], pc[p])
  BY CallerAt
<1>2. ctx[p].ev = Header
  BY <1>1 DEF Opening, Local
<1>3. Rec(p) = HeaderOf(ctx[p].ses, ctx[p].inc)
  BY <1>2 DEF Rec, HeaderOf, FilesAt
<1> QED BY <1>3 DEF KnownAs

-----------------------------------------------------------------------------
(* What a step of one caller leaves of the invariant.                      *)

(* Nothing new is known: what agreed agrees, as long as seq does not fall. *)
LEMMA NothingNew ==
  ASSUME IdentityInv, \A r : Somewhere(r)' => Somewhere(r), seq <= seq',
         TypeInv, seq' \in Nat
  PROVE  Bounded' /\ Agree'
<1>1. \A r : Somewhere(r) => r.ord \in Nat /\ r.inc \in Nat /\ r.ord <= seq /\ r.inc <= seq
  BY SomewhereType DEF IdentityInv, Bounded, Records, Orders
<1>2. seq \in Nat
  BY DEF TypeInv, DurableType
<1>3. \A r : Somewhere(r)' => r.ord <= seq' /\ r.inc <= seq'
  BY <1>1, <1>2
<1>4. Agree'
  BY DEF IdentityInv, Agree
<1> QED BY <1>3, <1>4 DEF Bounded

(* Another caller keeps its place and its local variables.                 *)
LEMMA Others ==
  ASSUME TypeInv, NEW p \in Procs, NEW c, NEW l,
         pc' = [pc EXCEPT ![p] = l], ctx' = [ctx EXCEPT ![p] = c], NEW q \in Procs
  PROVE  \/ q = p /\ ctx'[q] = c /\ pc'[q] = l
         \/ q # p /\ ctx'[q] = ctx[q] /\ pc'[q] = pc[q]
  BY DEF TypeInv, CallersType

(* A caller that holds an op mutex holds it for a session.                 *)
LEMMA HolderHasSession ==
  ASSUME TypeInv, NEW q \in Procs, HoldsOp(ctx[q], pc[q])
  PROVE  ctx[q].ses \in Sessions
  BY CallerAt DEF Local, HoldsOp

OpKept(p) == \A s \in Sessions : opL'[s] = opL[s] \/ opL[s] \in {NULL, p}

(* The mutexes of the other callers stay theirs.                           *)
LEMMA LocksKept ==
  ASSUME IdentityInv, NEW p \in Procs, NEW c, NEW l, TypeInv,
         pc' = [pc EXCEPT ![p] = l], ctx' = [ctx EXCEPT ![p] = c],
         OpKept(p),
         HoldsOp(c, l) => opL'[c.ses] = p
  PROVE  LocksHeld'
<1> SUFFICES ASSUME NEW q \in Procs, HoldsOp(ctx'[q], pc'[q])
             PROVE  opL'[ctx'[q].ses] = q
  BY DEF LocksHeld
<1>1. CASE q = p
  <2>1. ctx'[q] = c /\ pc'[q] = l
    BY <1>1 DEF TypeInv, CallersType
  <2> QED BY <1>1, <2>1
<1>2. CASE q # p
  <2>1. ctx'[q] = ctx[q] /\ pc'[q] = pc[q]
    BY <1>2, Others
  <2>2. HoldsOp(ctx[q], pc[q])
    BY <2>1
  <2>3. opL[ctx[q].ses] = q
    BY <2>2 DEF IdentityInv, LocksHeld
  <2>4. ctx[q].ses \in Sessions
    BY <2>2, HolderHasSession
  <2>5. q # NULL
    OBVIOUS
  <2> QED BY <1>2, <2>1, <2>3, <2>4, <2>5 DEF OpKept
<1> QED BY <1>1, <1>2

LEMMA FilesPrimed ==
  ASSUME NEW q \in Procs, NEW d, NEW m, d = ctx'[q], m = pc'[q], FilesAt(d, m)'
  PROVE  FilesAt(ctx[q], pc[q])'
  BY DEF FilesAt, Opening, OnlyHeader, SameIncarnation, eventByID

(* The files of s after a step hold nothing new but what p was writing,    *)
(* and agree with each other.                                              *)
Rewritten(s) ==
  /\ \A r \in log'[s] : KnownAs(r) \/ (Writing(r) /\ r.ses = s)
  /\ cmark'[s] # 0 => KnownAs(HeaderOf(s, cmark'[s]))
  /\ \A r : KnownAs(r) /\ r.ses = s /\ HeaderOf(s, r.inc) \in log'[s] => r \in log'[s]
  /\ cmark'[s] # 0 /\ dmark'[s] = 0 /\ file'[s] # "ok" => OnlyHeader(s, cmark'[s])
  /\ file'[s] # "ok" => log'[s] = {}

ElsewhereKept(s) ==
  \A t \in Sessions : t # s => /\ file'[t] = file[t] /\ log'[t] = log[t]
                               /\ cmark'[t] = cmark[t] /\ dmark'[t] = dmark[t]
MemoryKnown ==
  /\ \A r \in pending' : KnownAs(r)
  /\ \A r \in appJ' : KnownAs(r)
  /\ \A u \in Users : \A r \in userJ'[u] : KnownAs(r)

(* A step of p with its new place l and local variables c, which may       *)
(* change the files of one session s only when p holds the op mutex of s.  *)
LEMMA Move ==
  ASSUME TypeInv, TypeInv', IdentityInv, NEW p \in Procs, NEW c, NEW l, NEW s,
         pc' = [pc EXCEPT ![p] = l], ctx' = [ctx EXCEPT ![p] = c],
         seq <= seq', l # "commit",
         \/ UNCHANGED <<file, log, cmark, dmark>>
         \/ s = ctx[p].ses /\ HoldsOp(ctx[p], pc[p]),
         ElsewhereKept(s), MemoryKnown,
         \A r \in c.scan : KnownAs(r),
         Opening(c, l) => KnownAs(HeaderOf(c.ses, c.inc)),
         OpKept(p),
         HoldsOp(c, l) => opL'[c.ses] = p,
         s \in Sessions => Rewritten(s),
         FilesAt(c, l)'
  PROVE  IdentityInv'
<1>0. \A q \in Procs : \/ q = p /\ ctx'[q] = c /\ pc'[q] = l
                       \/ q # p /\ ctx'[q] = ctx[q] /\ pc'[q] = pc[q]
  BY DEF TypeInv, CallersType
<1>1. ASSUME NEW r, KnownAs(r)'
      PROVE  KnownAs(r) \/ (s \in Sessions /\ r \in log'[s] /\ Writing(r) /\ r.ses = s)
  <2>1. CASE r \in pending' \/ r \in appJ' \/ \E u \in Users : r \in userJ'[u]
    BY <2>1 DEF MemoryKnown
  <2>2. CASE \E t \in Sessions : r \in log'[t]
    <3>1. PICK t \in Sessions : r \in log'[t]
      BY <2>2
    <3> QED BY <3>1 DEF KnownAs, Rewritten, ElsewhereKept
  <2>3. CASE \E t \in Sessions : cmark'[t] # 0 /\ r = HeaderOf(t, cmark'[t])
    <3>1. PICK t \in Sessions : cmark'[t] # 0 /\ r = HeaderOf(t, cmark'[t])
      BY <2>3
    <3> QED BY <3>1 DEF KnownAs, Rewritten, ElsewhereKept
  <2>4. CASE \E q \in Procs : r \in ctx'[q].scan
    BY <2>4, <1>0 DEF KnownAs
  <2>5. CASE \E q \in Procs : Opening(ctx'[q], pc'[q]) /\ r = HeaderOf(ctx'[q].ses, ctx'[q].inc)
    <3>1. PICK q \in Procs : Opening(ctx'[q], pc'[q]) /\ r = HeaderOf(ctx'[q].ses, ctx'[q].inc)
      BY <2>5
    <3>2. CASE q = p /\ ctx'[q] = c /\ pc'[q] = l
      BY <3>1, <3>2
    <3>3. CASE ctx'[q] = ctx[q] /\ pc'[q] = pc[q]
      BY <3>1, <3>3 DEF KnownAs
    <3> QED BY <3>2, <3>3, <1>0
  <2> QED BY <1>1, <2>1, <2>2, <2>3, <2>4, <2>5 DEF KnownAs, HeaderOf, Opening
<1>2. ASSUME NEW r, Writing(r)' PROVE Writing(r)
  BY <1>2, <1>0 DEF Writing, Rec
<1>3. \A r : Somewhere(r)' => Somewhere(r)
  BY <1>1, <1>2 DEF Somewhere
<1>4. seq' \in Nat
  BY DEF TypeInv, DurableType
<1>5. Bounded' /\ Agree'
  BY <1>3, <1>4, NothingNew
<1>6. LocksHeld'
  BY LocksKept DEF OpKept
<1>7. LogComplete'
  <2> SUFFICES ASSUME NEW r, KnownAs(r)', HeaderOf(r.ses, r.inc) \in log'[r.ses]
               PROVE  r \in log'[r.ses]
    BY DEF LogComplete, SameIncarnation, HeaderOf
  <2>1. r.ses \in Sessions
    <3>1. Somewhere(r)
      BY <1>3 DEF Somewhere
    <3> QED BY <3>1, SomewhereType DEF Records
  <2>2. CASE r.ses = s
    BY <1>1, <2>1, <2>2 DEF Rewritten
  <2>3. CASE r.ses # s
    BY <1>1, <2>1, <2>3 DEF IdentityInv, LogComplete, SameIncarnation, ElsewhereKept
  <2> QED BY <2>2, <2>3
<1>8. NoFileNoLog'
  BY DEF IdentityInv, NoFileNoLog, Rewritten, ElsewhereKept
<1>9. \A t \in Sessions : \A i : t # s \/ log'[t] = {} => (OnlyHeader(t, i) => OnlyHeader(t, i)')
  BY <1>1 DEF OnlyHeader
<1>10. Resumable'
  BY <1>8, <1>9 DEF IdentityInv, Resumable, NoFileNoLog, Rewritten, ElsewhereKept
<1>11. ASSUME NEW q \in Procs, NEW d, NEW m, d = ctx'[q], m = pc'[q]
       PROVE  FilesAt(d, m)'
  <2>1. CASE q = p
    <3>1. d = c /\ m = l
      BY <1>0, <1>11, <2>1
    <3> QED BY <3>1
  <2>2. CASE q # p
    <3>1. d = ctx[q] /\ m = pc[q]
      BY <1>0, <1>11, <2>2
    <3>2. FilesAt(d, m) /\ Local(d, m)
      BY <3>1, CallerAt DEF IdentityInv
    <3>3. CASE HoldsOp(d, m) /\ s = d.ses /\ ~UNCHANGED <<file, log, cmark, dmark>>
      BY <2>2, <3>1, <3>3 DEF IdentityInv, LocksHeld
    <3>4. CASE HoldsOp(d, m) /\ (s # d.ses \/ UNCHANGED <<file, log, cmark, dmark>>)
      <4>1. d.ses \in Sessions
        BY <3>1, <3>4, HolderHasSession
      <4>2. /\ file'[d.ses] = file[d.ses] /\ log'[d.ses] = log[d.ses]
            /\ cmark'[d.ses] = cmark[d.ses] /\ dmark'[d.ses] = dmark[d.ses]
        BY <3>4, <4>1 DEF ElsewhereKept
      <4>3. OnlyHeader(d.ses, d.inc) /\ m = "marker" => OnlyHeader(d.ses, d.inc)'
        <5>1. m = "marker" => log'[d.ses] = {}
          BY <3>2, <4>1, <4>2 DEF FilesAt, IdentityInv, NoFileNoLog
        <5> QED BY <4>1, <5>1, <1>9
      <4> QED BY <3>2, <4>2, <4>3 DEF FilesAt, Opening, SameIncarnation, eventByID
    <3>5. CASE ~HoldsOp(d, m)
      BY <3>2, <3>5 DEF FilesAt, Local, HoldsOp, Opening
    <3> QED BY <3>3, <3>4, <3>5
  <2> QED BY <2>1, <2>2
<1>12. \A q \in Procs : FilesAt(ctx[q], pc[q])'
  BY <1>11, FilesPrimed
<1> QED BY <1>5, <1>6, <1>7, <1>8, <1>10, <1>12 DEF IdentityInv

-----------------------------------------------------------------------------
(* Steps that change no transcript and no marker.                          *)

Late == {"finish", "reconcile", "scan", "project", "repair", "refallback", "fallback", "done", "mark"}

LEMMA LateIsQuiet ==
  ASSUME NEW c, NEW l \in Late \cup {"idle", "create", "append"}
  PROVE  ~Opening(c, l) /\ FilesAt(c, l)' /\ l # "commit"
  BY DEF Late, Opening, FilesAt

(* Memory and journals that are left alone hold known records.             *)
LEMMA HeldIsKnown ==
  /\ \A r \in pending \cup appJ : KnownAs(r)
  /\ \A u \in Users : \A r \in userJ[u] : KnownAs(r)
  /\ \A s \in Sessions : \A r \in log[s] : KnownAs(r)
  /\ \A p \in Procs : \A r \in ctx[p].scan : KnownAs(r)
  /\ \A s \in Sessions : cmark[s] # 0 => KnownAs(HeaderOf(s, cmark[s]))
  BY DEF KnownAs

LEMMA QuietFiles ==
  ASSUME IdentityInv, UNCHANGED <<file, log, cmark, dmark>>, NEW s \in Sessions
  PROVE  Rewritten(s)
<1>1. \A r : KnownAs(r) /\ r.ses = s /\ HeaderOf(s, r.inc) \in log'[s] => r \in log'[s]
  BY DEF IdentityInv, LogComplete, SameIncarnation
<1>2. (\A r \in log'[s] : KnownAs(r)) /\ (cmark'[s] # 0 => KnownAs(HeaderOf(s, cmark'[s])))
  BY HeldIsKnown
<1> QED BY <1>1, <1>2 DEF Rewritten, IdentityInv, Resumable, NoFileNoLog

(* One step of an operation that works on the shared state.                *)
LEMMA LateMove ==
  ASSUME TypeInv, TypeInv', IdentityInv, NEW p \in Procs, NEW c, NEW l \in Late,
         pc[p] \in Late, c.op = ctx[p].op, c.ses = ctx[p].ses,
         pc' = [pc EXCEPT ![p] = l], ctx' = [ctx EXCEPT ![p] = c],
         UNCHANGED <<file, log, cmark, dmark, seq, opL>>,
         MemoryKnown,
         \A r \in c.scan : KnownAs(r)
  PROVE  IdentityInv'
<1>1. ~Opening(c, l) /\ FilesAt(c, l)' /\ l # "commit"
  BY LateIsQuiet
<1>2. HoldsOp(c, l) => opL'[c.ses] = p
  BY DEF HoldsOp, Late, IdentityInv, LocksHeld
<1>3. seq <= seq'
  BY DEF TypeInv, DurableType
<1>4. \A s \in Sessions : Rewritten(s)
  BY QuietFiles
<1>5. OpKept(p) /\ \A s : ElsewhereKept(s)
  BY DEF OpKept, ElsewhereKept
<1> QED BY <1>1, <1>2, <1>3, <1>4, <1>5, Move

(* A file step or a quiet step that ends the operation.                    *)
LEMMA ReturnMove ==
  ASSUME TypeInv, TypeInv', IdentityInv, NEW p \in Procs, Return(p),
         \/ UNCHANGED <<file, log, cmark, dmark>>
         \/ HoldsOp(ctx[p], pc[p]),
         ElsewhereKept(ctx[p].ses), seq <= seq', MemoryKnown,
         ctx[p].ses \in Sessions => Rewritten(ctx[p].ses)
  PROVE  IdentityInv'
<1> SUFFICES ASSUME NEW c, NEW l, c = Blank, l = "idle" PROVE IdentityInv'
  OBVIOUS
<1>1. pc' = [pc EXCEPT ![p] = l] /\ ctx' = [ctx EXCEPT ![p] = c]
  BY DEF Return, Goto, SetCtx
<1>2. ~Opening(c, l) /\ FilesAt(c, l)' /\ l # "commit"
  BY LateIsQuiet
<1>3. ~HoldsOp(c, l) /\ c.scan = {}
  BY DEF HoldsOp, Blank
<1>4. OpKept(p)
  BY DEF Return, OpKept
<1> QED BY <1>1, <1>2, <1>3, <1>4, Move

(* The operation returns and leaves the files as they are.                 *)
LEMMA QuietReturn ==
  ASSUME TypeInv, TypeInv', IdentityInv, NEW p \in Procs, Return(p),
         UNCHANGED <<file, log, cmark, dmark, appJ, userJ, pending>>, seq <= seq'
  PROVE  IdentityInv'
<1>1. \A s \in Sessions : Rewritten(s)
  BY QuietFiles
<1>2. MemoryKnown
  BY HeldIsKnown DEF MemoryKnown
<1>3. \A s : ElsewhereKept(s)
  BY DEF ElsewhereKept
<1> QED BY <1>1, <1>2, <1>3, ReturnMove

LEMMA MemoryKept ==
  ASSUME UNCHANGED <<appJ, userJ>>, \A r \in pending' : KnownAs(r)
  PROVE  MemoryKnown
  BY HeldIsKnown DEF MemoryKnown

LEMMA reconcileCommittedSharedIdentity ==
  ASSUME TypeInv, TypeInv', IdentityInv, NEW p \in Procs, reconcileCommittedShared(p)
  PROVE  IdentityInv'
<1> SUFFICES ASSUME NEW c, c = [ctx[p] EXCEPT !.todo = Sessions] PROVE IdentityInv'
  OBVIOUS
<1>1. ctx[p].ses \in Sessions /\ ctx[p] \in Contexts
  BY CallerAt DEF reconcileCommittedShared, Local
<1>2. c.op = ctx[p].op /\ c.ses = ctx[p].ses /\ c.scan = ctx[p].scan
  BY <1>1 DEF Contexts
<1>3. /\ pc[p] \in Late /\ "scan" \in Late
      /\ pc' = [pc EXCEPT ![p] = "scan"] /\ ctx' = [ctx EXCEPT ![p] = c]
      /\ UNCHANGED <<file, log, cmark, dmark, seq, opL, appJ, userJ>>
  BY DEF reconcileCommittedShared, Goto, SetCtx, durable, Late
<1>4. \A r \in pending' : KnownAs(r)
  BY <1>1, HeldIsKnown DEF reconcileCommittedShared
<1>5. \A r \in c.scan : KnownAs(r)
  BY <1>2, HeldIsKnown
<1>6. MemoryKnown
  BY <1>3, <1>4, MemoryKept
<1> QED BY <1>2, <1>3, <1>5, <1>6, LateMove

LEMMA scanAppIdentity ==
  ASSUME TypeInv, TypeInv', IdentityInv, NEW p \in Procs, NEW s \in Sessions, scanApp(p, s)
  PROVE  IdentityInv'
<1> DEFINE found == IF file[s] = "ok" THEN ctx[p].scan \cup log[s] ELSE ctx[p].scan
           last == ctx[p].todo = {s}
<1> SUFFICES ASSUME NEW c, NEW l,
                    c = [ctx[p] EXCEPT !.todo = @ \ {s}, !.scan = found,
                          !.left = IF last /\ ctx[p].op = "list" THEN UsersIn(found) ELSE @],
                    l = IF last THEN AfterScan(p) ELSE "scan"
             PROVE  IdentityInv'
  OBVIOUS
<1>1. c.op = ctx[p].op /\ c.ses = ctx[p].ses /\ c.scan = found
  BY CallerAt DEF Contexts
<1>2. /\ pc[p] \in Late /\ l \in Late
      /\ pc' = [pc EXCEPT ![p] = l] /\ ctx' = [ctx EXCEPT ![p] = c]
      /\ UNCHANGED <<file, log, cmark, dmark, seq, opL, appJ, userJ, pending>>
  BY DEF scanApp, Goto, SetCtx, durable, volatile, locks, Late, AfterScan
<1>3. \A r \in c.scan : KnownAs(r)
  BY <1>1, HeldIsKnown
<1>4. MemoryKnown
  BY <1>2, HeldIsKnown, MemoryKept
<1> QED BY <1>1, <1>2, <1>3, <1>4, LateMove

LEMMA ScanEndsIdentity ==
  ASSUME TypeInv, TypeInv', IdentityInv, NEW p \in Procs, NEW s \in Sessions, ScanEnds(p, s)
  PROVE  IdentityInv'
<1>1. CASE ~Reconciling(p)
  <2>1. Return(p) /\ UNCHANGED <<file, log, cmark, dmark, appJ, userJ, pending, seq>>
    BY <1>1 DEF ScanEnds, durable, volatile
  <2>2. seq <= seq'
    BY <2>1 DEF TypeInv, DurableType
  <2> QED BY <2>1, <2>2, QuietReturn
<1>2. CASE Reconciling(p)
  <2> SUFFICES ASSUME NEW c, c = [ctx[p] EXCEPT !.todo = {}, !.scan = pending]
               PROVE  IdentityInv'
    OBVIOUS
  <2>1. c.op = ctx[p].op /\ c.ses = ctx[p].ses /\ c.scan = pending
    BY CallerAt DEF Contexts
  <2>2. /\ pc[p] \in Late /\ "fallback" \in Late
        /\ pc' = [pc EXCEPT ![p] = "fallback"] /\ ctx' = [ctx EXCEPT ![p] = c]
        /\ UNCHANGED <<file, log, cmark, dmark, seq, opL, appJ, userJ, pending>>
    BY <1>2 DEF ScanEnds, Goto, SetCtx, durable, volatile, locks, Late
  <2>3. \A r \in c.scan : KnownAs(r)
    BY <2>1, HeldIsKnown
  <2>4. MemoryKnown
    BY <2>2, HeldIsKnown, MemoryKept
  <2> QED BY <2>1, <2>2, <2>3, <2>4, LateMove
<1> QED BY <1>1, <1>2

(* The label stays, or another late label follows, and the local variables *)
(* that matter stay too.                                                   *)
LEMMA LateStay ==
  ASSUME TypeInv, TypeInv', IdentityInv, NEW p \in Procs, NEW c, NEW l \in Late,
         pc[p] \in Late, pc' = [pc EXCEPT ![p] = l], ctx' = [ctx EXCEPT ![p] = c],
         c.op = ctx[p].op, c.ses = ctx[p].ses, c.scan = ctx[p].scan,
         UNCHANGED <<file, log, cmark, dmark, seq, opL>>, MemoryKnown
  PROVE  IdentityInv'
<1>1. \A r \in c.scan : KnownAs(r)
  BY HeldIsKnown
<1> QED BY <1>1, LateMove

LEMMA repairSharedIdentity ==
  ASSUME TypeInv, TypeInv', IdentityInv, NEW p \in Procs, repairShared(p)
  PROVE  IdentityInv'
<1>1. PICK c : /\ ctx' = [ctx EXCEPT ![p] = c]
               /\ c.op = ctx[p].op /\ c.ses = ctx[p].ses /\ c.scan = ctx[p].scan
  <2>1. CASE UNCHANGED ctx
    <3>1. ctx' = [ctx EXCEPT ![p] = ctx[p]]
      BY <2>1 DEF TypeInv, CallersType
    <3> QED BY <3>1
  <2>2. CASE \E u \in ctx[p].left : SetCtx(p, [ctx[p] EXCEPT !.user = u, !.left = @ \ {u}])
    <3>1. PICK u \in ctx[p].left : ctx' = [ctx EXCEPT ![p] = [ctx[p] EXCEPT !.user = u, !.left = @ \ {u}]]
      BY <2>2 DEF SetCtx
    <3>2. ctx[p] \in Contexts
      BY CallerAt
    <3>3. \A d : d = [ctx[p] EXCEPT !.user = u, !.left = @ \ {u}] =>
                   d.op = ctx[p].op /\ d.ses = ctx[p].ses /\ d.scan = ctx[p].scan
      BY <3>2 DEF Contexts
    <3> QED BY <3>1, <3>3
  <2> QED BY <2>1, <2>2 DEF repairShared
<1>2. /\ pc[p] \in Late /\ "repair" \in Late /\ pc' = [pc EXCEPT ![p] = "repair"]
      /\ UNCHANGED <<file, log, cmark, dmark, seq, opL, appJ, userJ, pending>>
  BY DEF repairShared, Goto, durable, volatile, Late
<1>3. MemoryKnown
  BY <1>2, HeldIsKnown, MemoryKept
<1> QED BY <1>1, <1>2, <1>3, LateStay

LEMMA StillLate ==
  ASSUME TypeInv, NEW p \in Procs, UNCHANGED <<pc, ctx>>
  PROVE  pc' = [pc EXCEPT ![p] = pc[p]] /\ ctx' = [ctx EXCEPT ![p] = ctx[p]]
  BY DEF TypeInv, CallersType

LEMMA RepairIdentity ==
  ASSUME TypeInv, TypeInv', IdentityInv, NEW p \in Procs, RepairApp(p) \/ RepairUser(p)
  PROVE  IdentityInv'
<1>1. /\ pc[p] \in Late
      /\ UNCHANGED <<file, log, cmark, dmark, seq, opL, pending, pc, ctx>>
  BY DEF RepairApp, RepairUser, volatile, locks, Late
<1>2. MemoryKnown
  <2>1. CASE RepairApp(p)
    <3>1. /\ \A r \in appJ' : r \in appJ \/ r \in ctx[p].scan
          /\ UNCHANGED <<userJ, pending>>
      BY <2>1 DEF RepairApp, AppMissing, First, volatile
    <3> QED BY <3>1, HeldIsKnown DEF MemoryKnown
  <2>2. CASE RepairUser(p)
    <3>1. /\ \A u \in Users : \A r \in userJ'[u] : r \in userJ[u] \/ r \in ctx[p].scan
          /\ UNCHANGED <<appJ, pending>>
      BY <2>2 DEF RepairUser, UserMissing, OwnedBy, First, volatile, TypeInv, DurableType
    <3> QED BY <3>1, HeldIsKnown DEF MemoryKnown
  <2> QED BY <2>1, <2>2
<1>3. pc' = [pc EXCEPT ![p] = pc[p]] /\ ctx' = [ctx EXCEPT ![p] = ctx[p]]
  BY <1>1, StillLate
<1> QED BY <1>1, <1>2, <1>3, LateStay

LEMMA ProjectedIdentity ==
  ASSUME TypeInv, TypeInv', IdentityInv, NEW p \in Procs, NEW app, NEW usr,
         Projected(p, app, usr), pc[p] \in Late,
         UNCHANGED <<file, log, cmark, dmark, seq>>, MemoryKnown
  PROVE  IdentityInv'
<1> SUFFICES ASSUME NEW c, c = [ctx[p] EXCEPT !.app = app, !.usr = usr] PROVE IdentityInv'
  OBVIOUS
<1>1. c.op = ctx[p].op /\ c.ses = ctx[p].ses /\ c.scan = ctx[p].scan
  BY CallerAt DEF Contexts
<1>2. PICK l \in Late : pc' = [pc EXCEPT ![p] = l]
  BY DEF Projected, AfterProjection, Goto, Late
<1>3. ctx' = [ctx EXCEPT ![p] = c] /\ UNCHANGED opL
  BY DEF Projected, SetCtx
<1> QED BY <1>1, <1>2, <1>3, LateStay

LEMMA RepairDoneIdentity ==
  ASSUME TypeInv, TypeInv', IdentityInv, NEW p \in Procs, RepairDone(p)
  PROVE  IdentityInv'
<1>1. /\ Projected(p, projectJournal(p), projectUserJournal(p)) /\ pc[p] \in Late
      /\ UNCHANGED <<file, log, cmark, dmark, seq, appJ, userJ>>
  BY DEF RepairDone, durable, Late
<1>2. \A r \in pending' : KnownAs(r)
  BY HeldIsKnown DEF RepairDone
<1> QED BY <1>1, <1>2, MemoryKept, ProjectedIdentity

LEMMA FallbackToJournalsIdentity ==
  ASSUME TypeInv, TypeInv', IdentityInv, NEW p \in Procs, FallbackToJournals(p)
  PROVE  IdentityInv'
<1>1. /\ Projected(p, mergePendingApp(p), mergePendingUser(p)) /\ pc[p] \in Late
      /\ UNCHANGED <<file, log, cmark, dmark, seq, appJ, userJ, pending>>
  BY DEF FallbackToJournals, durable, Late
<1> QED BY <1>1, HeldIsKnown, MemoryKept, ProjectedIdentity

LEMMA FallbackToCacheIdentity ==
  ASSUME TypeInv, TypeInv', IdentityInv, NEW p \in Procs, FallbackToCache(p)
  PROVE  IdentityInv'
<1>1. pc[p] \in Late /\ UNCHANGED <<file, log, cmark, dmark, seq, appJ, userJ, pending>>
  BY DEF FallbackToCache, durable, Late
<1>2. CASE ctx[p].op = "append"
  <2>1. Projected(p, mergeKnownApp(p), mergeKnownUser(p))
    BY <1>2 DEF FallbackToCache
  <2> QED BY <1>1, <2>1, HeldIsKnown, MemoryKept, ProjectedIdentity
<1>3. CASE ctx[p].op # "append"
  <2>1. Return(p)
    BY <1>3 DEF FallbackToCache
  <2>2. seq <= seq'
    BY <1>1 DEF TypeInv, DurableType
  <2> QED BY <1>1, <2>1, <2>2, QuietReturn
<1> QED BY <1>2, <1>3

LEMMA RepairFailsIdentity ==
  ASSUME TypeInv, TypeInv', IdentityInv, NEW p \in Procs, RepairFails(p)
  PROVE  IdentityInv'
<1>1. pc[p] \in Late /\ UNCHANGED <<file, log, cmark, dmark, seq, appJ, userJ, pending>>
  BY DEF RepairFails, durable, volatile, Late
<1>2. MemoryKnown
  BY <1>1, HeldIsKnown, MemoryKept
<1>3. ctx[p] \in Contexts
  BY CallerAt
<1>4. CASE /\ SetCtx(p, [ctx[p] EXCEPT !.scan = @ \cup pending])
           /\ Goto(p, "fallback") /\ UNCHANGED locks
  <2> SUFFICES ASSUME NEW c, c = [ctx[p] EXCEPT !.scan = @ \cup pending] PROVE IdentityInv'
    OBVIOUS
  <2>1. c.op = ctx[p].op /\ c.ses = ctx[p].ses /\ c.scan = ctx[p].scan \cup pending
    BY <1>3 DEF Contexts
  <2>2. /\ "fallback" \in Late /\ pc' = [pc EXCEPT ![p] = "fallback"]
        /\ ctx' = [ctx EXCEPT ![p] = c] /\ UNCHANGED opL
    BY <1>4 DEF Goto, SetCtx, Late, locks
  <2>3. \A r \in c.scan : KnownAs(r)
    BY <2>1, HeldIsKnown
  <2> QED BY <1>1, <1>2, <2>1, <2>2, <2>3, LateMove
<1>5. CASE Goto(p, "refallback") /\ FreeProject(p) /\ UNCHANGED <<ctx, createL, opL>>
  <2>1. /\ "refallback" \in Late /\ pc' = [pc EXCEPT ![p] = "refallback"]
        /\ ctx' = [ctx EXCEPT ![p] = ctx[p]]
    BY <1>5 DEF Goto, Late, TypeInv, CallersType
  <2> QED BY <1>1, <1>2, <1>5, <2>1, LateStay
<1>6. CASE Return(p)
  <2>1. seq <= seq'
    BY <1>1 DEF TypeInv, DurableType
  <2> QED BY <1>1, <1>6, <2>1, QuietReturn
<1> QED BY <1>4, <1>5, <1>6 DEF RepairFails

LEMMA authoritativeFallbackIdentity ==
  ASSUME TypeInv, TypeInv', IdentityInv, NEW p \in Procs, authoritativeFallback(p)
  PROVE  IdentityInv'
<1>1. /\ pc[p] \in Late /\ "fallback" \in Late /\ pc' = [pc EXCEPT ![p] = "fallback"]
      /\ UNCHANGED <<file, log, cmark, dmark, seq, appJ, userJ, pending, opL>>
  BY DEF authoritativeFallback, Goto, durable, volatile, Late
<1>2. ctx' = [ctx EXCEPT ![p] = ctx[p]]
  BY DEF authoritativeFallback, TypeInv, CallersType
<1> QED BY <1>1, <1>2, HeldIsKnown, MemoryKept, LateStay

(* The operation is refused, fails or ends without a change to the files.  *)
LEMMA EndsIdentity ==
  ASSUME TypeInv, TypeInv', IdentityInv, NEW p \in Procs,
         CreateRefused(p) \/ AppendRefused(p) \/ FallbackFails(p) \/ Finish(p)
  PROVE  IdentityInv'
<1>1. Return(p) /\ UNCHANGED <<file, log, cmark, dmark, appJ, userJ, pending, seq>>
  BY DEF CreateRefused, AppendRefused, FallbackFails, Finish, durable, volatile
<1>2. seq <= seq'
  BY <1>1 DEF TypeInv, DurableType
<1> QED BY <1>1, <1>2, QuietReturn

(* Nothing the invariant speaks of changes.                                *)
LEMMA StutterIdentity ==
  ASSUME TypeInv, TypeInv', IdentityInv,
         UNCHANGED <<file, log, cmark, dmark, seq, appJ, userJ, pending, opL, pc, ctx>>
  PROVE  IdentityInv'
<1>1. \A r : KnownAs(r)' <=> KnownAs(r)
  BY DEF KnownAs, Opening, HeaderOf
<1>2. \A r : Writing(r)' <=> Writing(r)
  BY DEF Writing, Rec
<1>3. Bounded' /\ Agree'
  BY <1>1, <1>2 DEF IdentityInv, Bounded, Agree, Somewhere
<1>4. LocksHeld' /\ NoFileNoLog'
  BY DEF IdentityInv, LocksHeld, HoldsOp, NoFileNoLog
<1>5. LogComplete' /\ \A s, i : OnlyHeader(s, i)' <=> OnlyHeader(s, i)
  BY <1>1 DEF IdentityInv, LogComplete, SameIncarnation, HeaderOf, OnlyHeader
<1>6. Resumable'
  BY <1>5 DEF IdentityInv, Resumable
<1>7. ASSUME NEW q \in Procs, NEW d, NEW m, d = ctx'[q], m = pc'[q]
      PROVE  FilesAt(d, m)'
  <2>1. FilesAt(d, m)
    BY <1>7 DEF IdentityInv
  <2> QED BY <1>5, <2>1 DEF FilesAt, Opening, SameIncarnation, eventByID, HeaderOf
<1>8. \A q \in Procs : FilesAt(ctx[q], pc[q])'
  BY <1>7, FilesPrimed
<1> QED BY <1>3, <1>4, <1>5, <1>6, <1>8 DEF IdentityInv

LEMMA ensureRecordInventoryIdentity ==
  ASSUME TypeInv, TypeInv', IdentityInv, NEW p \in Procs, ensureRecordInventory(p)
  PROVE  IdentityInv'
<1>1. UNCHANGED <<file, log, cmark, dmark, seq, appJ, userJ, pending>>
  BY DEF ensureRecordInventory, durable
<1>2. CASE UNCHANGED <<pc, ctx, locks>>
  BY <1>1, <1>2, StutterIdentity DEF locks
<1>3. CASE Return(p)
  <2>1. seq <= seq'
    BY <1>1 DEF TypeInv, DurableType
  <2> QED BY <1>1, <1>3, <2>1, QuietReturn
<1> QED BY <1>2, <1>3 DEF ensureRecordInventory

(* A step that moves p and changes neither files nor what is known.        *)
LEMMA QuietMove ==
  ASSUME TypeInv, TypeInv', IdentityInv, NEW p \in Procs, NEW c, NEW l,
         pc' = [pc EXCEPT ![p] = l], ctx' = [ctx EXCEPT ![p] = c],
         UNCHANGED <<file, log, cmark, dmark, appJ, userJ, pending>>, seq <= seq', l # "commit",
         c.scan = {} \/ c.scan = ctx[p].scan,
         Opening(c, l) => KnownAs(HeaderOf(c.ses, c.inc)),
         OpKept(p), HoldsOp(c, l) => opL'[c.ses] = p, FilesAt(c, l)'
  PROVE  IdentityInv'
<1>1. MemoryKnown
  BY HeldIsKnown, MemoryKept
<1>2. \A r \in c.scan : KnownAs(r)
  BY HeldIsKnown
<1>3. \A s \in Sessions : Rewritten(s)
  BY QuietFiles
<1>4. \A s : ElsewhereKept(s)
  BY DEF ElsewhereKept
<1> QED BY <1>1, <1>2, <1>3, <1>4, Move

LEMMA SameSeq == TypeInv /\ UNCHANGED seq => seq <= seq'
  BY DEF TypeInv, DurableType

LEMMA LocksAsBefore ==
  /\ UNCHANGED opL => \A p : OpKept(p)
  /\ \A p : \A s \in Sessions : opL \in [Sessions -> Procs \cup {NULL}] /\ TakeOp(p, s) =>
       OpKept(p) /\ opL'[s] = p
  BY DEF OpKept, TakeOp

LEMMA CallIdentity ==
  ASSUME TypeInv, TypeInv', IdentityInv, NEW p \in Procs,
         CallList(p) \/ (\E s \in Sessions : CallCreate(p, s))
           \/ (\E h \in handles, e \in Events : CallAppend(p, h, e))
  PROVE  IdentityInv'
<1>1. PICK c, l : /\ pc' = [pc EXCEPT ![p] = l] /\ ctx' = [ctx EXCEPT ![p] = c]
                  /\ c.scan = {} /\ l \in Late \cup {"idle", "create", "append", "baseline"}
                  /\ c.op = "create" => l = "create"
                  /\ c.op = "append" => l \in {"append", "baseline"}
                  /\ c.op \in {"create", "append", "list"}
  <2>1. CASE CallList(p)
    <3>1. \A c : c = [Called("list", NULL, NULL) EXCEPT !.todo = Sessions] =>
            c.scan = {} /\ c.op = "list"
      BY DEF Called, Blank
    <3> QED BY <2>1, <3>1 DEF CallList, Goto, SetCtx, Late
  <2>2. CASE \E s \in Sessions : CallCreate(p, s)
    <3>1. PICK s \in Sessions : CallCreate(p, s)
      BY <2>2
    <3>2. \A c : c = [Called("create", s, UserOf[s]) EXCEPT !.ev = Header] =>
            c.scan = {} /\ c.op = "create"
      BY DEF Called, Blank
    <3>3. /\ pc' = [pc EXCEPT ![p] = "create"]
          /\ ctx' = [ctx EXCEPT ![p] = [Called("create", s, UserOf[s]) EXCEPT !.ev = Header]]
      BY <3>1 DEF CallCreate, Goto, SetCtx
    <3> QED BY <3>2, <3>3
  <2>3. CASE \E h \in handles, e \in Events : CallAppend(p, h, e)
    <3>1. PICK h \in handles, e \in Events : CallAppend(p, h, e)
      BY <2>3
    <3>2. PICK l \in {"append", "baseline"} : pc' = [pc EXCEPT ![p] = l]
      BY <3>1 DEF CallAppend, Goto
    <3>3. \A c : c = [Called("append", h[1], UserOf[h[1]]) EXCEPT !.ev = e, !.inc = h[2]] =>
            c.scan = {} /\ c.op = "append"
      BY DEF Called, Blank
    <3>4. ctx' = [ctx EXCEPT ![p] = [Called("append", h[1], UserOf[h[1]]) EXCEPT !.ev = e, !.inc = h[2]]]
      BY <3>1 DEF CallAppend, SetCtx
    <3> QED BY <3>2, <3>3, <3>4
  <2> QED BY <2>1, <2>2, <2>3
<1>2. UNCHANGED <<file, log, cmark, dmark, seq, appJ, userJ, pending, opL>>
  BY DEF CallList, CallCreate, CallAppend, durable, volatile, locks
<1>3. ~HoldsOp(c, l) /\ ~Opening(c, l) /\ FilesAt(c, l)' /\ l # "commit"
  <2>1. l \notin {"commit", "marker", "header", "validate", "resume", "reserve", "remove", "uncreate", "unmark"}
    BY <1>1 DEF Late
  <2> QED BY <1>1, <2>1 DEF HoldsOp, Opening, FilesAt
<1> QED BY <1>1, <1>2, <1>3, SameSeq, LocksAsBefore, QuietMove

LEMMA CallGetIdentity ==
  ASSUME TypeInv, TypeInv', IdentityInv, NEW p \in Procs, NEW s \in Sessions, CallGet(p, s)
  PROVE  IdentityInv'
<1> SUFFICES ASSUME NEW c, NEW l, c = [Called("get", s, UserOf[s]) EXCEPT !.todo = Sessions], l = "scan"
             PROVE  IdentityInv'
  OBVIOUS
<1>1. c.scan = {} /\ c.ses = s
  BY DEF Called, Blank
<1>2. /\ pc' = [pc EXCEPT ![p] = l] /\ ctx' = [ctx EXCEPT ![p] = c] /\ TakeOp(p, s)
      /\ UNCHANGED <<file, log, cmark, dmark, seq, appJ, userJ, pending>>
  BY DEF CallGet, Goto, SetCtx, durable, volatile
<1>3. ~Opening(c, l) /\ FilesAt(c, l)' /\ l # "commit"
  BY LateIsQuiet DEF Late
<1>4. OpKept(p) /\ opL'[s] = p
  BY <1>2, LocksAsBefore DEF TypeInv, LocksType
<1> QED BY <1>1, <1>2, <1>3, <1>4, SameSeq, QuietMove

LEMMA CallDeleteIdentity ==
  ASSUME TypeInv, TypeInv', IdentityInv, NEW p \in Procs, NEW s \in Sessions, CallDelete(p, s)
  PROVE  IdentityInv'
<1>1. /\ TakeOp(p, s)
      /\ UNCHANGED <<file, log, cmark, dmark, seq, appJ, userJ, pending>>
  BY DEF CallDelete, durable, volatile
<1>2. PICK c, l : /\ pc' = [pc EXCEPT ![p] = l] /\ ctx' = [ctx EXCEPT ![p] = c]
                  /\ c.scan = {} /\ c.ses = s /\ c.op = "delete"
                  /\ l \in {"unmark", "remove", "uncreate", "mark", "scan"}
                  /\ l = "unmark" => file[s] = "ok"
                  /\ l \in {"remove", "uncreate"} => dmark[s] # 0
  <2> DEFINE call(i) == [Called("delete", s, UserOf[s]) EXCEPT !.inc = i]
  <2>1. \A i : call(i).scan = {} /\ call(i).ses = s /\ call(i).op = "delete"
    BY DEF Called, Blank
  <2>2. \A i, d : d = [call(i) EXCEPT !.todo = Sessions] => d.scan = {} /\ d.ses = s /\ d.op = "delete"
    BY DEF Called, Blank
  <2> HIDE DEF call
  <2>3. \/ \E i : SetCtx(p, call(i)) /\ Goto(p, "unmark") /\ file[s] = "ok"
        \/ \E i : SetCtx(p, call(i)) /\ (Goto(p, "remove") \/ Goto(p, "uncreate")) /\ dmark[s] # 0
        \/ \E i : SetCtx(p, call(i)) /\ Goto(p, "mark")
        \/ \E i : SetCtx(p, [call(i) EXCEPT !.todo = Sessions]) /\ Goto(p, "scan")
    BY DEF CallDelete, call
  <2> QED BY <2>1, <2>2, <2>3 DEF SetCtx, Goto
<1>3. ~Opening(c, l) /\ FilesAt(c, l)' /\ l # "commit"
  BY <1>1, <1>2 DEF Opening, FilesAt
<1>4. OpKept(p) /\ opL'[s] = p
  BY <1>1, LocksAsBefore DEF TypeInv, LocksType
<1> QED BY <1>1, <1>2, <1>3, <1>4, SameSeq, QuietMove

(* The files, the journals and seq stay, p moves with its scan.            *)
LEMMA CreateBeginsIdentity ==
  ASSUME TypeInv, TypeInv', IdentityInv, NEW p \in Procs, CreateBegins(p)
  PROVE  IdentityInv'
<1> SUFFICES ASSUME NEW c, NEW l, NEW s, s = ctx[p].ses, l = "baseline",
                    c = [ctx[p] EXCEPT !.inc = cmark[s], !.ord = cmark[s]]
             PROVE  IdentityInv'
  OBVIOUS
<1>1. s \in Sessions /\ ctx[p] \in Contexts /\ ctx[p].op = "create"
  BY CallerAt DEF CreateBegins, Local
<1>2. /\ c.scan = ctx[p].scan /\ c.ses = s /\ c.op = "create"
      /\ c.inc = cmark[s] /\ c.ord = cmark[s]
  BY <1>1 DEF Contexts
<1>3. /\ pc' = [pc EXCEPT ![p] = l] /\ ctx' = [ctx EXCEPT ![p] = c] /\ TakeOp(p, s)
      /\ UNCHANGED <<file, log, cmark, dmark, seq, appJ, userJ, pending>>
      /\ dmark[s] = 0 /\ (cmark[s] # 0 \/ file[s] = "none")
  BY DEF CreateBegins, Goto, SetCtx, durable, volatile, ensureNoDeleteMarker
<1>4. Opening(c, l) => KnownAs(HeaderOf(c.ses, c.inc))
  BY <1>1, <1>2, HeldIsKnown DEF Opening
<1>5. FilesAt(c, l)' /\ l # "commit"
  BY <1>2, <1>3 DEF FilesAt, Opening
<1>6. OpKept(p) /\ opL'[s] = p
  BY <1>1, <1>3, LocksAsBefore DEF TypeInv, LocksType
<1> QED BY <1>2, <1>3, <1>4, <1>5, <1>6, SameSeq, QuietMove

LEMMA readSharedProjectionIdentity ==
  ASSUME TypeInv, TypeInv', IdentityInv, NEW p \in Procs, readSharedProjection(p)
  PROVE  IdentityInv'
<1>1. /\ UNCHANGED <<file, log, cmark, dmark, seq, appJ, userJ, pending>>
      /\ pc[p] = "baseline"
  BY DEF readSharedProjection, durable
<1>2. CASE Return(p)
  BY <1>1, <1>2, SameSeq, QuietReturn
<1>3. CASE ~Return(p)
  <2> DEFINE next == CASE ctx[p].op = "append" -> "append"
                       [] ctx[p].inc = 0 -> "reserve"
                       [] OTHER -> "validate"
  <2> SUFFICES ASSUME NEW c, NEW l, c = ctx[p], l = next PROVE IdentityInv'
    OBVIOUS
  <2>1. /\ pc' = [pc EXCEPT ![p] = l] /\ ctx' = [ctx EXCEPT ![p] = c] /\ UNCHANGED opL
    BY <1>3 DEF readSharedProjection, Goto, locks, TypeInv, CallersType
  <2>2. FilesAt(c, "baseline") /\ Local(c, "baseline")
    BY <1>1, CallerAt DEF IdentityInv
  <2>3. \/ c.op = "append" /\ l = "append"
        \/ c.op = "create" /\ c.inc = 0 /\ l = "reserve"
        \/ c.op = "create" /\ c.inc # 0 /\ l = "validate"
    <3>1. c.op \in {"create", "append"} /\ (c.op = "append" => c.inc # 0)
      BY <2>2 DEF Local, Orders
    <3>2. CASE c.op = "append"
      BY <3>1, <3>2
    <3>3. CASE c.op = "create" /\ c.inc = 0
      BY <3>3
    <3>4. CASE c.op = "create" /\ c.inc # 0
      BY <3>4
    <3> QED BY <3>1, <3>2, <3>3, <3>4
  <2>4. Opening(c, l) => Opening(c, "baseline")
    BY <2>3 DEF Opening
  <2>5. Opening(c, l) => KnownAs(HeaderOf(c.ses, c.inc))
    BY <1>1, <2>4 DEF KnownAs
  <2>6. HoldsOp(c, l) => opL'[c.ses] = p
    BY <1>1, <2>1, <2>3 DEF HoldsOp, IdentityInv, LocksHeld
  <2>7. FilesAt(c, l)' /\ l # "commit"
    BY <1>1, <2>2, <2>3 DEF FilesAt, Opening
  <2> QED BY <1>1, <2>1, <2>5, <2>6, <2>7, SameSeq, LocksAsBefore, QuietMove
<1> QED BY <1>2, <1>3

LEMMA AppendLoadsIdentity ==
  ASSUME TypeInv, TypeInv', IdentityInv, NEW p \in Procs, AppendLoads(p)
  PROVE  IdentityInv'
<1>1. /\ UNCHANGED <<file, log, cmark, dmark, seq, appJ, userJ, pending>>
      /\ TakeOp(p, ctx[p].ses) /\ SameIncarnation(ctx[p].ses, ctx[p].inc)
  BY DEF AppendLoads, durable, volatile
<1>2. ctx[p].ses \in Sessions /\ ctx[p] \in Contexts /\ ctx[p].op = "append"
  BY CallerAt DEF AppendLoads, Local
<1>3. OpKept(p) /\ opL'[ctx[p].ses] = p
  BY <1>1, <1>2, LocksAsBefore DEF TypeInv, LocksType
<1>4. CASE eventByID(ctx[p].ses, ctx[p].ev) = {} /\ Goto(p, "reserve") /\ UNCHANGED ctx
  <2> SUFFICES ASSUME NEW c, NEW l, c = ctx[p], l = "reserve" PROVE IdentityInv'
    OBVIOUS
  <2>1. pc' = [pc EXCEPT ![p] = l] /\ ctx' = [ctx EXCEPT ![p] = c]
    BY <1>4 DEF Goto, TypeInv, CallersType
  <2>2. ~Opening(c, l) /\ FilesAt(c, l)' /\ l # "commit"
    BY <1>1, <1>2, <1>4 DEF Opening, FilesAt, SameIncarnation, eventByID, HeaderOf
  <2> QED BY <1>1, <1>3, <2>1, <2>2, SameSeq, QuietMove
<1>5. CASE \E r \in eventByID(ctx[p].ses, ctx[p].ev) :
             SetCtx(p, [ctx[p] EXCEPT !.ord = r.ord]) /\ Goto(p, "reconcile")
  <2>1. PICK r \in eventByID(ctx[p].ses, ctx[p].ev) :
               SetCtx(p, [ctx[p] EXCEPT !.ord = r.ord]) /\ Goto(p, "reconcile")
    BY <1>5
  <2> SUFFICES ASSUME NEW c, NEW l, c = [ctx[p] EXCEPT !.ord = r.ord], l = "reconcile"
               PROVE  IdentityInv'
    OBVIOUS
  <2>2. pc' = [pc EXCEPT ![p] = l] /\ ctx' = [ctx EXCEPT ![p] = c]
    BY <2>1 DEF Goto, SetCtx
  <2>3. c.scan = ctx[p].scan /\ c.ses = ctx[p].ses
    BY <1>2 DEF Contexts
  <2>4. ~Opening(c, l) /\ FilesAt(c, l)' /\ l # "commit"
    BY LateIsQuiet DEF Late
  <2> QED BY <1>1, <1>3, <2>2, <2>3, <2>4, SameSeq, QuietMove
<1> QED BY <1>4, <1>5 DEF AppendLoads

LEMMA validateReservedRecordIdentity ==
  ASSUME TypeInv, TypeInv', IdentityInv, NEW p \in Procs, validateReservedRecord(p)
  PROVE  IdentityInv'
<1>1. /\ UNCHANGED <<file, log, cmark, dmark, appJ, userJ, pending>> /\ pc[p] = "validate"
      /\ seq \in Nat /\ inv.max \in Nat /\ ctx[p].ord \in Nat
  <2>1. ctx[p].ord \in Nat
    BY CallerAt DEF validateReservedRecord, Contexts
  <2>2. inv.max \in Nat
    BY InvFields
  <2> QED BY <2>1, <2>2 DEF validateReservedRecord, TypeInv, DurableType
<1>2. seq <= seq'
  <2>1. Max2(inv.max, Rec(p).ord) \in Nat
    BY <1>1, MaxType DEF Rec
  <2>2. seq' \in {seq, Max2(inv.max, Rec(p).ord), Max2(seq, Max2(inv.max, Rec(p).ord))}
    BY DEF validateReservedRecord
  <2>3. CASE seq' = Max2(inv.max, Rec(p).ord)
    <3>1. seq < Max2(inv.max, Rec(p).ord) \/ seq' = Max2(seq, Max2(inv.max, Rec(p).ord)) \/ seq' = seq
      BY DEF validateReservedRecord
    <3> QED BY <1>1, <2>1, <2>3, <3>1, MaxType
  <2> QED BY <1>1, <2>1, <2>2, <2>3, MaxType
<1>3. CASE Return(p)
  BY <1>1, <1>2, <1>3, QuietReturn
<1>4. CASE Goto(p, "resume") /\ UNCHANGED <<ctx, locks>>
  <2> SUFFICES ASSUME NEW c, NEW l, c = ctx[p], l = "resume" PROVE IdentityInv'
    OBVIOUS
  <2>1. pc' = [pc EXCEPT ![p] = l] /\ ctx' = [ctx EXCEPT ![p] = c] /\ UNCHANGED opL
    BY <1>4 DEF Goto, locks, TypeInv, CallersType
  <2>2. FilesAt(c, "validate") /\ Local(c, "validate")
    BY <1>1, CallerAt DEF IdentityInv
  <2>3. KnownAs(HeaderOf(c.ses, c.inc))
    BY <1>1 DEF KnownAs, Opening
  <2>4. HoldsOp(c, l) => opL'[c.ses] = p
    BY <1>1, <2>1, <2>2 DEF HoldsOp, IdentityInv, LocksHeld, Local
  <2>5. FilesAt(c, l)' /\ l # "commit"
    BY <1>1, <2>2 DEF FilesAt, Opening
  <2> QED BY <1>1, <1>2, <2>1, <2>3, <2>4, <2>5, LocksAsBefore, QuietMove
<1> QED BY <1>3, <1>4 DEF validateReservedRecord

-----------------------------------------------------------------------------
(* Steps that change a transcript or a marker.                             *)

(* An operation that holds its op mutex goes on after a change to files.   *)
LEMMA FileMove ==
  ASSUME TypeInv, TypeInv', IdentityInv, NEW p \in Procs, NEW l,
         Goto(p, l), UNCHANGED <<ctx, locks, seq, appJ, userJ, pending>>,
         l \notin {"create", "append", "baseline", "commit"},
         HoldsOp(ctx[p], pc[p]), ElsewhereKept(ctx[p].ses), Rewritten(ctx[p].ses),
         Opening(ctx[p], l) => Opening(ctx[p], pc[p]),
         \A c : c = ctx[p] => FilesAt(c, l)'
  PROVE  IdentityInv'
<1> SUFFICES ASSUME NEW c, c = ctx[p] PROVE IdentityInv'
  OBVIOUS
<1>1. pc' = [pc EXCEPT ![p] = l] /\ ctx' = [ctx EXCEPT ![p] = c] /\ UNCHANGED opL
  BY DEF Goto, locks, TypeInv, CallersType
<1>2. FilesAt(c, l)' /\ l # "commit"
  OBVIOUS
<1>3. HoldsOp(c, l) => opL'[c.ses] = p
  BY <1>1 DEF IdentityInv, LocksHeld
<1>4. Opening(c, l) => KnownAs(HeaderOf(c.ses, c.inc))
  BY DEF KnownAs
<1>5. MemoryKnown /\ \A r \in c.scan : KnownAs(r)
  BY HeldIsKnown, MemoryKept
<1>6. OpKept(p) /\ seq <= seq'
  BY <1>1, SameSeq, LocksAsBefore
<1> QED BY <1>1, <1>2, <1>3, <1>4, <1>5, <1>6, Move

(* An operation that holds its op mutex returns after a change to files.   *)
LEMMA FileReturn ==
  ASSUME TypeInv, TypeInv', IdentityInv, NEW p \in Procs,
         Return(p), UNCHANGED <<seq, appJ, userJ, pending>>,
         HoldsOp(ctx[p], pc[p]), ElsewhereKept(ctx[p].ses), Rewritten(ctx[p].ses)
  PROVE  IdentityInv'
<1>1. MemoryKnown
  BY HeldIsKnown, MemoryKept
<1> QED BY <1>1, SameSeq, ReturnMove

(* What a session looks like while its files are at rest.                  *)
LEMMA AtRest ==
  ASSUME IdentityInv, NEW s \in Sessions
  PROVE  /\ \A r \in log[s] : KnownAs(r)
         /\ cmark[s] # 0 => KnownAs(HeaderOf(s, cmark[s]))
         /\ \A r : KnownAs(r) /\ r.ses = s /\ HeaderOf(s, r.inc) \in log[s] => r \in log[s]
         /\ cmark[s] # 0 /\ dmark[s] = 0 /\ file[s] # "ok" => OnlyHeader(s, cmark[s])
         /\ file[s] # "ok" => log[s] = {}
  BY HeldIsKnown DEF IdentityInv, LogComplete, SameIncarnation, Resumable, NoFileNoLog

(* A file[s] that differs from log[s] = {} or a changed marker.            *)
LEMMA MarkersRewritten ==
  ASSUME IdentityInv, NEW s \in Sessions, UNCHANGED log,
         file'[s] # "ok" => log[s] = {},
         cmark'[s] # 0 => KnownAs(HeaderOf(s, cmark'[s])),
         cmark'[s] # 0 /\ dmark'[s] = 0 /\ file'[s] # "ok" => OnlyHeader(s, cmark'[s])
  PROVE  Rewritten(s)
  BY AtRest DEF Rewritten

(* What an opened create transaction knows of its session.                 *)
LEMMA OpeningAt ==
  ASSUME TypeInv, IdentityInv, NEW p \in Procs, Opening(ctx[p], pc[p])
  PROVE  /\ HoldsOp(ctx[p], pc[p]) /\ ctx[p].ses \in Sessions /\ ctx[p].inc # 0
         /\ ctx[p].op = "create" /\ FilesAt(ctx[p], pc[p])
         /\ KnownAs(HeaderOf(ctx[p].ses, ctx[p].inc))
         /\ Rec(p) = HeaderOf(ctx[p].ses, ctx[p].inc)
<1>1. Local(ctx[p], pc[p]) /\ FilesAt(ctx[p], pc[p])
  BY CallerAt DEF IdentityInv
<1>2. /\ HoldsOp(ctx[p], pc[p]) /\ ctx[p].ses \in Sessions /\ ctx[p].inc # 0
      /\ ctx[p].op = "create"
  BY <1>1 DEF Local, HoldsOp, Opening, Orders
<1> QED BY <1>1, <1>2, OpeningIsHeader DEF KnownAs

LEMMA persistCreateStartIdentity ==
  ASSUME TypeInv, TypeInv', IdentityInv, NEW p \in Procs, persistCreateStart(p)
  PROVE  IdentityInv'
<1> DEFINE s == ctx[p].ses
<1>1. pc[p] = "marker" /\ UNCHANGED <<file, log, dmark, seq, appJ, userJ, pending>>
  BY DEF persistCreateStart
<1>2. Opening(ctx[p], pc[p])
  BY <1>1 DEF Opening
<1>3. /\ cmark[s] = 0 /\ dmark[s] = 0 /\ file[s] = "none" /\ OnlyHeader(s, ctx[p].inc)
      /\ ctx[p].ord = ctx[p].inc /\ s \in Sessions /\ ctx[p].op = "create"
  BY <1>1, <1>2, OpeningAt DEF FilesAt
<1>4. cmark' = cmark \/ cmark' = [cmark EXCEPT ![s] = ctx[p].inc]
  BY DEF persistCreateStart
<1>5. ElsewhereKept(s)
  BY <1>1, <1>4 DEF ElsewhereKept, TypeInv, DurableType
<1>6. cmark'[s] \in {0, ctx[p].inc}
  BY <1>3, <1>4 DEF TypeInv, DurableType
<1>7. Rewritten(s)
  BY <1>1, <1>2, <1>3, <1>6, OpeningAt, AtRest, MarkersRewritten
<1>8. CASE Return(p)
  BY <1>1, <1>2, <1>5, <1>7, <1>8, OpeningAt, FileReturn
<1>9. CASE cmark' = [cmark EXCEPT ![s] = ctx[p].inc] /\ Goto(p, "header") /\ UNCHANGED <<ctx, locks>>
  <2>1. cmark'[s] = ctx[p].inc
    BY <1>3, <1>9 DEF TypeInv, DurableType
  <2>2. \A c : c = ctx[p] => FilesAt(c, "header")'
    BY <1>1, <1>3, <2>1 DEF FilesAt, Opening
  <2>3. Opening(ctx[p], "header")
    BY DEF Opening
  <2> QED BY <1>1, <1>2, <1>5, <1>7, <1>9, <2>2, <2>3, OpeningAt, FileMove
<1> QED BY <1>8, <1>9 DEF persistCreateStart

(* The header of an opened transaction becomes the transcript.             *)
LEMMA HeaderRewritten ==
  ASSUME TypeInv, IdentityInv, NEW p \in Procs, NEW s, s = ctx[p].ses, Opening(ctx[p], pc[p]),
         pc[p] # "marker", file[s] = "none", log'[s] = {Rec(p)}, file'[s] = "ok",
         cmark'[s] \in {0, cmark[s]}
  PROVE  Rewritten(s)
<1>1. /\ s \in Sessions /\ Rec(p) = HeaderOf(s, ctx[p].inc) /\ KnownAs(Rec(p))
      /\ cmark[s] = ctx[p].inc /\ ctx[p].inc # 0 /\ dmark[s] = 0
  BY OpeningAt DEF FilesAt
<1>2. OnlyHeader(s, ctx[p].inc)
  BY <1>1 DEF IdentityInv, Resumable
<1>3. ASSUME NEW r, KnownAs(r), r.ses = s, HeaderOf(s, r.inc) \in log'[s]
      PROVE  r \in log'[s]
  <2>1. r.inc = ctx[p].inc
    BY <1>1, <1>3 DEF HeaderOf
  <2>2. r.ev = Header
    BY <1>2, <1>3, <2>1 DEF OnlyHeader
  <2>3. ~Contradicts(r, Rec(p))
    BY <1>1, <1>3 DEF IdentityInv, Agree, Somewhere
  <2>4. sharedRecordID(r) = sharedRecordID(Rec(p))
    BY <1>1, <1>3, <2>1, <2>2 DEF sharedRecordID, HeaderOf
  <2> QED BY <2>3, <2>4 DEF Contradicts
<1>4. \A r \in log'[s] : KnownAs(r)
  BY <1>1
<1>5. cmark'[s] # 0 => KnownAs(HeaderOf(s, cmark'[s]))
  BY <1>1
<1> QED BY <1>3, <1>4, <1>5 DEF Rewritten

LEMMA HeaderFailedRewritten ==
  ASSUME TypeInv, IdentityInv, NEW p \in Procs, NEW s, s = ctx[p].ses, Opening(ctx[p], pc[p]),
         pc[p] # "marker", file[s] = "none", HeaderFailed(s, Rec(p)),
         cmark'[s] \in {0, cmark[s]}
  PROVE  Rewritten(s) /\ \A t \in Sessions : t # s => file'[t] = file[t] /\ log'[t] = log[t]
<1>1. s \in Sessions /\ cmark[s] = ctx[p].inc /\ dmark[s] = 0
  BY OpeningAt DEF FilesAt
<1>2. CASE HeaderWritten(s, Rec(p))
  <2>1. /\ log'[s] = {Rec(p)} /\ file'[s] = "ok"
        /\ \A t \in Sessions : t # s => file'[t] = file[t] /\ log'[t] = log[t]
    BY <1>1, <1>2 DEF HeaderWritten, TypeInv, DurableType
  <2> QED BY <2>1, HeaderRewritten
<1>3. CASE UNCHANGED log /\ (UNCHANGED file \/ file' = [file EXCEPT ![s] = "torn"])
  <2>1. file'[s] # "ok" /\ \A t \in Sessions : t # s => file'[t] = file[t] /\ log'[t] = log[t]
    BY <1>1, <1>3 DEF TypeInv, DurableType
  <2>2. OnlyHeader(s, cmark[s]) \/ cmark[s] = 0
    BY <1>1 DEF IdentityInv, Resumable
  <2> QED BY <1>1, <1>3, <2>1, <2>2, AtRest, MarkersRewritten
<1> QED BY <1>2, <1>3 DEF HeaderFailed

LEMMA commitCreateIdentity ==
  ASSUME TypeInv, TypeInv', IdentityInv, NEW p \in Procs, commitCreate(p)
  PROVE  IdentityInv'
<1> DEFINE s == ctx[p].ses
<1>1. pc[p] = "header" /\ UNCHANGED <<dmark, seq, appJ, userJ, pending>>
  BY DEF commitCreate
<1>2. Opening(ctx[p], pc[p])
  BY <1>1 DEF Opening
<1>3. /\ file[s] = "none" /\ dmark[s] = 0 /\ cmark[s] = ctx[p].inc /\ ctx[p].ord = ctx[p].inc
      /\ s \in Sessions /\ HoldsOp(ctx[p], pc[p])
  BY <1>1, <1>2, OpeningAt DEF FilesAt
<1>4. cmark' = cmark \/ cmark' = [cmark EXCEPT ![s] = 0]
  BY DEF commitCreate
<1>5. /\ cmark'[s] \in {0, cmark[s]}
      /\ \A t \in Sessions : t # s => cmark'[t] = cmark[t] /\ dmark'[t] = dmark[t]
  BY <1>1, <1>3, <1>4 DEF TypeInv, DurableType
<1>6. CASE HeaderWritten(s, Rec(p))
  <2>2. /\ log'[s] = {Rec(p)} /\ file'[s] = "ok"
        /\ \A t \in Sessions : t # s => file'[t] = file[t] /\ log'[t] = log[t]
    BY <1>3, <1>6 DEF HeaderWritten, TypeInv, DurableType
  <2>3. Rewritten(s) /\ ElsewhereKept(s)
    BY <1>1, <1>2, <1>3, <1>5, <2>2, HeaderRewritten DEF ElsewhereKept
  <2>4. CASE Return(p)
    BY <1>1, <1>3, <2>3, <2>4, FileReturn
  <2>5. CASE Goto(p, "reconcile") /\ UNCHANGED <<ctx, locks>>
    <3>1. ~Opening(ctx[p], "reconcile") /\ \A c : FilesAt(c, "reconcile")'
      BY LateIsQuiet DEF Late
    <3> QED BY <1>1, <1>3, <2>3, <2>5, <3>1, FileMove
  <2> QED BY <2>4, <2>5 DEF commitCreate
<1>7. CASE HeaderFailed(s, Rec(p)) /\ Return(p)
  <2>1. Rewritten(s) /\ ElsewhereKept(s)
    BY <1>1, <1>2, <1>3, <1>5, <1>7, HeaderFailedRewritten DEF ElsewhereKept
  <2> QED BY <1>1, <1>3, <1>7, <2>1, FileReturn
<1> QED BY <1>6, <1>7 DEF commitCreate

LEMMA ResumeLoadsIdentity ==
  ASSUME TypeInv, TypeInv', IdentityInv, NEW p \in Procs, ResumeLoads(p)
  PROVE  IdentityInv'
<1> DEFINE s == ctx[p].ses
<1>1. pc[p] = "resume" /\ UNCHANGED <<cmark, dmark, seq, appJ, userJ, pending>>
  BY DEF ResumeLoads, volatile
<1>2. Opening(ctx[p], pc[p])
  BY <1>1 DEF Opening
<1>3. /\ dmark[s] = 0 /\ cmark[s] = ctx[p].inc /\ ctx[p].ord = ctx[p].inc
      /\ s \in Sessions /\ HoldsOp(ctx[p], pc[p])
  BY <1>1, <1>2, OpeningAt DEF FilesAt
<1>4. ~Opening(ctx[p], "reconcile") /\ \A c : FilesAt(c, "reconcile")'
  BY LateIsQuiet DEF Late
<1>5. CASE UNCHANGED <<file, log>> /\ Goto(p, "reconcile") /\ UNCHANGED <<ctx, locks>>
  <2>1. Rewritten(s) /\ ElsewhereKept(s)
    BY <1>1, <1>3, <1>5, QuietFiles DEF ElsewhereKept
  <2> QED BY <1>1, <1>3, <1>4, <1>5, <2>1, FileMove
<1>6. CASE /\ file[s] = "none" /\ HeaderWritten(s, Rec(p))
           /\ Goto(p, "reconcile") /\ UNCHANGED <<ctx, locks>>
  <2>1. /\ log'[s] = {Rec(p)} /\ file'[s] = "ok"
        /\ \A t \in Sessions : t # s => file'[t] = file[t] /\ log'[t] = log[t]
    BY <1>3, <1>6 DEF HeaderWritten, TypeInv, DurableType
  <2>2. Rewritten(s) /\ ElsewhereKept(s)
    BY <1>1, <1>2, <1>3, <1>6, <2>1, HeaderRewritten DEF ElsewhereKept
  <2> QED BY <1>1, <1>3, <1>4, <1>6, <2>2, FileMove
<1>7. CASE file[s] = "none" /\ HeaderFailed(s, Rec(p)) /\ Return(p)
  <2>1. Rewritten(s) /\ ElsewhereKept(s)
    BY <1>1, <1>2, <1>3, <1>7, HeaderFailedRewritten DEF ElsewhereKept
  <2> QED BY <1>1, <1>3, <1>7, <2>1, FileReturn
<1>8. CASE UNCHANGED <<file, log>> /\ Return(p)
  <2>1. Rewritten(s) /\ ElsewhereKept(s)
    BY <1>1, <1>3, <1>8, QuietFiles DEF ElsewhereKept
  <2> QED BY <1>1, <1>3, <1>8, <2>1, FileReturn
<1> QED BY <1>5, <1>6, <1>7, <1>8 DEF ResumeLoads

LEMMA finishCreateMarkerIdentity ==
  ASSUME TypeInv, TypeInv', IdentityInv, NEW p \in Procs, finishCreateMarker(p)
  PROVE  IdentityInv'
<1> DEFINE s == ctx[p].ses
<1>1. pc[p] = "finish" /\ UNCHANGED <<file, log, dmark, seq, appJ, userJ, pending>>
  BY DEF finishCreateMarker, volatile
<1>2. s \in Sessions /\ HoldsOp(ctx[p], pc[p])
  BY <1>1, CallerAt DEF Local, HoldsOp
<1>3. cmark' = cmark \/ cmark' = [cmark EXCEPT ![s] = 0]
  BY DEF finishCreateMarker
<1>4. cmark'[s] \in {0, cmark[s]} /\ ElsewhereKept(s)
  BY <1>1, <1>2, <1>3 DEF TypeInv, DurableType, ElsewhereKept
<1>5. Rewritten(s)
  BY <1>1, <1>2, <1>4, AtRest, MarkersRewritten
<1>6. CASE Return(p)
  BY <1>1, <1>2, <1>4, <1>5, <1>6, FileReturn
<1>7. CASE Goto(p, "done") /\ UNCHANGED <<ctx, locks>>
  <2>1. ~Opening(ctx[p], "done") /\ \A c : FilesAt(c, "done")'
    BY LateIsQuiet DEF Late
  <2> QED BY <1>1, <1>2, <1>4, <1>5, <1>7, <2>1, FileMove
<1> QED BY <1>6, <1>7 DEF finishCreateMarker

LEMMA appendNewEventIdentity ==
  ASSUME TypeInv, TypeInv', IdentityInv, NEW p \in Procs, appendNewEvent(p)
  PROVE  IdentityInv'
<1> DEFINE s == ctx[p].ses
<1>1. pc[p] = "commit" /\ UNCHANGED <<file, cmark, dmark, seq, appJ, userJ, pending>>
  BY DEF appendNewEvent
<1>2. s \in Sessions /\ HoldsOp(ctx[p], pc[p]) /\ SameIncarnation(s, ctx[p].inc)
  BY <1>1, CallerAt DEF Local, HoldsOp, IdentityInv, FilesAt
<1>3. /\ Writing(Rec(p)) /\ Rec(p).ses = s /\ Rec(p).inc = ctx[p].inc
      /\ Rec(p) # HeaderOf(s, Rec(p).inc)
  <2>1. Rec(p).ev \in Events
    BY <1>1, CallerAt DEF Local, Rec
  <2> QED BY <1>1, <2>1 DEF Writing, Rec, HeaderOf
<1>4. log' = log \/ log' = [log EXCEPT ![s] = @ \cup {Rec(p)}]
  BY DEF appendNewEvent
<1>5. (log'[s] = log[s] \/ log'[s] = log[s] \cup {Rec(p)}) /\ ElsewhereKept(s)
  BY <1>1, <1>2, <1>4 DEF TypeInv, DurableType, ElsewhereKept
<1>6. Rewritten(s)
  <2>1. ASSUME NEW r, KnownAs(r), r.ses = s, HeaderOf(s, r.inc) \in log'[s]
        PROVE  r \in log'[s]
    <3>1. HeaderOf(s, r.inc) # Rec(p)
      BY <1>3 DEF HeaderOf
    <3> QED BY <1>2, <1>5, <2>1, <3>1, AtRest
  <2>2. \A r \in log'[s] : KnownAs(r) \/ (Writing(r) /\ r.ses = s)
    BY <1>2, <1>3, <1>5, AtRest
  <2>3. file[s] # "ok" => log'[s] = {}
    BY <1>2, AtRest DEF SameIncarnation
  <2>4. /\ cmark'[s] # 0 => KnownAs(HeaderOf(s, cmark'[s]))
        /\ cmark'[s] # 0 /\ dmark'[s] = 0 /\ file'[s] # "ok" => OnlyHeader(s, cmark'[s])
    BY <1>1, <1>2, AtRest
  <2> QED BY <1>1, <2>1, <2>2, <2>3, <2>4 DEF Rewritten
<1>7. CASE Return(p)
  BY <1>1, <1>2, <1>5, <1>6, <1>7, FileReturn
<1>8. CASE Goto(p, "reconcile") /\ UNCHANGED <<ctx, locks>>
  <2>1. ~Opening(ctx[p], "reconcile") /\ \A c : FilesAt(c, "reconcile")'
    BY LateIsQuiet DEF Late
  <2> QED BY <1>1, <1>2, <1>5, <1>6, <1>8, <2>1, FileMove
<1> QED BY <1>7, <1>8 DEF appendNewEvent

(* Delete holds its op mutex and knows its session.                        *)
LEMMA DeleteAt ==
  ASSUME TypeInv, IdentityInv, NEW p \in Procs, pc[p] \in {"mark", "remove", "uncreate", "unmark"}
  PROVE  /\ ctx[p].ses \in Sessions /\ HoldsOp(ctx[p], pc[p]) /\ ctx[p].inc \in Orders
         /\ FilesAt(ctx[p], pc[p])
  BY CallerAt DEF Local, HoldsOp, IdentityInv

LEMMA WriteDeleteMarkerIdentity ==
  ASSUME TypeInv, TypeInv', IdentityInv, NEW p \in Procs, WriteDeleteMarker(p)
  PROVE  IdentityInv'
<1> DEFINE s == ctx[p].ses
<1>1. pc[p] = "mark" /\ UNCHANGED <<file, log, cmark, seq, appJ, userJ, pending>>
  BY DEF WriteDeleteMarker, volatile
<1>2. s \in Sessions /\ HoldsOp(ctx[p], pc[p]) /\ ctx[p].inc # 0
  BY <1>1, DeleteAt DEF Orders
<1>3. dmark' = dmark \/ dmark' = [dmark EXCEPT ![s] = ctx[p].inc]
  BY DEF WriteDeleteMarker
<1>4. dmark'[s] \in {dmark[s], ctx[p].inc} /\ ElsewhereKept(s)
  BY <1>1, <1>2, <1>3 DEF TypeInv, DurableType, ElsewhereKept
<1>5. Rewritten(s)
  BY <1>1, <1>2, <1>4, AtRest, MarkersRewritten
<1>6. CASE Return(p)
  BY <1>1, <1>2, <1>4, <1>5, <1>6, FileReturn
<1>7. CASE /\ dmark' = [dmark EXCEPT ![s] = ctx[p].inc]
           /\ Goto(p, IF file[s] = "none" THEN "uncreate" ELSE "remove") /\ UNCHANGED <<ctx, locks>>
  <2>1. PICK l \in {"uncreate", "remove"} : Goto(p, l)
    BY <1>7
  <2>2. dmark'[s] # 0
    BY <1>2, <1>7 DEF TypeInv, DurableType
  <2>3. ~Opening(ctx[p], l) /\ \A c : c = ctx[p] => FilesAt(c, l)'
    BY <2>2 DEF Opening, FilesAt
  <2> QED BY <1>1, <1>2, <1>4, <1>5, <1>7, <2>1, <2>3, FileMove
<1> QED BY <1>6, <1>7 DEF WriteDeleteMarker

LEMMA removeSessionLogIdentity ==
  ASSUME TypeInv, TypeInv', IdentityInv, NEW p \in Procs, removeSessionLog(p)
  PROVE  IdentityInv'
<1> DEFINE s == ctx[p].ses
<1>1. pc[p] = "remove" /\ UNCHANGED <<cmark, dmark, seq, appJ, userJ, pending>>
  BY DEF removeSessionLog, volatile
<1>2. s \in Sessions /\ HoldsOp(ctx[p], pc[p]) /\ dmark[s] # 0
  BY <1>1, DeleteAt DEF FilesAt
<1>3. CASE UNCHANGED <<file, log>> /\ Return(p)
  <2>1. Rewritten(s) /\ ElsewhereKept(s)
    BY <1>1, <1>2, <1>3, QuietFiles DEF ElsewhereKept
  <2> QED BY <1>1, <1>2, <1>3, <2>1, FileReturn
<1>4. CASE /\ file' = [file EXCEPT ![s] = "none"] /\ log' = [log EXCEPT ![s] = {}]
           /\ Goto(p, "uncreate") /\ UNCHANGED <<ctx, locks>>
  <2>1. log'[s] = {} /\ ElsewhereKept(s)
    BY <1>1, <1>2, <1>4 DEF TypeInv, DurableType, ElsewhereKept
  <2>2. Rewritten(s)
    BY <1>1, <1>2, <2>1, AtRest DEF Rewritten
  <2>3. ~Opening(ctx[p], "uncreate") /\ \A c : c = ctx[p] => FilesAt(c, "uncreate")'
    BY <1>1, <1>2 DEF Opening, FilesAt
  <2> QED BY <1>1, <1>2, <1>4, <2>1, <2>2, <2>3, FileMove
<1> QED BY <1>3, <1>4 DEF removeSessionLog

LEMMA removeCreateMarkerIdentity ==
  ASSUME TypeInv, TypeInv', IdentityInv, NEW p \in Procs, removeCreateMarker(p)
  PROVE  IdentityInv'
<1> DEFINE s == ctx[p].ses
<1>1. pc[p] = "uncreate" /\ UNCHANGED <<file, log, dmark, seq, appJ, userJ, pending>>
  BY DEF removeCreateMarker, volatile
<1>2. s \in Sessions /\ HoldsOp(ctx[p], pc[p])
  BY <1>1, DeleteAt
<1>3. cmark' = cmark \/ cmark' = [cmark EXCEPT ![s] = 0]
  BY DEF removeCreateMarker
<1>4. cmark'[s] \in {0, cmark[s]} /\ ElsewhereKept(s)
  BY <1>1, <1>2, <1>3 DEF TypeInv, DurableType, ElsewhereKept
<1>5. Rewritten(s)
  BY <1>1, <1>2, <1>4, AtRest, MarkersRewritten
<1>6. CASE Return(p)
  BY <1>1, <1>2, <1>4, <1>5, <1>6, FileReturn
<1>7. CASE cmark' = [cmark EXCEPT ![s] = 0] /\ Goto(p, "unmark") /\ UNCHANGED <<ctx, locks>>
  <2>1. cmark'[s] = 0
    BY <1>2, <1>7 DEF TypeInv, DurableType
  <2>2. ~Opening(ctx[p], "unmark") /\ \A c : c = ctx[p] => FilesAt(c, "unmark")'
    BY <2>1 DEF Opening, FilesAt
  <2> QED BY <1>1, <1>2, <1>4, <1>5, <1>7, <2>2, FileMove
<1> QED BY <1>6, <1>7 DEF removeCreateMarker

LEMMA finishDeleteMarkerIdentity ==
  ASSUME TypeInv, TypeInv', IdentityInv, NEW p \in Procs, finishDeleteMarker(p)
  PROVE  IdentityInv'
<1> DEFINE s == ctx[p].ses
<1>1. pc[p] = "unmark" /\ UNCHANGED <<file, log, cmark, seq, appJ, userJ, pending>>
  BY DEF finishDeleteMarker, volatile
<1>2. s \in Sessions /\ HoldsOp(ctx[p], pc[p]) /\ (cmark[s] = 0 \/ file[s] = "ok")
  BY <1>1, DeleteAt DEF FilesAt
<1>3. dmark' = dmark \/ dmark' = [dmark EXCEPT ![s] = 0]
  BY DEF finishDeleteMarker
<1>4. ElsewhereKept(s)
  BY <1>1, <1>3 DEF TypeInv, DurableType, ElsewhereKept
<1>5. Rewritten(s)
  BY <1>1, <1>2, AtRest, MarkersRewritten
<1>6. CASE Return(p)
  BY <1>1, <1>2, <1>4, <1>5, <1>6, FileReturn
<1>7. CASE Goto(p, "done") /\ UNCHANGED <<ctx, locks>>
  <2>1. ~Opening(ctx[p], "done") /\ \A c : FilesAt(c, "done")'
    BY LateIsQuiet DEF Late
  <2> QED BY <1>1, <1>2, <1>4, <1>5, <1>7, <2>1, FileMove
<1> QED BY <1>6, <1>7 DEF finishDeleteMarker

-----------------------------------------------------------------------------
(* The new record of reserveRecord.                                        *)

LEMMA NewRecord ==
  ASSUME TypeInv, IdentityInv, NEW N, N.ord = seq', seq' \in Nat, seq < seq',
         N.inc \in Nat, N.inc <= seq',
         \A r : Somewhere(r)' => Somewhere(r) \/ r = N,
         \A r : Somewhere(r) => sharedRecordID(r) # sharedRecordID(N)
  PROVE  Bounded' /\ Agree'
<1>1. \A r : Somewhere(r) => r.ord \in Nat /\ r.inc \in Nat /\ r.ord <= seq /\ r.inc <= seq
  BY SomewhereType DEF IdentityInv, Bounded, Records, Orders
<1>2. seq \in Nat
  BY DEF TypeInv, DurableType
<1>3. \A r : Somewhere(r)' => r.ord <= seq' /\ r.inc <= seq'
  BY <1>1, <1>2
<1>4. \A r : Somewhere(r) => ~Contradicts(r, N) /\ ~Contradicts(N, r)
  BY <1>1, <1>2 DEF Contradicts
<1>5. ~Contradicts(N, N)
  BY DEF Contradicts
<1>6. Agree'
  BY <1>4, <1>5 DEF IdentityInv, Agree
<1> QED BY <1>3, <1>6 DEF Bounded

(* p takes an order for a record N: what is known grows by N at most.      *)
LEMMA ReserveMove ==
  ASSUME TypeInv, TypeInv', IdentityInv, NEW p \in Procs, NEW c, NEW l \in {"marker", "commit"}, NEW N,
         pc[p] = "reserve", pc' = [pc EXCEPT ![p] = l], ctx' = [ctx EXCEPT ![p] = c],
         UNCHANGED <<file, log, cmark, dmark, appJ, userJ, pending, opL>>,
         c.op = ctx[p].op, c.ses = ctx[p].ses, c.scan = ctx[p].scan,
         l = "marker" <=> c.op = "create",
         N = [ord |-> c.ord, ses |-> c.ses, inc |-> c.inc, ev |-> c.ev],
         l = "marker" => c.inc = seq' /\ c.ord = seq' /\ c.ev = Header,
         N.ord = seq', seq < seq', N.inc \in Nat, N.inc <= seq',
         \A r : Somewhere(r) => sharedRecordID(r) # sharedRecordID(N),
         FilesAt(c, l)', l = "commit" => N.ev # Header
  PROVE  IdentityInv'
<1>0. \A q \in Procs : \/ q = p /\ ctx'[q] = c /\ pc'[q] = l
                       \/ q # p /\ ctx'[q] = ctx[q] /\ pc'[q] = pc[q]
  BY DEF TypeInv, CallersType
<1>1. ASSUME NEW r, KnownAs(r)'
      PROVE  KnownAs(r) \/ (r = N /\ l = "marker")
  <2>1. CASE r \in pending' \/ r \in appJ' \/ \E u \in Users : r \in userJ'[u]
    BY <2>1 DEF KnownAs
  <2>2. CASE \/ \E t \in Sessions : r \in log'[t]
             \/ \E t \in Sessions : cmark'[t] # 0 /\ r = HeaderOf(t, cmark'[t])
    BY <2>2 DEF KnownAs
  <2>3. CASE \E q \in Procs : r \in ctx'[q].scan
    BY <2>3, <1>0 DEF KnownAs
  <2>4. CASE \E q \in Procs : Opening(ctx'[q], pc'[q]) /\ r = HeaderOf(ctx'[q].ses, ctx'[q].inc)
    <3>1. PICK q \in Procs : Opening(ctx'[q], pc'[q]) /\ r = HeaderOf(ctx'[q].ses, ctx'[q].inc)
      BY <2>4
    <3>2. CASE q = p /\ ctx'[q] = c /\ pc'[q] = l
      BY <3>1, <3>2 DEF HeaderOf, Opening
    <3>3. CASE ctx'[q] = ctx[q] /\ pc'[q] = pc[q]
      BY <3>1, <3>3 DEF KnownAs
    <3> QED BY <3>2, <3>3, <1>0
  <2> QED BY <1>1, <2>1, <2>2, <2>3, <2>4 DEF KnownAs, HeaderOf, Opening
<1>2. ASSUME NEW r, Writing(r)' PROVE Writing(r) \/ r = N
  BY <1>2, <1>0 DEF Writing, Rec
<1>3. \A r : Somewhere(r)' => Somewhere(r) \/ r = N
  BY <1>1, <1>2 DEF Somewhere
<1>4. seq' \in Nat /\ seq \in Nat
  BY DEF TypeInv, DurableType
<1>5. Bounded' /\ Agree'
  BY <1>3, <1>4, NewRecord
<1>6. LocksHeld'
  <2>1. HoldsOp(c, l) => opL'[c.ses] = p
    BY DEF HoldsOp, IdentityInv, LocksHeld
  <2> QED BY <2>1, LocksAsBefore, LocksKept
(* The incarnation of N is new when it opens one.                          *)
<1>7. l = "marker" => \A r : KnownAs(r) => r.inc # seq'
  <2>1. \A r : KnownAs(r) => r.inc \in Nat /\ r.inc <= seq
    BY SomewhereType DEF IdentityInv, Bounded, Records, Orders, Somewhere
  <2> QED BY <1>4, <2>1
<1>8. LogComplete'
  <2> SUFFICES ASSUME NEW r, KnownAs(r)', HeaderOf(r.ses, r.inc) \in log[r.ses]
               PROVE  r \in log[r.ses]
    BY DEF LogComplete, SameIncarnation, HeaderOf
  <2>1. CASE KnownAs(r)
    BY <2>1 DEF IdentityInv, LogComplete, SameIncarnation
  <2>2. CASE r = N /\ l = "marker"
    <3>1. r.ses \in Sessions
      BY <2>2, CallerAt DEF Local
    <3>2. KnownAs(HeaderOf(r.ses, r.inc)) /\ HeaderOf(r.ses, r.inc).inc = seq'
      BY <2>2, <3>1, HeldIsKnown DEF HeaderOf
    <3> QED BY <1>7, <2>2, <3>2
  <2> QED BY <1>1, <2>1, <2>2
<1>9. \A t, i : OnlyHeader(t, i) => OnlyHeader(t, i)'
  BY <1>1 DEF OnlyHeader
<1>10. Resumable' /\ NoFileNoLog'
  BY <1>9 DEF IdentityInv, Resumable, NoFileNoLog
<1>11. ASSUME NEW q \in Procs, NEW d, NEW m, d = ctx'[q], m = pc'[q]
       PROVE  FilesAt(d, m)'
  <2>1. CASE q = p
    <3>1. d = c /\ m = l
      BY <1>0, <1>11, <2>1
    <3> QED BY <3>1
  <2>2. CASE q # p
    <3>1. d = ctx[q] /\ m = pc[q]
      BY <1>0, <1>11, <2>2
    <3>2. FilesAt(d, m)
      BY <3>1 DEF IdentityInv
    <3> QED BY <1>9, <3>2 DEF FilesAt, Opening, SameIncarnation, eventByID, HeaderOf
  <2> QED BY <2>1, <2>2
<1>12. \A q \in Procs : FilesAt(ctx[q], pc[q])'
  BY <1>11, FilesPrimed
<1> QED BY <1>5, <1>6, <1>8, <1>10, <1>12 DEF IdentityInv

LEMMA reserveRecordIdentity ==
  ASSUME TypeInv, TypeInv', IdentityInv, NEW p \in Procs, reserveRecord(p)
  PROVE  IdentityInv'
<1>1. /\ pc[p] = "reserve"
      /\ UNCHANGED <<file, log, cmark, dmark, appJ, userJ, pending>>
  BY DEF reserveRecord
<1>2. /\ ctx[p] \in Contexts /\ ctx[p].ses \in Sessions /\ ctx[p].op \in {"create", "append"}
      /\ FilesAt(ctx[p], "reserve") /\ HoldsOp(ctx[p], "reserve")
      /\ (ctx[p].op = "create" => ctx[p].ev = Header)
      /\ (ctx[p].op = "append" => ctx[p].ev \in Events /\ ctx[p].inc \in Orders)
  BY <1>1, CallerAt DEF Local, HoldsOp, IdentityInv
<1>3. NextOrder \in Nat /\ seq \in Nat /\ seq < NextOrder
  <2>1. inv.max \in Nat /\ seq \in Nat
    BY InvFields DEF TypeInv, DurableType
  <2> QED BY <2>1, MaxType DEF NextOrder
<1>4. CASE Return(p)
  <2>1. seq' \in {seq, NextOrder}
    BY DEF reserveRecord
  <2>2. seq <= seq'
    BY <1>3, <2>1
  <2> QED BY <1>1, <1>4, <2>2, QuietReturn
<1>5. CASE /\ seq' = NextOrder
           /\ SetCtx(p, [ctx[p] EXCEPT !.ord = Reserved(p).ord, !.inc = Reserved(p).inc])
           /\ Goto(p, IF ctx[p].op = "create" THEN "marker" ELSE "commit")
           /\ UNCHANGED locks
  <2> SUFFICES ASSUME NEW c, NEW l, NEW N,
                      c = [ctx[p] EXCEPT !.ord = Reserved(p).ord, !.inc = Reserved(p).inc],
                      l = IF ctx[p].op = "create" THEN "marker" ELSE "commit",
                      N = [ord |-> c.ord, ses |-> c.ses, inc |-> c.inc, ev |-> c.ev]
               PROVE  IdentityInv'
    OBVIOUS
  <2>1. /\ c.op = ctx[p].op /\ c.ses = ctx[p].ses /\ c.scan = ctx[p].scan /\ c.ev = ctx[p].ev
        /\ c.ord = seq' /\ c.inc = IF ctx[p].op = "create" THEN seq' ELSE ctx[p].inc
    BY <1>2, <1>5 DEF Contexts, Reserved
  <2>2. /\ pc' = [pc EXCEPT ![p] = l] /\ ctx' = [ctx EXCEPT ![p] = c] /\ UNCHANGED opL
    BY <1>5 DEF Goto, SetCtx, locks
  <2>3. /\ l \in {"marker", "commit"} /\ (l = "marker" <=> c.op = "create")
        /\ (l = "marker" => c.inc = seq' /\ c.ord = seq' /\ c.ev = Header)
        /\ (l = "commit" => N.ev # Header)
    BY <1>2, <2>1
  <2>4. N.ord = seq' /\ seq < seq'
    BY <1>3, <1>5, <2>1
  <2>5. \A r : Somewhere(r) => r.ord \in Nat /\ r.inc \in Nat /\ r.ord <= seq /\ r.inc <= seq
    BY SomewhereType DEF IdentityInv, Bounded, Records, Orders
  <2>6. N.inc \in Nat /\ N.inc <= seq'
    <3>1. CASE ctx[p].op = "create"
      BY <1>3, <1>5, <2>1, <3>1
    <3>2. CASE ctx[p].op = "append"
      <4>1. HeaderOf(c.ses, c.inc) \in log[c.ses]
        BY <1>2, <2>1, <3>2 DEF FilesAt, SameIncarnation
      <4>2. Somewhere(HeaderOf(c.ses, c.inc)) /\ HeaderOf(c.ses, c.inc).inc = c.inc
        BY <1>2, <2>1, <4>1, HeldIsKnown DEF Somewhere, HeaderOf
      <4> QED BY <1>3, <1>5, <2>5, <4>2
    <3> QED BY <1>2, <3>1, <3>2
  <2>7. ASSUME NEW r, Somewhere(r), sharedRecordID(r) = sharedRecordID(N) PROVE FALSE
    <3>1. r.ses = c.ses /\ r.inc = c.inc /\ r.ev = c.ev
      BY <2>7 DEF sharedRecordID
    <3>2. CASE ctx[p].op = "create"
      BY <1>3, <1>5, <2>1, <2>5, <2>7, <3>1, <3>2
    <3>3. CASE ctx[p].op = "append"
      <4>1. SameIncarnation(c.ses, c.inc) /\ eventByID(c.ses, c.ev) = {}
        BY <1>2, <2>1, <3>3 DEF FilesAt
      <4>2. CASE KnownAs(r)
        <5>1. SameIncarnation(r.ses, r.inc)
          BY <3>1, <4>1
        <5>2. r \in log[c.ses]
          BY <3>1, <4>2, <5>1 DEF IdentityInv, LogComplete
        <5> QED BY <3>1, <4>1, <5>2 DEF eventByID
      <4>3. CASE Writing(r)
        <5>1. PICK q \in Procs : pc[q] = "commit" /\ r = Rec(q)
          BY <4>3 DEF Writing
        <5>2. ctx[q].ses = ctx[p].ses /\ HoldsOp(ctx[q], pc[q])
          BY <2>1, <3>1, <5>1, CallerAt DEF Rec, Local, HoldsOp
        <5>3. opL[ctx[p].ses] = q /\ opL[ctx[p].ses] = p
          BY <1>1, <1>2, <5>2 DEF IdentityInv, LocksHeld
        <5> QED BY <1>1, <5>1, <5>3
      <4> QED BY <2>7, <4>2, <4>3 DEF Somewhere
    <3> QED BY <1>2, <3>2, <3>3
  <2>8. FilesAt(c, l)'
    <3>1. CASE ctx[p].op = "create"
      <4>1. c.inc = seq' /\ c.ord = seq' /\ l = "marker"
        BY <2>1, <3>1
      <4>2. cmark[c.ses] = 0 /\ dmark[c.ses] = 0 /\ file[c.ses] = "none"
        BY <1>2, <2>1, <3>1 DEF FilesAt
      <4>3. OnlyHeader(c.ses, c.inc)'
        <5>1. ASSUME NEW r, KnownAs(r)', r.ses = c.ses, r.inc = c.inc PROVE r.ev = Header
          <6>1. ~KnownAs(r)
            BY <1>3, <2>4, <2>5, <4>1, <5>1 DEF Somewhere
          <6>2. \A q \in Procs : \/ q = p /\ ctx'[q] = c /\ pc'[q] = l
                                 \/ q # p /\ ctx'[q] = ctx[q] /\ pc'[q] = pc[q]
            BY <2>2 DEF TypeInv, CallersType
          <6>3. \E q \in Procs : Opening(ctx'[q], pc'[q]) /\ r = HeaderOf(ctx'[q].ses, ctx'[q].inc)
            <7>1. ~\E q \in Procs : r \in ctx'[q].scan
              BY <2>1, <6>1, <6>2, HeldIsKnown
            <7>2. /\ r \notin pending' /\ r \notin appJ' /\ ~\E u \in Users : r \in userJ'[u]
                  /\ ~\E s \in Sessions : r \in log'[s]
                  /\ ~\E s \in Sessions : cmark'[s] # 0 /\ r = HeaderOf(s, cmark'[s])
              BY <1>1, <6>1 DEF KnownAs
            <7> QED BY <5>1, <7>1, <7>2 DEF KnownAs, HeaderOf, Opening
          <6> QED BY <6>3 DEF HeaderOf
        <5> QED BY <5>1 DEF OnlyHeader
      <4> QED BY <1>1, <4>1, <4>2, <4>3 DEF FilesAt, Opening
    <3>2. CASE ctx[p].op = "append"
      <4>1. SameIncarnation(c.ses, c.inc) /\ l = "commit"
        BY <1>2, <2>1, <3>2 DEF FilesAt
      <4> QED BY <1>1, <4>1 DEF FilesAt, Opening, SameIncarnation, HeaderOf
    <3> QED BY <1>2, <3>1, <3>2
  <2> QED BY <1>1, <2>1, <2>2, <2>3, <2>4, <2>6, <2>7, <2>8, ReserveMove
<1> QED BY <1>4, <1>5 DEF reserveRecord

(* A crash forgets what is in memory and may tear a header that was being  *)
(* written.                                                                *)
LEMMA CrashIdentity ==
  ASSUME TypeInv, TypeInv', IdentityInv, Crash
  PROVE  IdentityInv'
<1>1. \A p \in Procs : pc'[p] = "idle" /\ ctx'[p] = Blank
  BY DEF Crash
<1>2. UNCHANGED <<log, cmark, dmark, seq, appJ, userJ>> /\ pending' = {}
  BY DEF Crash
<1>3. Blank.scan = {} /\ ~Opening(Blank, "idle") /\ ~HoldsOp(Blank, "idle")
  BY DEF Blank, Opening, HoldsOp
<1>4. ASSUME NEW r, KnownAs(r)' PROVE KnownAs(r)
  <2>1. ~\E p \in Procs : r \in ctx'[p].scan
    BY <1>1, <1>3
  <2>2. ~\E p \in Procs : Opening(ctx'[p], pc'[p])
    BY <1>1, <1>3
  <2> QED BY <1>2, <1>4, <2>1, <2>2 DEF KnownAs, Opening, HeaderOf
<1>5. \A r : ~Writing(r)'
  BY <1>1 DEF Writing
<1>6. Bounded' /\ Agree'
  <2>1. \A r : Somewhere(r)' => Somewhere(r)
    BY <1>4, <1>5 DEF Somewhere
  <2>2. seq' \in Nat /\ seq <= seq'
    BY <1>2 DEF TypeInv, DurableType
  <2> QED BY <2>1, <2>2, NothingNew
<1>7. LocksHeld'
  BY <1>1, <1>3 DEF LocksHeld
<1>8. LogComplete'
  BY <1>2, <1>4 DEF IdentityInv, LogComplete, SameIncarnation, HeaderOf
<1>9. \A s \in Sessions : \/ file'[s] = file[s]
                          \/ file[s] = "none" /\ file'[s] = "torn"
  <2>1. CASE UNCHANGED file
    BY <2>1
  <2>2. CASE \E p \in Procs :
               /\ pc[p] = "header" \/ (pc[p] = "resume" /\ file[ctx[p].ses] = "none")
               /\ file' = [file EXCEPT ![ctx[p].ses] = "torn"]
    <3>1. PICK p \in Procs :
               /\ pc[p] = "header" \/ (pc[p] = "resume" /\ file[ctx[p].ses] = "none")
               /\ file' = [file EXCEPT ![ctx[p].ses] = "torn"]
      BY <2>2
    <3>2. file[ctx[p].ses] = "none"
      BY <3>1 DEF IdentityInv, FilesAt
    <3> QED BY <3>1, <3>2 DEF TypeInv, DurableType
  <2> QED BY <2>1, <2>2 DEF Crash
<1>10. Resumable' /\ NoFileNoLog'
  BY <1>2, <1>4, <1>9 DEF IdentityInv, Resumable, NoFileNoLog, OnlyHeader
<1>11. ASSUME NEW q \in Procs, NEW d, NEW m, d = ctx'[q], m = pc'[q] PROVE FilesAt(d, m)'
  BY <1>1, <1>11 DEF FilesAt, Opening
<1>12. \A q \in Procs : FilesAt(ctx[q], pc[q])'
  BY <1>11, FilesPrimed
<1> QED BY <1>6, <1>7, <1>8, <1>10, <1>12 DEF IdentityInv

LEMMA IdentityStep ==
  ASSUME "seqlost" \notin Faults, TypeInv, TypeInv', IdentityInv, [Next]_vars
  PROVE  IdentityInv'
<1>1. CASE UNCHANGED vars
  BY <1>1, StutterIdentity DEF vars, durable, volatile, locks
<1>2. CASE \E p \in Procs : Call(p)
  BY <1>2, CallIdentity, CallGetIdentity, CallDeleteIdentity DEF Call
<1>3. CASE \E p \in Procs : Step(p)
  <2>1. PICK p \in Procs : Step(p)
    BY <1>3
  <2>2. CASE \/ CreateRefused(p) \/ AppendRefused(p) \/ FallbackFails(p) \/ Finish(p)
             \/ CreateBegins(p) \/ readSharedProjection(p) \/ ensureRecordInventory(p)
             \/ reserveRecord(p) \/ validateReservedRecord(p) \/ AppendLoads(p)
    BY <2>2, EndsIdentity, CreateBeginsIdentity, readSharedProjectionIdentity,
       ensureRecordInventoryIdentity, reserveRecordIdentity, validateReservedRecordIdentity,
       AppendLoadsIdentity
  <2>3. CASE \/ persistCreateStart(p) \/ commitCreate(p) \/ ResumeLoads(p) \/ finishCreateMarker(p)
             \/ appendNewEvent(p) \/ WriteDeleteMarker(p) \/ removeSessionLog(p)
             \/ removeCreateMarker(p) \/ finishDeleteMarker(p)
    BY <2>3, persistCreateStartIdentity, commitCreateIdentity, ResumeLoadsIdentity,
       finishCreateMarkerIdentity, appendNewEventIdentity, WriteDeleteMarkerIdentity,
       removeSessionLogIdentity, removeCreateMarkerIdentity, finishDeleteMarkerIdentity
  <2>4. CASE \/ reconcileCommittedShared(p) \/ (\E s \in Sessions : scanApp(p, s) \/ ScanEnds(p, s))
             \/ repairShared(p) \/ RepairApp(p) \/ RepairUser(p) \/ RepairDone(p) \/ RepairFails(p)
             \/ authoritativeFallback(p) \/ FallbackToJournals(p) \/ FallbackToCache(p)
    BY <2>4, reconcileCommittedSharedIdentity, scanAppIdentity, ScanEndsIdentity,
       repairSharedIdentity, RepairIdentity, RepairDoneIdentity, RepairFailsIdentity,
       authoritativeFallbackIdentity, FallbackToJournalsIdentity, FallbackToCacheIdentity
  <2> QED BY <2>1, <2>2, <2>3, <2>4 DEF Step
<1>4. CASE Crash
  BY <1>4, CrashIdentity
<1>5. ~LoseSequence
  BY DEF LoseSequence
<1> QED BY <1>1, <1>2, <1>3, <1>4, <1>5 DEF Next

(* What RecordsAgree speaks of is known or about to be written.            *)
LEMMA IdentityImplies == TypeInv /\ IdentityInv => RecordsAgree
<1> SUFFICES ASSUME TypeInv, IdentityInv PROVE RecordsAgree
  OBVIOUS
<1>1. ASSUME NEW r \in AllRecords PROVE Somewhere(r)
  <2>1. CASE \E p \in Procs : InFlight(p) /\ r = Rec(p)
    <3>1. PICK p \in Procs : InFlight(p) /\ r = Rec(p)
      BY <2>1
    <3>2. CASE pc[p] = "commit"
      BY <3>1, <3>2 DEF Somewhere, Writing
    <3>3. CASE pc[p] \in {"marker", "header"}
      <4>1. Opening(ctx[p], pc[p])
        BY <3>3 DEF Opening
      <4> QED BY <3>1, <4>1, OpeningAt DEF Somewhere
    <3> QED BY <3>1, <3>2, <3>3 DEF InFlight
  <2>2. CASE \/ r \in pending \cup appJ \/ \E u \in Users : r \in userJ[u]
             \/ \E s \in Sessions : r \in log[s]
             \/ \E s \in Sessions : cmark[s] # 0 /\ r = HeaderOf(s, cmark[s])
    BY <2>2, HeldIsKnown DEF Somewhere
  <2> QED BY <1>1, <2>1, <2>2 DEF AllRecords
<1>2. \A a, b \in AllRecords : ~Contradicts(a, b)
  BY <1>1 DEF IdentityInv, Agree
<1> QED BY <1>2 DEF RecordsAgree, Conflict

(* reserveRecord never hands out an order or an identity twice, whatever   *)
(* steps of whatever callers interleave, fail, or are cut off by a crash;  *)
(* the loss of the sequence file is left to the model checker.             *)
THEOREM RecordsNeverContradict ==
  ASSUME "seqlost" \notin Faults
  PROVE  Spec => []RecordsAgree
<1>1. Init => TypeInv /\ IdentityInv
  BY TypeInit, IdentityInit
<1>2. TypeInv /\ IdentityInv /\ [Next]_vars => (TypeInv /\ IdentityInv)'
  BY TypeStep, IdentityStep
<1>3. TypeInv /\ IdentityInv => RecordsAgree
  BY IdentityImplies
<1> QED BY <1>1, <1>2, <1>3, PTL DEF Spec

-----------------------------------------------------------------------------
(* The order of the journal writes.                                        *)

Untouched == UNCHANGED <<appJ, userJ>>

(* Only repairSharedLocked writes the journals.                            *)
LEMMA JournalWriters ==
  ASSUME [Next]_vars
  PROVE  Untouched \/ \E p \in Procs : RepairApp(p) \/ RepairUser(p)
<1>1. CASE UNCHANGED vars
  BY <1>1 DEF vars, durable, Untouched
<1>2. ASSUME NEW p \in Procs, Call(p) PROVE Untouched
  <2>1. UNCHANGED durable => Untouched
    BY DEF durable, Untouched
  <2>2. CASE CallList(p)
    BY <2>1, <2>2 DEF CallList
  <2>3. CASE \E h \in handles, e \in Events : CallAppend(p, h, e)
    BY <2>1, <2>3 DEF CallAppend
  <2>4. CASE \E s \in Sessions : CallCreate(p, s) \/ CallGet(p, s) \/ CallDelete(p, s)
    BY <2>1, <2>4 DEF CallCreate, CallGet, CallDelete
  <2> QED BY <1>2, <2>2, <2>3, <2>4 DEF Call
<1>3. ASSUME NEW p \in Procs, Step(p)
      PROVE  Untouched \/ RepairApp(p) \/ RepairUser(p)
  <2>1. CASE CreateRefused(p) \/ CreateBegins(p) \/ readSharedProjection(p)
               \/ ensureRecordInventory(p) \/ reserveRecord(p) \/ persistCreateStart(p)
               \/ commitCreate(p) \/ validateReservedRecord(p) \/ ResumeLoads(p)
               \/ finishCreateMarker(p) \/ AppendLoads(p) \/ AppendRefused(p) \/ appendNewEvent(p)
    BY <2>1 DEF CreateRefused, CreateBegins, readSharedProjection, ensureRecordInventory,
       reserveRecord, persistCreateStart, commitCreate, validateReservedRecord, ResumeLoads,
       finishCreateMarker, AppendLoads, AppendRefused, appendNewEvent, durable, Untouched
  <2>2. CASE reconcileCommittedShared(p) \/ (\E s \in Sessions : scanApp(p, s) \/ ScanEnds(p, s))
               \/ repairShared(p) \/ RepairDone(p) \/ RepairFails(p) \/ authoritativeFallback(p)
               \/ FallbackToJournals(p) \/ FallbackToCache(p) \/ FallbackFails(p) \/ Finish(p)
    BY <2>2 DEF reconcileCommittedShared, scanApp, ScanEnds, repairShared, RepairDone,
       RepairFails, authoritativeFallback, FallbackToJournals, FallbackToCache, FallbackFails,
       Finish, durable, Untouched
  <2>3. CASE WriteDeleteMarker(p) \/ removeSessionLog(p) \/ removeCreateMarker(p)
               \/ finishDeleteMarker(p)
    BY <2>3 DEF WriteDeleteMarker, removeSessionLog, removeCreateMarker, finishDeleteMarker, Untouched
  <2> QED BY <1>3, <2>1, <2>2, <2>3 DEF Step
<1>4. CASE Crash \/ LoseSequence
  BY <1>4 DEF Crash, LoseSequence, Untouched
<1> QED BY <1>1, <1>2, <1>3, <1>4 DEF Next

LEMMA JournalStep ==
  ASSUME TypeInv, UserJournalBehind, [Next]_vars
  PROVE  UserJournalBehind'
<1>1. CASE Untouched
  BY <1>1 DEF Untouched, UserJournalBehind
<1>2. ASSUME NEW p \in Procs, RepairApp(p) PROVE UserJournalBehind'
  BY <1>2 DEF RepairApp, UserJournalBehind
<1>3. ASSUME NEW p \in Procs, RepairUser(p) PROVE UserJournalBehind'
  <2>1. PICK r \in UserMissing(p) : userJ' = [userJ EXCEPT ![ctx[p].user] = @ \cup {r}]
    BY <1>3 DEF RepairUser
  <2>2. r \in appJ /\ Owner(r) = ctx[p].user
    BY <1>3, <2>1 DEF RepairUser, UserMissing, AppMissing, OwnedBy
  <2>3. appJ' = appJ
    BY <1>3 DEF RepairUser
  <2>4. ASSUME NEW u \in Users PROVE userJ'[u] \subseteq appJ /\ \A q \in userJ'[u] : Owner(q) = u
    <3>1. userJ'[u] = userJ[u] \/ (u = ctx[p].user /\ userJ'[u] = userJ[u] \cup {r})
      BY <2>1 DEF TypeInv, DurableType
    <3> QED BY <2>2, <3>1 DEF UserJournalBehind
  <2> QED BY <2>3, <2>4 DEF UserJournalBehind, Owner
<1> QED BY <1>1, <1>2, <1>3, JournalWriters

(* Whatever a crash or a fault leaves of the journals, the journal of a    *)
(* user holds nothing the app journal lacks and nothing of another user.   *)
THEOREM JournalsOrdered == Spec => []UserJournalBehind
<1>1. Init => TypeInv /\ UserJournalBehind
  BY TypeInit DEF Init, UserJournalBehind
<1>2. TypeInv /\ UserJournalBehind /\ [Next]_vars => (TypeInv /\ UserJournalBehind)'
  BY TypeStep, JournalStep
<1> QED BY <1>1, <1>2, PTL DEF Spec

-----------------------------------------------------------------------------
(* Transcripts and deletions.                                              *)

(* What TranscriptSound and DeletedStaysDeleted say of one session.        *)
SoundFiles(s) ==
  /\ file[s] # "ok" => log[s] = {}
  /\ file[s] = "ok" =>
       \E h \in log[s] :
         /\ h = HeaderOf(s, h.ord)
         /\ \A r \in log[s] : r.ses = s /\ r.inc = h.ord /\ h.ord <= r.ord
         /\ cmark[s] \in {0, h.ord}
         /\ dmark[s] \in {0, h.ord}
GoneFrom(s, G) == \A g \in G : g[1] = s => cmark[s] # g[2] /\ \A r \in log[s] : r.inc # g[2]

(* A record to be written is later than its transcript; a Delete knows the *)
(* incarnation it deletes and what it has removed already.                 *)
SoundAt(c, l) ==
  /\ l = "commit" => \A q \in log[c.ses] : q.ord < c.ord
  /\ c.op = "delete" /\ l # "idle" =>
       /\ l \in {"scan", "project", "repair", "mark", "remove", "uncreate", "unmark", "done"}
       /\ c.inc <= seq
       /\ l \in {"scan", "project", "repair", "remove"} => file[c.ses] = "ok"
       /\ l = "mark" => file[c.ses] # "torn"
       /\ l \in {"scan", "project", "repair", "mark", "remove"} /\ file[c.ses] = "ok" =>
            SameIncarnation(c.ses, c.inc)
       /\ l \in {"uncreate", "unmark", "done"} => file[c.ses] = "none"
       /\ l \in {"unmark", "done"} => cmark[c.ses] = 0
       /\ l = "done" => dmark[c.ses] = 0

SoundInv ==
  /\ \A s \in Sessions : SoundFiles(s) /\ GoneFrom(s, gone) /\ dmark[s] <= seq
  /\ \A g \in gone : g[2] <= seq
  /\ \A p \in Procs : Opening(ctx[p], pc[p]) => <<ctx[p].ses, ctx[p].inc>> \notin gone
  /\ \A p \in Procs : SoundAt(ctx[p], pc[p])

LEMMA SoundInit == Init => SoundInv
<1> SUFFICES ASSUME Init PROVE SoundInv
  OBVIOUS
<1>1. \A s \in Sessions : SoundFiles(s) /\ GoneFrom(s, gone) /\ dmark[s] <= seq
  BY DEF Init, SoundFiles, GoneFrom
<1>2. gone = {} /\ \A p \in Procs : pc[p] = "idle" /\ ~Opening(ctx[p], pc[p])
  BY DEF Init, Opening, Blank
<1>3. \A p \in Procs : SoundAt(ctx[p], pc[p])
  BY <1>2 DEF SoundAt
<1> QED BY <1>1, <1>2, <1>3 DEF SoundInv

LEMMA SoundPrimed ==
  ASSUME NEW q \in Procs, NEW d, NEW m, d = ctx'[q], m = pc'[q], SoundAt(d, m)'
  PROVE  SoundAt(ctx[q], pc[q])'
  BY DEF SoundAt, SameIncarnation

(* Where the files of its session are what they were, a call knows what it *)
(* knew.                                                                   *)
LEMMA SoundAtKept ==
  ASSUME NEW d, NEW m, SoundAt(d, m), d.inc \in Nat, seq \in Nat, seq' \in Nat, seq <= seq',
         file'[d.ses] = file[d.ses], log'[d.ses] = log[d.ses],
         cmark'[d.ses] = cmark[d.ses], dmark'[d.ses] = dmark[d.ses]
  PROVE  SoundAt(d, m)'
<1>1. d.inc <= seq => d.inc <= seq'
  OBVIOUS
<1> QED BY <1>1 DEF SoundAt, SameIncarnation, HeaderOf

(* A step of p that may change the files of a session whose mutex it holds.*)
LEMMA SoundMove ==
  ASSUME TypeInv, TypeInv', IdentityInv, SoundInv, NEW p \in Procs, NEW c, NEW l, NEW s,
         pc' = [pc EXCEPT ![p] = l], ctx' = [ctx EXCEPT ![p] = c],
         seq <= seq', UNCHANGED gone,
         \/ UNCHANGED <<file, log, cmark, dmark>>
         \/ s = ctx[p].ses /\ HoldsOp(ctx[p], pc[p]),
         ElsewhereKept(s),
         s \in Sessions => SoundFiles(s)' /\ GoneFrom(s, gone)' /\ dmark'[s] <= seq',
         Opening(c, l) => <<c.ses, c.inc>> \notin gone,
         SoundAt(c, l)'
  PROVE  SoundInv'
<1>0. \A q \in Procs : \/ q = p /\ ctx'[q] = c /\ pc'[q] = l
                       \/ q # p /\ ctx'[q] = ctx[q] /\ pc'[q] = pc[q]
  BY DEF TypeInv, CallersType
<1>1. seq \in Nat /\ seq' \in Nat
  BY DEF TypeInv, DurableType
<1>2. ASSUME NEW t \in Sessions PROVE SoundFiles(t)' /\ GoneFrom(t, gone)' /\ dmark'[t] <= seq'
  <2>1. CASE t = s
    BY <2>1
  <2>2. CASE t # s
    <3>1. /\ file'[t] = file[t] /\ log'[t] = log[t] /\ cmark'[t] = cmark[t] /\ dmark'[t] = dmark[t]
      BY <2>2 DEF ElsewhereKept
    <3>2. dmark[t] \in Nat /\ dmark[t] <= seq
      BY DEF SoundInv, TypeInv, DurableType
    <3>3. SoundFiles(t)' /\ GoneFrom(t, gone)'
      BY <3>1 DEF SoundInv, SoundFiles, GoneFrom, HeaderOf
    <3> QED BY <1>1, <3>1, <3>2, <3>3
  <2> QED BY <2>1, <2>2
<1>3. \A g \in gone' : g[2] <= seq'
  <2>1. \A g \in gone : g[2] \in Nat /\ g[2] <= seq
    BY DEF SoundInv, TypeInv, HistoryType, Orders
  <2> QED BY <1>1, <2>1
<1>4. \A q \in Procs : Opening(ctx'[q], pc'[q]) => <<ctx'[q].ses, ctx'[q].inc>> \notin gone'
  BY <1>0 DEF SoundInv
<1>5. ASSUME NEW q \in Procs, NEW d, NEW m, d = ctx'[q], m = pc'[q]
      PROVE  SoundAt(d, m)'
  <2>1. CASE q = p
    <3>1. d = c /\ m = l
      BY <1>0, <1>5, <2>1
    <3> QED BY <3>1
  <2>2. CASE q # p
    <3>1. d = ctx[q] /\ m = pc[q]
      BY <1>0, <1>5, <2>2
    <3>2. SoundAt(d, m) /\ Local(d, m) /\ d.inc \in Nat
      BY <3>1, CallerAt DEF SoundInv, Contexts
    <3>3. CASE HoldsOp(d, m)
      <4>1. d.ses \in Sessions
        BY <3>1, <3>3, HolderHasSession
      <4>2. s # d.ses \/ UNCHANGED <<file, log, cmark, dmark>>
        BY <2>2, <3>1, <3>3 DEF IdentityInv, LocksHeld
      <4>3. /\ file'[d.ses] = file[d.ses] /\ log'[d.ses] = log[d.ses]
            /\ cmark'[d.ses] = cmark[d.ses] /\ dmark'[d.ses] = dmark[d.ses]
        BY <4>1, <4>2 DEF ElsewhereKept
      <4> QED BY <1>1, <3>2, <4>3, SoundAtKept
    <3>4. CASE ~HoldsOp(d, m)
      BY <3>2, <3>4 DEF SoundAt, Local, HoldsOp
    <3> QED BY <3>3, <3>4
  <2> QED BY <2>1, <2>2
<1>6. \A q \in Procs : SoundAt(ctx[q], pc[q])'
  BY <1>5, SoundPrimed
<1>7. \A q \in Procs : (Opening(ctx[q], pc[q]) => <<ctx[q].ses, ctx[q].inc>> \notin gone)'
  BY <1>4 DEF Opening
<1> QED BY <1>2, <1>3, <1>6, <1>7 DEF SoundInv

(* A step of p that leaves the files alone.                                *)
LEMMA SoundQuiet ==
  ASSUME TypeInv, TypeInv', IdentityInv, SoundInv, NEW p \in Procs, NEW c, NEW l,
         pc' = [pc EXCEPT ![p] = l], ctx' = [ctx EXCEPT ![p] = c],
         UNCHANGED <<file, log, cmark, dmark, gone>>, seq <= seq',
         Opening(c, l) => <<c.ses, c.inc>> \notin gone,
         l = "commit" \/ c.op = "delete" => SoundAt(c, l)'
  PROVE  SoundInv'
<1>1. SoundAt(c, l)'
  BY DEF SoundAt
<1>2. \A s : ElsewhereKept(s)
  BY DEF ElsewhereKept
<1>3. ASSUME NEW s \in Sessions PROVE SoundFiles(s)' /\ GoneFrom(s, gone)' /\ dmark'[s] <= seq'
  <2>1. dmark[s] \in Nat /\ dmark[s] <= seq /\ seq \in Nat /\ seq' \in Nat
    BY DEF SoundInv, TypeInv, DurableType
  <2>2. SoundFiles(s)' /\ GoneFrom(s, gone)'
    BY DEF SoundInv, SoundFiles, GoneFrom, HeaderOf
  <2> QED BY <2>1, <2>2
<1> QED BY <1>1, <1>2, <1>3, SoundMove

LEMMA SoundReturn ==
  ASSUME TypeInv, TypeInv', IdentityInv, SoundInv, NEW p \in Procs, Return(p),
         UNCHANGED <<file, log, cmark, dmark, gone>>, seq <= seq'
  PROVE  SoundInv'
<1> SUFFICES ASSUME NEW c, NEW l, c = Blank, l = "idle" PROVE SoundInv'
  OBVIOUS
<1>1. pc' = [pc EXCEPT ![p] = l] /\ ctx' = [ctx EXCEPT ![p] = c]
  BY DEF Return, Goto, SetCtx
<1>2. ~Opening(c, l) /\ c.op = "none"
  BY DEF Opening, Blank
<1> QED BY <1>1, <1>2, SoundQuiet

(* p goes on with the same operation on the same session.                  *)
LEMMA SoundGoesOn ==
  ASSUME TypeInv, TypeInv', IdentityInv, SoundInv, NEW p \in Procs, NEW c, NEW l,
         pc' = [pc EXCEPT ![p] = l], ctx' = [ctx EXCEPT ![p] = c],
         UNCHANGED <<file, log, cmark, dmark, gone>>, seq <= seq', l # "commit",
         c.op = ctx[p].op, c.ses = ctx[p].ses, c.inc = ctx[p].inc,
         Opening(c, l) => Opening(ctx[p], pc[p]),
         c.op = "delete" => \/ pc[p] \in {"scan", "project"} /\ l \in {"scan", "project", "repair"}
                            \/ pc[p] = "repair" /\ l \in {"repair", "mark"}
  PROVE  SoundInv'
<1>1. Opening(c, l) => <<c.ses, c.inc>> \notin gone
  BY DEF SoundInv
<1>2. ASSUME c.op = "delete" PROVE SoundAt(c, l)'
  <2>1. SoundAt(ctx[p], pc[p]) /\ c.inc \in Nat /\ seq \in Nat /\ seq' \in Nat
    BY CallerAt DEF SoundInv, Contexts, TypeInv, DurableType
  <2>2. SoundAt(c, l)
    BY <1>2, <2>1 DEF SoundAt
  <2> QED BY <2>1, <2>2, SoundAtKept
<1> QED BY <1>1, <1>2, SoundQuiet

LEMMA SequenceGrows ==
  ASSUME TypeInv, NEW p \in Procs, reserveRecord(p) \/ validateReservedRecord(p)
  PROVE  seq <= seq'
<1>1. seq \in Nat /\ inv.max \in Nat /\ ctx[p].ord \in Nat
  BY InvFields, CallerAt DEF TypeInv, DurableType, Contexts
<1>2. CASE reserveRecord(p)
  <2>1. NextOrder \in Nat /\ seq <= NextOrder
    BY <1>1, MaxType DEF NextOrder
  <2> QED BY <1>1, <1>2, <2>1 DEF reserveRecord
<1>3. CASE validateReservedRecord(p)
  <2>1. Max2(inv.max, Rec(p).ord) \in Nat
    BY <1>1, MaxType DEF Rec
  <2>2. \/ seq' = Max2(seq, Max2(inv.max, Rec(p).ord))
        \/ seq < Max2(inv.max, Rec(p).ord) /\ seq' \in {seq, Max2(inv.max, Rec(p).ord)}
        \/ UNCHANGED seq
    BY <1>3 DEF validateReservedRecord
  <2> QED BY <1>1, <2>1, <2>2, MaxType
<1> QED BY <1>2, <1>3

LEMMA CallSound ==
  ASSUME TypeInv, TypeInv', IdentityInv, SoundInv, NEW p \in Procs,
         CallList(p) \/ (\E s \in Sessions : CallCreate(p, s) \/ CallGet(p, s))
           \/ (\E h \in handles, e \in Events : CallAppend(p, h, e))
  PROVE  SoundInv'
<1> DEFINE Starts(c, l) == /\ pc' = [pc EXCEPT ![p] = l] /\ ctx' = [ctx EXCEPT ![p] = c]
                           /\ l \in {"create", "append", "baseline", "scan"}
                           /\ c.op \in {"create", "append", "get", "list"}
                           /\ c.op = "create" => l = "create"
<1>1. PICK c, l : Starts(c, l)
  <2>1. CASE CallList(p)
    <3>1. \A c : c = [Called("list", NULL, NULL) EXCEPT !.todo = Sessions] => c.op = "list"
      BY DEF Called, Blank
    <3> QED BY <2>1, <3>1 DEF CallList, Goto, SetCtx
  <2>2. ASSUME NEW s \in Sessions, CallCreate(p, s) PROVE \E c, l : Starts(c, l)
    <3>1. \A c : c = [Called("create", s, UserOf[s]) EXCEPT !.ev = Header] => c.op = "create"
      BY DEF Called, Blank
    <3> QED BY <2>2, <3>1 DEF CallCreate, Goto, SetCtx
  <2>3. ASSUME NEW s \in Sessions, CallGet(p, s) PROVE \E c, l : Starts(c, l)
    <3>1. \A c : c = [Called("get", s, UserOf[s]) EXCEPT !.todo = Sessions] => c.op = "get"
      BY DEF Called, Blank
    <3> QED BY <2>3, <3>1 DEF CallGet, Goto, SetCtx
  <2>4. ASSUME NEW h \in handles, NEW e \in Events, CallAppend(p, h, e) PROVE \E c, l : Starts(c, l)
    <3>1. PICK l \in {"append", "baseline"} : pc' = [pc EXCEPT ![p] = l]
      BY <2>4 DEF CallAppend, Goto
    <3>2. \A c : c = [Called("append", h[1], UserOf[h[1]]) EXCEPT !.ev = e, !.inc = h[2]] =>
            c.op = "append"
      BY DEF Called, Blank
    <3>3. ctx' = [ctx EXCEPT ![p] = [Called("append", h[1], UserOf[h[1]]) EXCEPT !.ev = e, !.inc = h[2]]]
      BY <2>4 DEF CallAppend, SetCtx
    <3> QED BY <3>1, <3>2, <3>3
  <2> QED BY <2>1, <2>2, <2>3, <2>4
<1>2. UNCHANGED <<file, log, cmark, dmark, seq, gone>>
  BY DEF CallList, CallCreate, CallGet, CallAppend, durable, history
<1>3. ~Opening(c, l) /\ l # "commit" /\ c.op # "delete"
  BY <1>1 DEF Opening
<1> QED BY <1>1, <1>2, <1>3, SameSeq, SoundQuiet

LEMMA CallDeleteSound ==
  ASSUME TypeInv, TypeInv', IdentityInv, SoundInv, NEW p \in Procs, NEW s \in Sessions, CallDelete(p, s)
  PROVE  SoundInv'
<1>1. UNCHANGED <<file, log, cmark, dmark, seq, gone>> /\ file[s] # "torn"
  BY DEF CallDelete, durable, history
<1> DEFINE Marked(i, l) ==
             \/ l = "unmark" /\ i = dmark[s] /\ i # 0 /\ file[s] = "ok" /\ ~SameIncarnation(s, i)
             \/ l = "remove" /\ i = dmark[s] /\ file[s] = "ok" /\ SameIncarnation(s, i)
             \/ l = "uncreate" /\ i = dmark[s] /\ file[s] = "none"
             \/ l = "mark" /\ i = cmark[s] /\ i # 0 /\ file[s] = "none"
           Scanned(i, l) == l = "scan" /\ file[s] = "ok" /\ \E r \in log[s] : i = r.inc
           Starts(c, l) == /\ pc' = [pc EXCEPT ![p] = l] /\ ctx' = [ctx EXCEPT ![p] = c]
                           /\ c.ses = s /\ c.op = "delete" /\ (Marked(c.inc, l) \/ Scanned(c.inc, l))
<1>2. PICK c, l : Starts(c, l)
  <2> DEFINE call(i) == [Called("delete", s, UserOf[s]) EXCEPT !.inc = i]
             listed(i) == [call(i) EXCEPT !.todo = Sessions]
  <2>1. \A i : call(i).ses = s /\ call(i).op = "delete" /\ call(i).inc = i
    BY DEF Called, Blank
  <2>2. \A i : listed(i).ses = s /\ listed(i).op = "delete" /\ listed(i).inc = i
    BY DEF Called, Blank
  <2>3. \/ \E i, l : Marked(i, l) /\ SetCtx(p, call(i)) /\ Goto(p, l)
        \/ \E i, l : Scanned(i, l) /\ SetCtx(p, listed(i)) /\ Goto(p, l)
    BY DEF CallDelete
  <2> HIDE DEF call, listed, Marked, Scanned
  <2>4. ASSUME NEW i, NEW l, Marked(i, l), SetCtx(p, call(i)), Goto(p, l) PROVE \E c, m : Starts(c, m)
    <3>1. Starts(call(i), l)
      BY <2>1, <2>4 DEF SetCtx, Goto
    <3> QED BY <3>1
  <2>5. ASSUME NEW i, NEW l, Scanned(i, l), SetCtx(p, listed(i)), Goto(p, l) PROVE \E c, m : Starts(c, m)
    <3>1. Starts(listed(i), l)
      BY <2>2, <2>5 DEF SetCtx, Goto
    <3> QED BY <3>1
  <2> QED BY <2>3, <2>4, <2>5
<1>3. SoundFiles(s) /\ dmark[s] <= seq
  BY DEF SoundInv
<1>4. \A r : Somewhere(r) => r.inc <= seq
  BY DEF IdentityInv, Bounded
<1>5. (cmark[s] # 0 => cmark[s] <= seq) /\ \A r \in log[s] : r.inc <= seq
  <2>1. cmark[s] # 0 => HeaderOf(s, cmark[s]).inc <= seq
    BY <1>4, HeldIsKnown DEF Somewhere
  <2>2. \A r \in log[s] : r.inc <= seq
    BY <1>4, HeldIsKnown DEF Somewhere
  <2> QED BY <2>1, <2>2 DEF HeaderOf
<1>6. l # "unmark"
  BY <1>2, <1>3 DEF SoundFiles, SameIncarnation
<1>7. \A r \in log[s] : file[s] = "ok" => SameIncarnation(s, r.inc)
  BY <1>3 DEF SoundFiles, SameIncarnation
<1>8. SoundAt(c, l)'
  BY <1>1, <1>2, <1>3, <1>5, <1>6, <1>7 DEF SoundAt, SameIncarnation, HeaderOf
<1>9. ~Opening(c, l) /\ l # "commit"
  BY <1>2 DEF Opening
<1> QED BY <1>1, <1>2, <1>8, <1>9, SameSeq, SoundQuiet

LEMMA EndsSound ==
  ASSUME TypeInv, TypeInv', IdentityInv, SoundInv, NEW p \in Procs,
         CreateRefused(p) \/ AppendRefused(p) \/ FallbackFails(p)
  PROVE  SoundInv'
<1>1. Return(p) /\ UNCHANGED <<file, log, cmark, dmark, seq, gone>>
  BY DEF CreateRefused, AppendRefused, FallbackFails, durable, history
<1> QED BY <1>1, SameSeq, SoundReturn

LEMMA CreateBeginsSound ==
  ASSUME TypeInv, TypeInv', IdentityInv, SoundInv, NEW p \in Procs, CreateBegins(p)
  PROVE  SoundInv'
<1> SUFFICES ASSUME NEW c, NEW l, NEW s, s = ctx[p].ses, l = "baseline",
                    c = [ctx[p] EXCEPT !.inc = cmark[s], !.ord = cmark[s]]
             PROVE  SoundInv'
  OBVIOUS
<1>1. s \in Sessions /\ ctx[p] \in Contexts /\ ctx[p].op = "create"
  BY CallerAt DEF CreateBegins, Local
<1>2. c.ses = s /\ c.op = "create" /\ c.inc = cmark[s]
  BY <1>1 DEF Contexts
<1>3. /\ pc' = [pc EXCEPT ![p] = l] /\ ctx' = [ctx EXCEPT ![p] = c]
      /\ UNCHANGED <<file, log, cmark, dmark, seq, gone>>
  BY DEF CreateBegins, Goto, SetCtx, durable, history
<1>4. <<c.ses, c.inc>> \notin gone
  BY <1>1, <1>2 DEF SoundInv, GoneFrom
<1> QED BY <1>2, <1>3, <1>4, SameSeq, SoundQuiet

LEMMA readSharedProjectionSound ==
  ASSUME TypeInv, TypeInv', IdentityInv, SoundInv, NEW p \in Procs, readSharedProjection(p)
  PROVE  SoundInv'
<1>1. UNCHANGED <<file, log, cmark, dmark, seq, gone>> /\ pc[p] = "baseline"
  BY DEF readSharedProjection, durable, history
<1>2. CASE Return(p)
  BY <1>1, <1>2, SameSeq, SoundReturn
<1>3. CASE ~Return(p)
  <2>1. ctx[p].op \in {"create", "append"}
    BY <1>1, CallerAt DEF Local
  <2>2. PICK l : /\ Goto(p, l) /\ l \in {"append", "reserve", "validate"}
                 /\ l = "validate" => ctx[p].op = "create" /\ ctx[p].inc # 0
    <3>1. CASE ctx[p].op = "append"
      BY <1>3, <3>1 DEF readSharedProjection
    <3>2. CASE ctx[p].op = "create" /\ ctx[p].inc = 0
      BY <1>3, <3>2 DEF readSharedProjection
    <3>3. CASE ctx[p].op = "create" /\ ctx[p].inc # 0
      BY <1>3, <3>3 DEF readSharedProjection
    <3> QED BY <2>1, <3>1, <3>2, <3>3
  <2>3. pc' = [pc EXCEPT ![p] = l] /\ ctx' = [ctx EXCEPT ![p] = ctx[p]]
    BY <1>3, <2>2 DEF readSharedProjection, Goto, TypeInv, CallersType
  <2>4. Opening(ctx[p], l) => Opening(ctx[p], pc[p])
    BY <1>1, <2>2 DEF Opening
  <2> QED BY <1>1, <2>1, <2>2, <2>3, <2>4, SameSeq, SoundGoesOn
<1> QED BY <1>2, <1>3

(* p stays where it is.                                                    *)
LEMMA SoundStays ==
  ASSUME TypeInv, TypeInv', IdentityInv, SoundInv,
         UNCHANGED <<file, log, cmark, dmark, seq, gone, pc, ctx>>
  PROVE  SoundInv'
<1>1. ASSUME NEW s \in Sessions PROVE SoundFiles(s)' /\ GoneFrom(s, gone)' /\ dmark'[s] <= seq'
  BY DEF SoundInv, SoundFiles, GoneFrom, HeaderOf
<1>2. ASSUME NEW q \in Procs, NEW d, NEW m, d = ctx'[q], m = pc'[q] PROVE SoundAt(d, m)'
  <2>1. SoundAt(d, m) /\ d.inc \in Nat /\ seq \in Nat
    BY <1>2, CallerAt DEF SoundInv, Contexts, TypeInv, DurableType
  <2> QED BY <2>1, SoundAtKept
<1>3. \A q \in Procs : SoundAt(ctx[q], pc[q])'
  BY <1>2, SoundPrimed
<1> QED BY <1>1, <1>3 DEF SoundInv, Opening

LEMMA ensureRecordInventorySound ==
  ASSUME TypeInv, TypeInv', IdentityInv, SoundInv, NEW p \in Procs, ensureRecordInventory(p)
  PROVE  SoundInv'
<1>1. UNCHANGED <<file, log, cmark, dmark, seq, gone>>
  BY DEF ensureRecordInventory, durable, history
<1>2. CASE UNCHANGED <<pc, ctx>>
  BY <1>1, <1>2, SoundStays
<1>3. CASE Return(p)
  BY <1>1, <1>3, SameSeq, SoundReturn
<1> QED BY <1>2, <1>3 DEF ensureRecordInventory

LEMMA validateReservedRecordSound ==
  ASSUME TypeInv, TypeInv', IdentityInv, SoundInv, NEW p \in Procs, validateReservedRecord(p)
  PROVE  SoundInv'
<1>1. UNCHANGED <<file, log, cmark, dmark, gone>> /\ pc[p] = "validate"
  BY DEF validateReservedRecord, history
<1>2. seq <= seq'
  BY SequenceGrows DEF validateReservedRecord
<1>3. CASE Return(p)
  BY <1>1, <1>2, <1>3, SoundReturn
<1>4. CASE Goto(p, "resume") /\ UNCHANGED <<ctx, locks>>
  <2>1. pc' = [pc EXCEPT ![p] = "resume"] /\ ctx' = [ctx EXCEPT ![p] = ctx[p]]
    BY <1>4 DEF Goto, TypeInv, CallersType
  <2>2. ctx[p].op = "create" /\ Opening(ctx[p], pc[p])
    BY <1>1, CallerAt DEF Local, Opening
  <2> QED BY <1>1, <1>2, <2>1, <2>2, SoundGoesOn
<1> QED BY <1>3, <1>4 DEF validateReservedRecord

LEMMA AppendLoadsSound ==
  ASSUME TypeInv, TypeInv', IdentityInv, SoundInv, NEW p \in Procs, AppendLoads(p)
  PROVE  SoundInv'
<1>1. UNCHANGED <<file, log, cmark, dmark, seq, gone>>
  BY DEF AppendLoads, durable, history
<1>2. ctx[p] \in Contexts /\ ctx[p].op = "append"
  BY CallerAt DEF AppendLoads, Local
<1>3. PICK c, l : /\ pc' = [pc EXCEPT ![p] = l] /\ ctx' = [ctx EXCEPT ![p] = c]
                  /\ l \in {"reserve", "reconcile"} /\ c.op = "append"
  <2>1. CASE Goto(p, "reserve") /\ UNCHANGED ctx
    <3>1. ctx' = [ctx EXCEPT ![p] = ctx[p]]
      BY <2>1 DEF TypeInv, CallersType
    <3> QED BY <1>2, <2>1, <3>1 DEF Goto
  <2>2. CASE \E n : SetCtx(p, [ctx[p] EXCEPT !.ord = n]) /\ Goto(p, "reconcile")
    <3>1. \A n, d : d = [ctx[p] EXCEPT !.ord = n] => d.op = "append"
      BY <1>2 DEF Contexts
    <3> QED BY <2>2, <3>1 DEF Goto, SetCtx
  <2> QED BY <2>1, <2>2 DEF AppendLoads
<1>4. ~Opening(c, l) /\ l # "commit" /\ c.op # "delete"
  BY <1>3 DEF Opening
<1> QED BY <1>1, <1>3, <1>4, SameSeq, SoundQuiet

LEMMA reserveRecordSound ==
  ASSUME TypeInv, TypeInv', IdentityInv, SoundInv, NEW p \in Procs, reserveRecord(p)
  PROVE  SoundInv'
<1>1. pc[p] = "reserve" /\ UNCHANGED <<file, log, cmark, dmark, gone>>
  BY DEF reserveRecord, history
<1>2. ctx[p] \in Contexts /\ ctx[p].ses \in Sessions /\ ctx[p].op \in {"create", "append"}
  BY <1>1, CallerAt DEF Local
<1>3. seq <= seq' /\ seq \in Nat /\ NextOrder \in Nat /\ seq < NextOrder
  <2>1. inv.max \in Nat /\ seq \in Nat
    BY InvFields DEF TypeInv, DurableType
  <2> QED BY <2>1, SequenceGrows, MaxType DEF NextOrder
<1>4. CASE Return(p)
  BY <1>1, <1>3, <1>4, SoundReturn
<1>5. CASE /\ SetCtx(p, [ctx[p] EXCEPT !.ord = Reserved(p).ord, !.inc = Reserved(p).inc])
           /\ Goto(p, IF ctx[p].op = "create" THEN "marker" ELSE "commit")
  <2> SUFFICES ASSUME NEW c, NEW l,
                      c = [ctx[p] EXCEPT !.ord = Reserved(p).ord, !.inc = Reserved(p).inc],
                      l = IF ctx[p].op = "create" THEN "marker" ELSE "commit"
               PROVE  SoundInv'
    OBVIOUS
  <2>1. /\ c.op = ctx[p].op /\ c.ses = ctx[p].ses /\ c.ord = NextOrder
        /\ c.op = "create" => c.inc = NextOrder
    BY <1>2 DEF Contexts, Reserved
  <2>2. pc' = [pc EXCEPT ![p] = l] /\ ctx' = [ctx EXCEPT ![p] = c]
    BY <1>5 DEF Goto, SetCtx
  <2>3. Opening(c, l) => c.op = "create"
    BY <1>2, <2>1 DEF Opening
  <2>4. Opening(c, l) => <<c.ses, c.inc>> \notin gone
    <3>1. \A g \in gone : g[2] \in Nat /\ g[2] <= seq
      BY DEF SoundInv, TypeInv, HistoryType, Orders
    <3>2. <<c.ses, c.inc>>[2] = c.inc
      OBVIOUS
    <3> QED BY <1>3, <2>1, <2>3, <3>1, <3>2
  <2>5. \A q \in log[c.ses] : q.ord < c.ord
    <3>1. \A q \in log[c.ses] : q.ord \in Nat /\ q.ord <= seq
      BY <1>2, <2>1, HeldIsKnown, SomewhereType DEF IdentityInv, Bounded, Somewhere, Records, Orders
    <3> QED BY <1>3, <2>1, <3>1
  <2>6. SoundAt(c, l)'
    BY <1>1, <1>2, <2>1, <2>5 DEF SoundAt
  <2> QED BY <1>1, <1>3, <2>2, <2>4, <2>6, SoundQuiet
<1> QED BY <1>4, <1>5 DEF reserveRecord

(* One step of an operation that works on the shared state.                *)
LEMMA LateSound ==
  ASSUME TypeInv, TypeInv', IdentityInv, SoundInv, NEW p \in Procs, NEW c, NEW l \in Late,
         pc' = [pc EXCEPT ![p] = l], ctx' = [ctx EXCEPT ![p] = c],
         UNCHANGED <<file, log, cmark, dmark, seq, gone>>,
         c.op = ctx[p].op, c.ses = ctx[p].ses, c.inc = ctx[p].inc,
         c.op = "delete" => \/ pc[p] \in {"scan", "project"} /\ l \in {"scan", "project", "repair"}
                            \/ pc[p] = "repair" /\ l \in {"repair", "mark"}
  PROVE  SoundInv'
<1>1. ~Opening(c, l) /\ l # "commit"
  BY LateIsQuiet
<1> QED BY <1>1, SameSeq, SoundGoesOn

LEMMA ScanningSound ==
  ASSUME TypeInv, TypeInv', IdentityInv, SoundInv, NEW p \in Procs, NEW s \in Sessions,
         reconcileCommittedShared(p) \/ scanApp(p, s) \/ ScanEnds(p, s)
  PROVE  SoundInv'
<1>1. UNCHANGED <<file, log, cmark, dmark, seq, gone>> /\ ctx[p] \in Contexts
  BY CallerAt DEF reconcileCommittedShared, scanApp, ScanEnds, durable, history
<1>2. CASE reconcileCommittedShared(p)
  <2> SUFFICES ASSUME NEW c, c = [ctx[p] EXCEPT !.todo = Sessions] PROVE SoundInv'
    OBVIOUS
  <2>1. c.op = ctx[p].op /\ c.ses = ctx[p].ses /\ c.inc = ctx[p].inc /\ c.op # "delete"
    BY <1>1, <1>2, CallerAt DEF Contexts, reconcileCommittedShared, Local
  <2>2. /\ pc' = [pc EXCEPT ![p] = "scan"] /\ ctx' = [ctx EXCEPT ![p] = c] /\ "scan" \in Late
    BY <1>2 DEF reconcileCommittedShared, Goto, SetCtx, Late
  <2> QED BY <1>1, <2>1, <2>2, LateSound
<1>3. CASE scanApp(p, s)
  <2> DEFINE found == IF file[s] = "ok" THEN ctx[p].scan \cup log[s] ELSE ctx[p].scan
             last == ctx[p].todo = {s}
  <2> SUFFICES ASSUME NEW c, NEW l,
                      c = [ctx[p] EXCEPT !.todo = @ \ {s}, !.scan = found,
                            !.left = IF last /\ ctx[p].op = "list" THEN UsersIn(found) ELSE @],
                      l = IF last THEN AfterScan(p) ELSE "scan"
               PROVE  SoundInv'
    OBVIOUS
  <2>1. c.op = ctx[p].op /\ c.ses = ctx[p].ses /\ c.inc = ctx[p].inc
    BY <1>1 DEF Contexts
  <2>2. /\ pc' = [pc EXCEPT ![p] = l] /\ ctx' = [ctx EXCEPT ![p] = c] /\ pc[p] = "scan"
        /\ l \in {"scan", "project", "repair"}
    BY <1>3 DEF scanApp, Goto, SetCtx, AfterScan
  <2> QED BY <1>1, <2>1, <2>2, LateSound DEF Late
<1>4. CASE ScanEnds(p, s)
  <2>1. CASE Return(p)
    BY <1>1, <2>1, SameSeq, SoundReturn
  <2>2. CASE Reconciling(p)
    <3> SUFFICES ASSUME NEW c, c = [ctx[p] EXCEPT !.todo = {}, !.scan = pending] PROVE SoundInv'
      OBVIOUS
    <3>1. c.op = ctx[p].op /\ c.ses = ctx[p].ses /\ c.inc = ctx[p].inc /\ c.op # "delete"
      BY <1>1, <2>2 DEF Contexts, Reconciling
    <3>2. pc' = [pc EXCEPT ![p] = "fallback"] /\ ctx' = [ctx EXCEPT ![p] = c] /\ "fallback" \in Late
      BY <1>4, <2>2 DEF ScanEnds, Goto, SetCtx, Late
    <3> QED BY <1>1, <3>1, <3>2, LateSound
  <2> QED BY <1>4, <2>1, <2>2 DEF ScanEnds
<1> QED BY <1>2, <1>3, <1>4

LEMMA repairSharedSound ==
  ASSUME TypeInv, TypeInv', IdentityInv, SoundInv, NEW p \in Procs, repairShared(p)
  PROVE  SoundInv'
<1>1. /\ UNCHANGED <<file, log, cmark, dmark, seq, gone>> /\ ctx[p] \in Contexts
      /\ pc[p] = "project" /\ pc' = [pc EXCEPT ![p] = "repair"] /\ "repair" \in Late
  BY CallerAt DEF repairShared, durable, history, Goto, Late
<1>2. CASE UNCHANGED ctx
  <2>1. ctx' = [ctx EXCEPT ![p] = ctx[p]]
    BY <1>2 DEF TypeInv, CallersType
  <2> QED BY <1>1, <2>1, LateSound
<1>3. CASE \E u \in ctx[p].left : SetCtx(p, [ctx[p] EXCEPT !.user = u, !.left = @ \ {u}])
  <2>1. PICK u \in ctx[p].left : SetCtx(p, [ctx[p] EXCEPT !.user = u, !.left = @ \ {u}])
    BY <1>3
  <2> SUFFICES ASSUME NEW c, c = [ctx[p] EXCEPT !.user = u, !.left = @ \ {u}] PROVE SoundInv'
    OBVIOUS
  <2>2. c.op = ctx[p].op /\ c.ses = ctx[p].ses /\ c.inc = ctx[p].inc
    BY <1>1 DEF Contexts
  <2>3. ctx' = [ctx EXCEPT ![p] = c]
    BY <2>1 DEF SetCtx
  <2> QED BY <1>1, <2>2, <2>3, LateSound
<1> QED BY <1>2, <1>3 DEF repairShared

LEMMA ProjectedSound ==
  ASSUME TypeInv, TypeInv', IdentityInv, SoundInv, NEW p \in Procs, NEW app, NEW usr,
         Projected(p, app, usr), pc[p] \in {"repair", "fallback"},
         UNCHANGED <<file, log, cmark, dmark, seq, gone>>
  PROVE  SoundInv'
<1> SUFFICES ASSUME NEW c, c = [ctx[p] EXCEPT !.app = app, !.usr = usr] PROVE SoundInv'
  OBVIOUS
<1>1. c.op = ctx[p].op /\ c.ses = ctx[p].ses /\ c.inc = ctx[p].inc
  BY CallerAt DEF Contexts
<1>2. PICK l \in Late : pc' = [pc EXCEPT ![p] = l] /\ (c.op = "delete" => l = "mark")
  BY <1>1 DEF Projected, AfterProjection, Goto, Late
<1>3. ctx' = [ctx EXCEPT ![p] = c]
  BY DEF Projected, SetCtx
<1>4. c.op = "delete" => pc[p] = "repair"
  BY <1>1 DEF SoundInv, SoundAt
<1> QED BY <1>1, <1>2, <1>3, <1>4, LateSound

LEMMA RepairSound ==
  ASSUME TypeInv, TypeInv', IdentityInv, SoundInv, NEW p \in Procs,
         RepairApp(p) \/ RepairUser(p) \/ RepairDone(p) \/ RepairFails(p)
  PROVE  SoundInv'
<1>1. UNCHANGED <<file, log, cmark, dmark, seq, gone>> /\ pc[p] = "repair"
  BY DEF RepairApp, RepairUser, RepairDone, RepairFails, durable, history
<1>2. CASE RepairApp(p) \/ RepairUser(p)
  BY <1>1, <1>2, SoundStays DEF RepairApp, RepairUser
<1>3. CASE RepairDone(p)
  BY <1>1, <1>3, ProjectedSound DEF RepairDone
<1>4. CASE RepairFails(p)
  <2>1. CASE Reconciling(p)
    <3> SUFFICES ASSUME NEW c, c = [ctx[p] EXCEPT !.scan = @ \cup pending] PROVE SoundInv'
      OBVIOUS
    <3>1. c.op = ctx[p].op /\ c.ses = ctx[p].ses /\ c.inc = ctx[p].inc /\ c.op # "delete"
      BY <2>1, CallerAt DEF Contexts, Reconciling
    <3>2. pc' = [pc EXCEPT ![p] = "fallback"] /\ ctx' = [ctx EXCEPT ![p] = c] /\ "fallback" \in Late
      BY <1>4, <2>1 DEF RepairFails, Goto, SetCtx, Late, Reconciling
    <3> QED BY <1>1, <3>1, <3>2, LateSound
  <2>2. CASE ctx[p].op \in {"get", "list"}
    <3>1. /\ pc' = [pc EXCEPT ![p] = "refallback"] /\ ctx' = [ctx EXCEPT ![p] = ctx[p]]
          /\ "refallback" \in Late
      BY <1>4, <2>2 DEF RepairFails, Reconciling, Goto, Late, TypeInv, CallersType
    <3> QED BY <1>1, <2>2, <3>1, LateSound
  <2>3. CASE Return(p)
    BY <1>1, <2>3, SameSeq, SoundReturn
  <2> QED BY <1>4, <2>1, <2>2, <2>3 DEF RepairFails
<1> QED BY <1>2, <1>3, <1>4

LEMMA FallbackSound ==
  ASSUME TypeInv, TypeInv', IdentityInv, SoundInv, NEW p \in Procs,
         authoritativeFallback(p) \/ FallbackToJournals(p) \/ FallbackToCache(p)
  PROVE  SoundInv'
<1>1. UNCHANGED <<file, log, cmark, dmark, seq, gone>>
  BY DEF authoritativeFallback, FallbackToJournals, FallbackToCache, durable, history
<1>2. CASE authoritativeFallback(p)
  <2>1. /\ pc' = [pc EXCEPT ![p] = "fallback"] /\ ctx' = [ctx EXCEPT ![p] = ctx[p]]
        /\ "fallback" \in Late /\ ctx[p].op # "delete"
    BY <1>2, CallerAt DEF authoritativeFallback, Goto, Late, Local, TypeInv, CallersType
  <2> QED BY <1>1, <2>1, LateSound
<1>3. CASE FallbackToJournals(p)
  BY <1>1, <1>3, ProjectedSound DEF FallbackToJournals
<1>4. CASE FallbackToCache(p)
  <2>1. CASE Return(p)
    BY <1>1, <2>1, SameSeq, SoundReturn
  <2>2. CASE ~Return(p)
    BY <1>1, <1>4, <2>2, ProjectedSound DEF FallbackToCache
  <2> QED BY <2>1, <2>2
<1> QED BY <1>2, <1>3, <1>4

(* A Delete that returns success leaves nothing of its incarnation, and    *)
(* nobody else is about to create it.                                      *)
LEMMA FinishSound ==
  ASSUME TypeInv, TypeInv', IdentityInv, SoundInv, NEW p \in Procs, Finish(p)
  PROVE  SoundInv'
<1>1. UNCHANGED <<file, log, cmark, dmark, seq>> /\ Return(p) /\ pc[p] = "done"
  BY DEF Finish, durable
<1>2. CASE ctx[p].op # "delete"
  <2>1. UNCHANGED gone
    BY <1>2 DEF Finish
  <2> QED BY <1>1, <2>1, SameSeq, SoundReturn
<1>3. CASE ctx[p].op = "delete"
  <2> DEFINE s == ctx[p].ses
             i == ctx[p].inc
  <2>1. gone' = gone \cup {<<s, i>>}
    BY <1>3 DEF Finish
  <2>2. s \in Sessions /\ i \in Orders /\ HoldsOp(ctx[p], pc[p])
    BY <1>1, <1>3, CallerAt DEF Local, HoldsOp
  <2>3. i <= seq /\ cmark[s] = 0 /\ file[s] = "none" /\ i # 0
    BY <1>1, <1>3, <2>2 DEF SoundInv, SoundAt, Orders
  <2>4. log[s] = {}
    BY <2>2, <2>3 DEF IdentityInv, NoFileNoLog
  <2>5. ASSUME NEW t \in Sessions PROVE SoundFiles(t)' /\ GoneFrom(t, gone)' /\ dmark'[t] <= seq'
    <3>1. SoundFiles(t)' /\ dmark'[t] <= seq'
      BY <1>1 DEF SoundInv, SoundFiles, HeaderOf
    <3>2. \A g \in gone' : g[1] = t => cmark[t] # g[2] /\ \A r \in log[t] : r.inc # g[2]
      BY <2>1, <2>3, <2>4 DEF SoundInv, GoneFrom
    <3> QED BY <1>1, <3>1, <3>2 DEF GoneFrom
  <2>6. \A g \in gone' : g[2] <= seq'
    BY <1>1, <2>1, <2>3 DEF SoundInv
  <2>7. \A q \in Procs : \/ q = p /\ ctx'[q] = Blank /\ pc'[q] = "idle"
                         \/ q # p /\ ctx'[q] = ctx[q] /\ pc'[q] = pc[q]
    BY <1>1 DEF Return, Goto, SetCtx, TypeInv, CallersType
  <2>8. ASSUME NEW q \in Procs, (Opening(ctx[q], pc[q]))'
        PROVE  (<<ctx[q].ses, ctx[q].inc>> \notin gone)'
    <3>1. ~Opening(Blank, "idle")
      BY DEF Opening, Blank
    <3>2. q # p /\ ctx'[q] = ctx[q] /\ Opening(ctx[q], pc[q])
      BY <2>7, <2>8, <3>1 DEF Opening
    <3>3. HoldsOp(ctx[q], pc[q])
      BY <3>2, OpeningAt
    <3>4. ctx[q].ses # s
      BY <2>2, <3>2, <3>3 DEF IdentityInv, LocksHeld
    <3> QED BY <2>1, <3>2, <3>4 DEF SoundInv
  <2>9. ASSUME NEW q \in Procs, NEW d, NEW m, d = ctx'[q], m = pc'[q] PROVE SoundAt(d, m)'
    <3>1. CASE q = p
      <4>1. m = "idle"
        BY <2>7, <2>9, <3>1
      <4> QED BY <4>1 DEF SoundAt
    <3>2. CASE q # p
      <4>1. d = ctx[q] /\ m = pc[q]
        BY <2>7, <2>9, <3>2
      <4>2. SoundAt(d, m) /\ d.inc \in Nat /\ seq \in Nat
        BY <4>1, CallerAt DEF SoundInv, Contexts, TypeInv, DurableType
      <4> QED BY <1>1, <4>2, SoundAtKept
    <3> QED BY <3>1, <3>2
  <2>10. \A q \in Procs : SoundAt(ctx[q], pc[q])'
    BY <2>9, SoundPrimed
  <2> QED BY <2>5, <2>6, <2>8, <2>10 DEF SoundInv
<1> QED BY <1>2, <1>3

(* Steps that change a transcript or a marker.                             *)
SoundSession(s) == SoundFiles(s)' /\ GoneFrom(s, gone)' /\ dmark'[s] <= seq

LEMMA SoundFileMove ==
  ASSUME TypeInv, TypeInv', IdentityInv, SoundInv, NEW p \in Procs, NEW l, NEW s,
         Goto(p, l), UNCHANGED <<ctx, seq, gone>>, HoldsOp(ctx[p], pc[p]),
         s = ctx[p].ses, ElsewhereKept(s), SoundSession(s),
         Opening(ctx[p], l) => Opening(ctx[p], pc[p]),
         \A c : c = ctx[p] => SoundAt(c, l)'
  PROVE  SoundInv'
<1> SUFFICES ASSUME NEW c, c = ctx[p] PROVE SoundInv'
  OBVIOUS
<1>1. pc' = [pc EXCEPT ![p] = l] /\ ctx' = [ctx EXCEPT ![p] = c]
  BY DEF Goto, TypeInv, CallersType
<1>2. Opening(c, l) => <<c.ses, c.inc>> \notin gone
  BY DEF SoundInv
<1>3. SoundFiles(s)' /\ GoneFrom(s, gone)' /\ dmark'[s] <= seq'
  BY DEF SoundSession
<1> QED BY <1>1, <1>2, <1>3, SameSeq, SoundMove

LEMMA SoundFileReturn ==
  ASSUME TypeInv, TypeInv', IdentityInv, SoundInv, NEW p \in Procs, NEW s,
         Return(p), UNCHANGED <<seq, gone>>, HoldsOp(ctx[p], pc[p]),
         s = ctx[p].ses, ElsewhereKept(s), SoundSession(s)
  PROVE  SoundInv'
<1> SUFFICES ASSUME NEW c, NEW l, c = Blank, l = "idle" PROVE SoundInv'
  OBVIOUS
<1>1. pc' = [pc EXCEPT ![p] = l] /\ ctx' = [ctx EXCEPT ![p] = c]
  BY DEF Return, Goto, SetCtx
<1>2. ~Opening(c, l) /\ c.op = "none"
  BY DEF Opening, Blank
<1>3. SoundAt(c, l)'
  BY <1>2 DEF SoundAt
<1>4. SoundFiles(s)' /\ GoneFrom(s, gone)' /\ dmark'[s] <= seq'
  BY DEF SoundSession
<1> QED BY <1>1, <1>2, <1>3, <1>4, SameSeq, SoundMove

(* Markers change, or a transcript that is not there.                      *)
LEMMA MarkersSound ==
  ASSUME TypeInv, SoundInv, NEW s \in Sessions, UNCHANGED <<log, gone>>,
         file'[s] = file[s] \/ (log[s] = {} /\ file'[s] # "ok"),
         cmark'[s] \in {0, cmark[s]} \/ (file'[s] # "ok" /\ <<s, cmark'[s]>> \notin gone),
         dmark'[s] = dmark[s]
           \/ (dmark'[s] <= seq /\ (file'[s] = "ok" => dmark'[s] = 0 \/ SameIncarnation(s, dmark'[s])))
  PROVE  SoundSession(s)
<1>1. SoundFiles(s) /\ GoneFrom(s, gone) /\ dmark[s] <= seq
  BY DEF SoundInv
<1>2. \A g \in gone : g[2] # 0 /\ g = <<g[1], g[2]>>
  BY DEF TypeInv, HistoryType, Orders
<1>3. GoneFrom(s, gone)'
  <2>1. \A g \in gone : g[1] = s => cmark'[s] # g[2]
    BY <1>1, <1>2 DEF GoneFrom
  <2>2. \A g \in gone : g[1] = s => \A r \in log[s] : r.inc # g[2]
    BY <1>1 DEF GoneFrom
  <2> QED BY <2>1, <2>2 DEF GoneFrom
<1>4. SoundFiles(s)'
  <2>1. file'[s] # "ok" => log'[s] = {}
    BY <1>1 DEF SoundFiles
  <2>2. ASSUME file'[s] = "ok"
        PROVE  \E h \in log'[s] :
                 /\ h = HeaderOf(s, h.ord)
                 /\ \A r \in log'[s] : r.ses = s /\ r.inc = h.ord /\ h.ord <= r.ord
                 /\ cmark'[s] \in {0, h.ord}
                 /\ dmark'[s] \in {0, h.ord}
    <3>1. PICK h \in log[s] : /\ h = HeaderOf(s, h.ord)
                              /\ \A r \in log[s] : r.ses = s /\ r.inc = h.ord /\ h.ord <= r.ord
                              /\ cmark[s] \in {0, h.ord}
                              /\ dmark[s] \in {0, h.ord}
      BY <1>1, <2>2 DEF SoundFiles
    <3>2. dmark'[s] \in {0, h.ord}
      <4>1. SameIncarnation(s, dmark'[s]) => dmark'[s] = h.ord
        BY <3>1 DEF SameIncarnation, HeaderOf
      <4> QED BY <2>2, <3>1, <4>1
    <3> QED BY <2>2, <3>1, <3>2
  <2> QED BY <2>1, <2>2 DEF SoundFiles, HeaderOf
<1> QED BY <1>1, <1>3, <1>4 DEF SoundSession

(* The header of an opened transaction becomes the transcript, or fails to.*)
LEMMA HeaderSound ==
  ASSUME TypeInv, IdentityInv, SoundInv, NEW p \in Procs, NEW s, s = ctx[p].ses,
         Opening(ctx[p], pc[p]), pc[p] # "marker", file[s] = "none",
         HeaderWritten(s, Rec(p)) \/ HeaderFailed(s, Rec(p)),
         cmark'[s] \in {0, cmark[s]}, UNCHANGED <<dmark, gone>>
  PROVE  SoundSession(s)
<1>1. /\ s \in Sessions /\ Rec(p) = HeaderOf(s, cmark[s]) /\ cmark[s] = ctx[p].inc
      /\ dmark[s] = 0 /\ cmark[s] \in Nat
  <2>1. ctx[p].inc \in Nat
    BY CallerAt DEF Contexts
  <2> QED BY <2>1, OpeningAt DEF FilesAt
<1>2. <<s, cmark[s]>> \notin gone /\ log[s] = {} /\ dmark[s] <= seq
  BY <1>1 DEF SoundInv, SoundFiles
<1>3. CASE HeaderWritten(s, Rec(p))
  <2>1. log'[s] = {HeaderOf(s, cmark[s])} /\ file'[s] = "ok"
    BY <1>1, <1>3 DEF HeaderWritten, TypeInv, DurableType
  <2>2. \A g \in gone : g[2] # 0 /\ g = <<g[1], g[2]>>
    BY DEF TypeInv, HistoryType, Orders
  <2>3. GoneFrom(s, gone)'
    BY <1>2, <2>1, <2>2 DEF GoneFrom, HeaderOf
  <2>4. SoundFiles(s)'
    BY <1>1, <2>1 DEF SoundFiles, HeaderOf
  <2> QED BY <1>2, <2>3, <2>4 DEF SoundSession
<1>4. CASE UNCHANGED log /\ (UNCHANGED file \/ file' = [file EXCEPT ![s] = "torn"])
  <2>1. file'[s] = file[s] \/ (log[s] = {} /\ file'[s] # "ok")
    BY <1>1, <1>2, <1>4 DEF TypeInv, DurableType
  <2> QED BY <1>1, <1>2, <1>4, <2>1, MarkersSound
<1> QED BY <1>3, <1>4 DEF HeaderFailed

LEMMA persistCreateStartSound ==
  ASSUME TypeInv, TypeInv', IdentityInv, SoundInv, NEW p \in Procs, persistCreateStart(p)
  PROVE  SoundInv'
<1> SUFFICES ASSUME NEW s, s = ctx[p].ses PROVE SoundInv'
  OBVIOUS
<1>1. pc[p] = "marker" /\ UNCHANGED <<file, log, dmark, seq, gone>>
  BY DEF persistCreateStart, history
<1>2. Opening(ctx[p], pc[p])
  BY <1>1 DEF Opening
<1>3. /\ s \in Sessions /\ HoldsOp(ctx[p], pc[p]) /\ ctx[p].op = "create"
      /\ cmark[s] = 0 /\ dmark[s] = 0 /\ file[s] = "none"
  BY <1>1, <1>2, OpeningAt DEF FilesAt
<1>4. cmark' = cmark \/ cmark' = [cmark EXCEPT ![s] = ctx[p].inc]
  BY DEF persistCreateStart
<1>5. ElsewhereKept(s) /\ cmark'[s] \in {0, ctx[p].inc}
  BY <1>1, <1>3, <1>4 DEF ElsewhereKept, TypeInv, DurableType
<1>6. <<s, ctx[p].inc>> \notin gone
  BY <1>2 DEF SoundInv
<1>7. SoundSession(s)
  BY <1>1, <1>3, <1>5, <1>6, MarkersSound
<1>8. CASE Return(p)
  BY <1>1, <1>3, <1>5, <1>7, <1>8, SoundFileReturn
<1>9. CASE Goto(p, "header") /\ UNCHANGED <<ctx, locks>>
  <2>1. \A c : c = ctx[p] => SoundAt(c, "header")'
    BY <1>3 DEF SoundAt
  <2> QED BY <1>1, <1>2, <1>3, <1>5, <1>7, <1>9, <2>1, SoundFileMove
<1> QED BY <1>8, <1>9 DEF persistCreateStart

LEMMA HeaderStepSound ==
  ASSUME TypeInv, TypeInv', IdentityInv, SoundInv, NEW p \in Procs,
         commitCreate(p) \/ ResumeLoads(p)
  PROVE  SoundInv'
<1> SUFFICES ASSUME NEW s, s = ctx[p].ses PROVE SoundInv'
  OBVIOUS
<1>1. pc[p] \in {"header", "resume"} /\ UNCHANGED <<dmark, seq, gone>>
  BY DEF commitCreate, ResumeLoads, history
<1>2. Opening(ctx[p], pc[p])
  BY <1>1 DEF Opening
<1>3. /\ s \in Sessions /\ HoldsOp(ctx[p], pc[p]) /\ ctx[p].op = "create"
      /\ pc[p] = "header" => file[s] = "none"
  BY <1>1, <1>2, OpeningAt DEF FilesAt
<1>4. UNCHANGED cmark \/ cmark' = [cmark EXCEPT ![s] = 0]
  BY DEF commitCreate, ResumeLoads
<1>5. \/ UNCHANGED <<file, log>>
      \/ file[s] = "none" /\ (HeaderWritten(s, Rec(p)) \/ HeaderFailed(s, Rec(p)))
  BY <1>3 DEF commitCreate, ResumeLoads
<1>6. ElsewhereKept(s) /\ cmark'[s] \in {0, cmark[s]}
  BY <1>1, <1>3, <1>4, <1>5 DEF HeaderWritten, HeaderFailed, ElsewhereKept, TypeInv, DurableType
<1>7. SoundSession(s)
  <2>1. CASE UNCHANGED <<file, log>>
    BY <1>1, <1>3, <1>6, <2>1, MarkersSound
  <2>2. CASE file[s] = "none" /\ (HeaderWritten(s, Rec(p)) \/ HeaderFailed(s, Rec(p)))
    BY <1>1, <1>2, <1>6, <2>2, HeaderSound
  <2> QED BY <1>5, <2>1, <2>2
<1>8. CASE Return(p)
  BY <1>1, <1>3, <1>6, <1>7, <1>8, SoundFileReturn
<1>9. CASE Goto(p, "reconcile") /\ UNCHANGED <<ctx, locks>>
  <2>1. ~Opening(ctx[p], "reconcile") /\ \A c : c = ctx[p] => SoundAt(c, "reconcile")'
    BY <1>3 DEF SoundAt, Opening
  <2> QED BY <1>1, <1>3, <1>6, <1>7, <1>9, <2>1, SoundFileMove
<1> QED BY <1>8, <1>9 DEF commitCreate, ResumeLoads

LEMMA finishCreateMarkerSound ==
  ASSUME TypeInv, TypeInv', IdentityInv, SoundInv, NEW p \in Procs, finishCreateMarker(p)
  PROVE  SoundInv'
<1> SUFFICES ASSUME NEW s, s = ctx[p].ses PROVE SoundInv'
  OBVIOUS
<1>1. pc[p] = "finish" /\ UNCHANGED <<file, log, dmark, seq, gone>>
  BY DEF finishCreateMarker, history
<1>2. s \in Sessions /\ HoldsOp(ctx[p], pc[p]) /\ ctx[p].op = "create"
  BY <1>1, CallerAt DEF Local, HoldsOp
<1>3. cmark' = cmark \/ cmark' = [cmark EXCEPT ![s] = 0]
  BY DEF finishCreateMarker
<1>4. ElsewhereKept(s) /\ cmark'[s] \in {0, cmark[s]}
  BY <1>1, <1>2, <1>3 DEF ElsewhereKept, TypeInv, DurableType
<1>5. SoundSession(s)
  BY <1>1, <1>2, <1>4, MarkersSound
<1>6. CASE Return(p)
  BY <1>1, <1>2, <1>4, <1>5, <1>6, SoundFileReturn
<1>7. CASE Goto(p, "done") /\ UNCHANGED <<ctx, locks>>
  <2>1. ~Opening(ctx[p], "done") /\ \A c : c = ctx[p] => SoundAt(c, "done")'
    BY <1>2 DEF SoundAt, Opening
  <2> QED BY <1>1, <1>2, <1>4, <1>5, <1>7, <2>1, SoundFileMove
<1> QED BY <1>6, <1>7 DEF finishCreateMarker

(* An event joins the incarnation its handle is of.                        *)
LEMMA appendNewEventSound ==
  ASSUME TypeInv, TypeInv', IdentityInv, SoundInv, NEW p \in Procs, appendNewEvent(p)
  PROVE  SoundInv'
<1> SUFFICES ASSUME NEW s, s = ctx[p].ses PROVE SoundInv'
  OBVIOUS
<1>1. pc[p] = "commit" /\ UNCHANGED <<file, cmark, dmark, seq, gone>>
  BY DEF appendNewEvent, history
<1>2. /\ s \in Sessions /\ HoldsOp(ctx[p], pc[p]) /\ SameIncarnation(s, ctx[p].inc)
      /\ ctx[p].op = "append"
  BY <1>1, CallerAt DEF Local, HoldsOp, IdentityInv, FilesAt
<1>3. log' = log \/ log' = [log EXCEPT ![s] = @ \cup {Rec(p)}]
  BY DEF appendNewEvent
<1>4. ElsewhereKept(s) /\ (log'[s] = log[s] \/ log'[s] = log[s] \cup {Rec(p)})
  BY <1>1, <1>2, <1>3 DEF ElsewhereKept, TypeInv, DurableType
<1>5. /\ SoundFiles(s) /\ GoneFrom(s, gone) /\ dmark[s] <= seq
      /\ \A q \in log[s] : q.ord < Rec(p).ord
  BY <1>1, <1>2 DEF SoundInv, SoundAt, Rec
<1>6. HeaderOf(s, ctx[p].inc) \in log[s] /\ Rec(p).inc = ctx[p].inc /\ Rec(p).ses = s
  BY <1>2 DEF SameIncarnation, Rec
<1>7. SoundSession(s)
  <2>1. PICK h \in log[s] : /\ h = HeaderOf(s, h.ord)
                            /\ \A r \in log[s] : r.ses = s /\ r.inc = h.ord /\ h.ord <= r.ord
                            /\ cmark[s] \in {0, h.ord} /\ dmark[s] \in {0, h.ord}
    BY <1>5, <1>6 DEF SoundFiles
  <2>2. h.ord = ctx[p].inc /\ h.ord \in Nat /\ Rec(p).ord \in Nat
    BY <1>1, <1>2, <1>6, <2>1, CallerAt DEF HeaderOf, Rec, Contexts
  <2>3. file[s] = "ok"
    BY <1>5, <1>6 DEF SoundFiles
  <2>4. \A r \in log'[s] : r.ses = s /\ r.inc = h.ord /\ h.ord <= r.ord
    BY <1>4, <1>5, <1>6, <2>1, <2>2
  <2>5. SoundFiles(s)'
    BY <1>1, <1>4, <2>1, <2>3, <2>4 DEF SoundFiles, HeaderOf
  <2>6. GoneFrom(s, gone)'
    BY <1>1, <1>4, <1>5, <1>6 DEF GoneFrom, HeaderOf
  <2> QED BY <1>1, <1>5, <2>5, <2>6 DEF SoundSession
<1>8. CASE Return(p)
  BY <1>1, <1>2, <1>4, <1>7, <1>8, SoundFileReturn
<1>9. CASE Goto(p, "reconcile") /\ UNCHANGED <<ctx, locks>>
  <2>1. ~Opening(ctx[p], "reconcile") /\ \A c : c = ctx[p] => SoundAt(c, "reconcile")'
    BY <1>2 DEF SoundAt, Opening
  <2> QED BY <1>1, <1>2, <1>4, <1>7, <1>9, <2>1, SoundFileMove
<1> QED BY <1>8, <1>9 DEF appendNewEvent

(* What a Delete knows at its labels.                                      *)
LEMMA DeleteKnows ==
  ASSUME TypeInv, IdentityInv, SoundInv, NEW p \in Procs,
         pc[p] \in {"mark", "remove", "uncreate", "unmark"}
  PROVE  /\ ctx[p].op = "delete" /\ SoundAt(ctx[p], pc[p]) /\ HoldsOp(ctx[p], pc[p])
         /\ ctx[p].ses \in Sessions /\ ctx[p].inc \in Nat
  BY CallerAt, DeleteAt DEF Local, SoundInv, Contexts

LEMMA WriteDeleteMarkerSound ==
  ASSUME TypeInv, TypeInv', IdentityInv, SoundInv, NEW p \in Procs, WriteDeleteMarker(p)
  PROVE  SoundInv'
<1> SUFFICES ASSUME NEW s, s = ctx[p].ses PROVE SoundInv'
  OBVIOUS
<1>1. pc[p] = "mark" /\ UNCHANGED <<file, log, cmark, seq, gone>>
  BY DEF WriteDeleteMarker, history
<1>2. /\ s \in Sessions /\ HoldsOp(ctx[p], pc[p]) /\ ctx[p].op = "delete" /\ ctx[p].inc <= seq
      /\ file[s] = "none" \/ (file[s] = "ok" /\ SameIncarnation(s, ctx[p].inc))
  BY <1>1, DeleteKnows DEF SoundAt, TypeInv, DurableType
<1>3. dmark' = dmark \/ dmark' = [dmark EXCEPT ![s] = ctx[p].inc]
  BY DEF WriteDeleteMarker
<1>4. ElsewhereKept(s) /\ dmark'[s] \in {dmark[s], ctx[p].inc}
  BY <1>1, <1>2, <1>3 DEF ElsewhereKept, TypeInv, DurableType
<1>5. SoundSession(s)
  BY <1>1, <1>2, <1>4, MarkersSound
<1>6. CASE Return(p)
  BY <1>1, <1>2, <1>4, <1>5, <1>6, SoundFileReturn
<1>7. CASE Goto(p, IF file[s] = "none" THEN "uncreate" ELSE "remove") /\ UNCHANGED <<ctx, locks>>
  <2>1. PICK l \in {"uncreate", "remove"} :
               Goto(p, l) /\ (l = "uncreate" => file[s] = "none") /\ (l = "remove" => file[s] = "ok")
    BY <1>2, <1>7
  <2>2. ~Opening(ctx[p], l) /\ \A c : c = ctx[p] => SoundAt(c, l)'
    BY <1>1, <1>2, <2>1 DEF SoundAt, Opening, SameIncarnation, HeaderOf
  <2> QED BY <1>1, <1>2, <1>4, <1>5, <1>7, <2>1, <2>2, SoundFileMove
<1> QED BY <1>6, <1>7 DEF WriteDeleteMarker

LEMMA removeSessionLogSound ==
  ASSUME TypeInv, TypeInv', IdentityInv, SoundInv, NEW p \in Procs, removeSessionLog(p)
  PROVE  SoundInv'
<1> SUFFICES ASSUME NEW s, s = ctx[p].ses PROVE SoundInv'
  OBVIOUS
<1>1. pc[p] = "remove" /\ UNCHANGED <<cmark, dmark, seq, gone>>
  BY DEF removeSessionLog, history
<1>2. s \in Sessions /\ HoldsOp(ctx[p], pc[p]) /\ ctx[p].op = "delete" /\ ctx[p].inc <= seq
  BY <1>1, DeleteKnows DEF SoundAt
<1>3. CASE UNCHANGED <<file, log>> /\ Return(p)
  <2>1. ElsewhereKept(s)
    BY <1>1, <1>3 DEF ElsewhereKept
  <2>2. SoundSession(s)
    BY <1>1, <1>2, <1>3, MarkersSound
  <2> QED BY <1>1, <1>2, <1>3, <2>1, <2>2, SoundFileReturn
<1>4. CASE /\ file' = [file EXCEPT ![s] = "none"] /\ log' = [log EXCEPT ![s] = {}]
           /\ Goto(p, "uncreate") /\ UNCHANGED <<ctx, locks>>
  <2>1. ElsewhereKept(s) /\ log'[s] = {} /\ file'[s] = "none"
    BY <1>1, <1>2, <1>4 DEF ElsewhereKept, TypeInv, DurableType
  <2>2. SoundSession(s)
    BY <1>1, <1>2, <2>1 DEF SoundSession, SoundFiles, GoneFrom, SoundInv
  <2>3. ~Opening(ctx[p], "uncreate") /\ \A c : c = ctx[p] => SoundAt(c, "uncreate")'
    BY <1>1, <1>2, <2>1 DEF SoundAt, Opening
  <2> QED BY <1>1, <1>2, <1>4, <2>1, <2>2, <2>3, SoundFileMove
<1> QED BY <1>3, <1>4 DEF removeSessionLog

LEMMA DeleteMarkersSound ==
  ASSUME TypeInv, TypeInv', IdentityInv, SoundInv, NEW p \in Procs,
         removeCreateMarker(p) \/ finishDeleteMarker(p)
  PROVE  SoundInv'
<1> SUFFICES ASSUME NEW s, s = ctx[p].ses PROVE SoundInv'
  OBVIOUS
<1>1. pc[p] \in {"uncreate", "unmark"} /\ UNCHANGED <<file, log, seq, gone>>
  BY DEF removeCreateMarker, finishDeleteMarker, history
<1>2. /\ s \in Sessions /\ HoldsOp(ctx[p], pc[p]) /\ ctx[p].op = "delete" /\ ctx[p].inc <= seq
      /\ file[s] = "none" /\ (pc[p] = "unmark" => cmark[s] = 0)
  BY <1>1, DeleteKnows DEF SoundAt
<1>3. /\ cmark' = cmark \/ cmark' = [cmark EXCEPT ![s] = 0]
      /\ dmark' = dmark \/ dmark' = [dmark EXCEPT ![s] = 0]
  BY DEF removeCreateMarker, finishDeleteMarker
<1>4. ElsewhereKept(s) /\ cmark'[s] \in {0, cmark[s]} /\ dmark'[s] \in {0, dmark[s]}
  BY <1>1, <1>2, <1>3 DEF ElsewhereKept, TypeInv, DurableType
<1>5. SoundSession(s)
  <2>1. dmark'[s] = dmark[s] \/ (dmark'[s] <= seq /\ file'[s] # "ok")
    BY <1>1, <1>2, <1>4 DEF TypeInv, DurableType
  <2> QED BY <1>1, <1>2, <1>4, <2>1, MarkersSound
<1>6. CASE Return(p)
  BY <1>1, <1>2, <1>4, <1>5, <1>6, SoundFileReturn
<1>7. CASE cmark' = [cmark EXCEPT ![s] = 0] /\ Goto(p, "unmark") /\ UNCHANGED <<ctx, locks>>
  <2>1. cmark'[s] = 0
    BY <1>2, <1>7 DEF TypeInv, DurableType
  <2>2. ~Opening(ctx[p], "unmark") /\ \A c : c = ctx[p] => SoundAt(c, "unmark")'
    BY <1>1, <1>2, <2>1 DEF SoundAt, Opening
  <2> QED BY <1>1, <1>2, <1>4, <1>5, <1>7, <2>2, SoundFileMove
<1>8. CASE /\ pc[p] = "unmark" /\ dmark' = [dmark EXCEPT ![s] = 0] /\ UNCHANGED cmark
           /\ Goto(p, "done") /\ UNCHANGED <<ctx, locks>>
  <2>1. dmark'[s] = 0
    BY <1>2, <1>8 DEF TypeInv, DurableType
  <2>2. ~Opening(ctx[p], "done") /\ \A c : c = ctx[p] => SoundAt(c, "done")'
    BY <1>1, <1>2, <1>8, <2>1 DEF SoundAt, Opening
  <2> QED BY <1>1, <1>2, <1>4, <1>5, <1>8, <2>2, SoundFileMove
<1> QED BY <1>6, <1>7, <1>8 DEF removeCreateMarker, finishDeleteMarker

LEMMA CrashSound ==
  ASSUME TypeInv, TypeInv', IdentityInv, SoundInv, Crash
  PROVE  SoundInv'
<1>1. /\ \A p \in Procs : pc'[p] = "idle" /\ ctx'[p] = Blank
      /\ UNCHANGED <<log, cmark, dmark, seq, gone>>
  BY DEF Crash, history
<1>2. \A s \in Sessions : \/ file'[s] = file[s]
                          \/ file[s] = "none" /\ file'[s] = "torn"
  <2>1. ASSUME NEW p \in Procs, pc[p] = "header" \/ (pc[p] = "resume" /\ file[ctx[p].ses] = "none"),
               file' = [file EXCEPT ![ctx[p].ses] = "torn"]
        PROVE  <1>2
    <3>1. file[ctx[p].ses] = "none"
      BY <2>1 DEF IdentityInv, FilesAt
    <3> QED BY <2>1, <3>1 DEF TypeInv, DurableType
  <2> QED BY <2>1 DEF Crash
<1>3. ASSUME NEW s \in Sessions PROVE SoundFiles(s)' /\ GoneFrom(s, gone)' /\ dmark'[s] <= seq'
  BY <1>1, <1>2 DEF SoundInv, SoundFiles, GoneFrom, HeaderOf
<1>4. ~Opening(Blank, "idle")
  BY DEF Opening, Blank
<1>5. ASSUME NEW q \in Procs, NEW d, NEW m, d = ctx'[q], m = pc'[q] PROVE SoundAt(d, m)'
  BY <1>1, <1>5 DEF SoundAt
<1>6. \A q \in Procs : SoundAt(ctx[q], pc[q])'
  BY <1>5, SoundPrimed
<1> QED BY <1>1, <1>3, <1>4, <1>6 DEF SoundInv, Opening

LEMMA SoundStep ==
  ASSUME "seqlost" \notin Faults, TypeInv, TypeInv', IdentityInv, SoundInv, [Next]_vars
  PROVE  SoundInv'
<1>1. CASE UNCHANGED vars
  BY <1>1, SoundStays DEF vars, durable, history
<1>2. ASSUME NEW p \in Procs, Call(p) PROVE SoundInv'
  <2>1. CASE \E s \in Sessions : CallDelete(p, s)
    BY <2>1, CallDeleteSound
  <2>2. CASE ~\E s \in Sessions : CallDelete(p, s)
    BY <1>2, <2>2, CallSound DEF Call
  <2> QED BY <2>1, <2>2
<1>3. ASSUME NEW p \in Procs, Step(p) PROVE SoundInv'
  <2>1. CASE \/ CreateRefused(p) \/ AppendRefused(p) \/ FallbackFails(p) \/ Finish(p)
             \/ CreateBegins(p) \/ readSharedProjection(p) \/ ensureRecordInventory(p)
             \/ reserveRecord(p) \/ validateReservedRecord(p) \/ AppendLoads(p)
    BY <2>1, EndsSound, FinishSound, CreateBeginsSound, readSharedProjectionSound,
       ensureRecordInventorySound, reserveRecordSound, validateReservedRecordSound, AppendLoadsSound
  <2>2. CASE \/ persistCreateStart(p) \/ commitCreate(p) \/ ResumeLoads(p) \/ finishCreateMarker(p)
             \/ appendNewEvent(p) \/ WriteDeleteMarker(p) \/ removeSessionLog(p)
             \/ removeCreateMarker(p) \/ finishDeleteMarker(p)
    BY <2>2, persistCreateStartSound, HeaderStepSound, finishCreateMarkerSound,
       appendNewEventSound, WriteDeleteMarkerSound, removeSessionLogSound, DeleteMarkersSound
  <2>3. ASSUME reconcileCommittedShared(p) \/ \E s \in Sessions : scanApp(p, s) \/ ScanEnds(p, s)
        PROVE  SoundInv'
    <3>1. CASE \E s \in Sessions : scanApp(p, s) \/ ScanEnds(p, s)
      BY <3>1, ScanningSound
    <3>2. CASE reconcileCommittedShared(p)
      <4>1. ctx[p].ses \in Sessions
        BY <3>2, CallerAt DEF reconcileCommittedShared, Local
      <4> QED BY <3>2, <4>1, ScanningSound
    <3> QED BY <2>3, <3>1, <3>2
  <2>4. CASE \/ repairShared(p) \/ RepairApp(p) \/ RepairUser(p) \/ RepairDone(p) \/ RepairFails(p)
             \/ authoritativeFallback(p) \/ FallbackToJournals(p) \/ FallbackToCache(p)
    BY <2>4, repairSharedSound, RepairSound, FallbackSound
  <2> QED BY <1>3, <2>1, <2>2, <2>3, <2>4 DEF Step
<1>4. CASE Crash
  BY <1>4, CrashSound
<1>5. ~LoseSequence
  BY DEF LoseSequence
<1> QED BY <1>1, <1>2, <1>3, <1>4, <1>5 DEF Next

LEMMA SoundImplies ==
  /\ SoundInv => TranscriptSound
  /\ TypeInv /\ SoundInv => DeletedStaysDeleted
<1>1. SoundInv => TranscriptSound
  BY DEF SoundInv, SoundFiles, TranscriptSound
<1>2. ASSUME TypeInv, SoundInv, NEW g \in gone
      PROVE  cmark[g[1]] # g[2] /\ \A r \in log[g[1]] : r.inc # g[2]
  <2>1. g[1] \in Sessions
    BY <1>2 DEF TypeInv, HistoryType
  <2> QED BY <1>2, <2>1 DEF SoundInv, GoneFrom
<1> QED BY <1>1, <1>2 DEF DeletedStaysDeleted

(* What the two theorems below and the durability of the store rest on.    *)
StoreInv == TypeInv /\ IdentityInv /\ SoundInv

LEMMA StoreInvariant ==
  ASSUME "seqlost" \notin Faults
  PROVE  (Init => StoreInv) /\ (StoreInv /\ [Next]_vars => StoreInv')
<1>1. Init => StoreInv
  BY TypeInit, IdentityInit, SoundInit DEF StoreInv
<1>2. TypeInv /\ [Next]_vars => TypeInv'
  BY TypeStep
<1>3. StoreInv /\ [Next]_vars => StoreInv'
  BY <1>2, IdentityStep, SoundStep DEF StoreInv
<1> QED BY <1>1, <1>3

(* Whatever was cut short, resumed or refused, a transcript is one         *)
(* incarnation led by its header, and the markers beside it are of that    *)
(* incarnation: no retry meets a transaction that contradicts its files.   *)
THEOREM TranscriptsAreSound ==
  ASSUME "seqlost" \notin Faults
  PROVE  Spec => []TranscriptSound
<1>1. (Init => StoreInv) /\ (StoreInv /\ [Next]_vars => StoreInv')
  BY StoreInvariant
<1>2. StoreInv => TranscriptSound
  BY SoundImplies DEF StoreInv
<1> QED BY <1>1, <1>2, PTL DEF Spec

(* No retried Create, resumed marker, stale handle or restart brings an    *)
(* incarnation back whose Delete returned success.                         *)
THEOREM DeletionsAreFinal ==
  ASSUME "seqlost" \notin Faults
  PROVE  Spec => []DeletedStaysDeleted
<1>1. (Init => StoreInv) /\ (StoreInv /\ [Next]_vars => StoreInv')
  BY StoreInvariant
<1>2. StoreInv => DeletedStaysDeleted
  BY SoundImplies DEF StoreInv
<1> QED BY <1>1, <1>2, PTL DEF Spec

(* Only appendBytes and createLog add to a transcript.                     *)
LEMMA TranscriptWriters ==
  ASSUME [Next]_vars
  PROVE  \/ UNCHANGED log
         \/ \E p \in Procs : appendNewEvent(p) \/ removeSessionLog(p) \/ commitCreate(p) \/ ResumeLoads(p)
<1>1. CASE UNCHANGED vars
  BY <1>1 DEF vars, durable
<1>2. ASSUME NEW p \in Procs, Call(p) PROVE UNCHANGED log
  BY <1>2 DEF Call, CallCreate, CallGet, CallDelete, CallAppend, CallList, durable
<1>3. ASSUME NEW p \in Procs, Step(p)
      PROVE  UNCHANGED log \/ appendNewEvent(p) \/ removeSessionLog(p) \/ commitCreate(p) \/ ResumeLoads(p)
  <2>1. CASE \/ CreateRefused(p) \/ CreateBegins(p) \/ readSharedProjection(p)
             \/ ensureRecordInventory(p) \/ reserveRecord(p) \/ persistCreateStart(p)
             \/ validateReservedRecord(p) \/ finishCreateMarker(p) \/ AppendLoads(p)
             \/ AppendRefused(p) \/ reconcileCommittedShared(p)
    BY <2>1 DEF CreateRefused, CreateBegins, readSharedProjection, ensureRecordInventory,
       reserveRecord, persistCreateStart, validateReservedRecord, finishCreateMarker, AppendLoads,
       AppendRefused, reconcileCommittedShared, durable
  <2>2. CASE \/ (\E s \in Sessions : scanApp(p, s) \/ ScanEnds(p, s))
             \/ repairShared(p) \/ RepairApp(p) \/ RepairUser(p) \/ RepairDone(p) \/ RepairFails(p)
             \/ authoritativeFallback(p) \/ FallbackToJournals(p) \/ FallbackToCache(p)
             \/ FallbackFails(p) \/ Finish(p)
    BY <2>2 DEF scanApp, ScanEnds, repairShared, RepairApp, RepairUser, RepairDone, RepairFails,
       authoritativeFallback, FallbackToJournals, FallbackToCache, FallbackFails, Finish, durable
  <2>3. CASE WriteDeleteMarker(p) \/ removeCreateMarker(p) \/ finishDeleteMarker(p)
    BY <2>3 DEF WriteDeleteMarker, removeCreateMarker, finishDeleteMarker
  <2> QED BY <1>3, <2>1, <2>2, <2>3 DEF Step
<1>4. CASE Crash \/ LoseSequence
  BY <1>4 DEF Crash, LoseSequence
<1> QED BY <1>1, <1>2, <1>3, <1>4 DEF Next

(* What joins a transcript is later than all it holds, its own order being *)
(* taken under the order lock before the transcript is written.            *)
THEOREM TranscriptsAscend ==
  ASSUME "seqlost" \notin Faults
  PROVE  Spec => TranscriptAscends
<1>1. (Init => StoreInv) /\ (StoreInv /\ [Next]_vars => StoreInv')
  BY StoreInvariant
<1>2. ASSUME StoreInv, [Next]_vars, NEW s \in Sessions, NEW r \in log'[s] \ log[s], NEW q \in log[s]
      PROVE  q.ord < r.ord
  <2>1. PICK p \in Procs : appendNewEvent(p) \/ removeSessionLog(p) \/ commitCreate(p) \/ ResumeLoads(p)
    BY <1>2, TranscriptWriters
  <2>2. TypeInv /\ IdentityInv /\ SoundInv
    BY <1>2 DEF StoreInv
  <2>3. CASE appendNewEvent(p)
    <3>1. s = ctx[p].ses /\ r = Rec(p)
      BY <1>2, <2>2, <2>3 DEF appendNewEvent, TypeInv, DurableType
    <3> QED BY <2>2, <2>3, <3>1 DEF appendNewEvent, SoundInv, SoundAt, Rec
  <2>4. CASE removeSessionLog(p)
    BY <1>2, <2>2, <2>4 DEF removeSessionLog, TypeInv, DurableType
  <2>5. CASE commitCreate(p) \/ ResumeLoads(p)
    <3>1. pc[p] \in {"header", "resume"} /\ Opening(ctx[p], pc[p])
      BY <2>5 DEF commitCreate, ResumeLoads, Opening
    <3>2. ctx[p].ses \in Sessions /\ (pc[p] = "header" => file[ctx[p].ses] = "none")
      BY <2>2, <3>1, OpeningAt DEF FilesAt
    <3>3. file[ctx[p].ses] = "none" /\ s = ctx[p].ses
      BY <1>2, <2>2, <2>5, <3>2 DEF commitCreate, ResumeLoads, HeaderWritten, HeaderFailed, TypeInv, DurableType
    <3>4. log[s] = {}
      BY <2>2, <3>3 DEF IdentityInv, NoFileNoLog
    <3> QED BY <3>4
  <2> QED BY <2>1, <2>3, <2>4, <2>5
<1>3. StoreInv /\ [Next]_vars =>
        [\A s \in Sessions : \A r \in log'[s] \ log[s] : \A q \in log[s] : q.ord < r.ord]_vars
  BY <1>2
<1> QED BY <1>1, <1>3, PTL DEF Spec, TranscriptAscends

-----------------------------------------------------------------------------
(***************************************************************************)
(* Proofs that what an acknowledged AppendEvent wrote to shared state is   *)
(* never lost (AckedDurable) and that a Get returns current state          *)
(* (ReadsAreCurrent), for every value of the constants.                    *)
(*                                                                         *)
(* Both hold of the behaviors in which no Delete stops between its marker  *)
(* and the end (DeletesRunThrough), because a Delete that is resumed from  *)
(* its marker projects nothing.  These are all behaviors of a process that *)
(* lives and whose log and marker writes succeed (DeletesDoRunThrough).    *)
(***************************************************************************)


-----------------------------------------------------------------------------
(* The durability of what was acknowledged.                                *)

(* No Delete has failed or died after it wrote its marker.                 *)
DeletesRunThrough ==
  \A s \in Sessions : dmark[s] # 0 =>
    \E p \in Procs : ctx[p].ses = s /\ pc[p] \in {"remove", "uncreate", "unmark"}

(* The deltas of r are in the records S or in the journals.                *)
Covered(r, S, app, usr) ==
  /\ r \in app \cup S
  /\ r.ev \in UserEvents => r \in usr[Owner(r)] \cup S

(* Rec of the local variables c.                                           *)
Recorded(c) == [ord |-> c.ord, ses |-> c.ses, inc |-> c.inc, ev |-> c.ev]

DurableAt(c, l) ==
  /\ c.op \in {"create", "append"} /\ l \in Late => Recorded(c) \in log[c.ses]
  /\ c.op = "delete" /\ l \in {"scan", "project", "repair"} /\ c.ses \notin c.todo =>
       \A r \in log[c.ses] : Covered(r, c.scan, appJ, userJ)
  /\ c.op = "delete" /\ l \in {"mark", "remove"} =>
       \A r \in log[c.ses] : Covered(r, {}, appJ, userJ)
  /\ l \in {"project", "repair", "refallback", "fallback"} => c.todo = {}

DurableInv ==
  /\ \A r \in acked : Covered(r, log[r.ses], appJ, userJ)
  /\ \A p \in Procs : DurableAt(ctx[p], pc[p])

LEMMA DurableInit == Init => DurableInv
<1> SUFFICES ASSUME Init PROVE DurableInv
  OBVIOUS
<1>1. acked = {} /\ \A p \in Procs : pc[p] = "idle"
  BY DEF Init
<1>2. \A p \in Procs : DurableAt(ctx[p], pc[p])
  BY <1>1 DEF DurableAt, Late
<1> QED BY <1>1, <1>2 DEF DurableInv

JournalsGrow == appJ \subseteq appJ' /\ \A u \in Users : userJ[u] \subseteq userJ'[u]

LEMMA JournalsOnlyGrow ==
  ASSUME TypeInv, [Next]_vars
  PROVE  JournalsGrow
<1>1. CASE Untouched
  BY <1>1 DEF Untouched, JournalsGrow
<1>2. ASSUME NEW p \in Procs, RepairApp(p) PROVE JournalsGrow
  BY <1>2 DEF RepairApp, JournalsGrow
<1>3. ASSUME NEW p \in Procs, RepairUser(p) PROVE JournalsGrow
  BY <1>3 DEF RepairUser, JournalsGrow, TypeInv, DurableType
<1> QED BY <1>1, <1>2, <1>3, JournalWriters

(* What is covered stays covered.                                          *)
LEMMA CoveredGrows ==
  ASSUME JournalsGrow, NEW r, r.ses \in Sessions, NEW S, NEW T,
         Covered(r, S, appJ, userJ), \A q \in S : q = r => q \in T
  PROVE  Covered(r, T, appJ', userJ')
<1>1. Owner(r) \in Users
  BY DEF Owner
<1> QED BY <1>1 DEF Covered, JournalsGrow

LEMMA DurablePrimed ==
  ASSUME NEW q \in Procs, NEW d, NEW m, d = ctx'[q], m = pc'[q], DurableAt(d, m)'
  PROVE  DurableAt(ctx[q], pc[q])'
  BY DEF DurableAt, Recorded

(* Records of a transcript have the session of the transcript.             *)
LEMMA RecordsOf ==
  ASSUME StoreInv, NEW s \in Sessions, NEW r \in log[s]
  PROVE  r \in Records /\ r.ses = s
  BY DEF StoreInv, SoundInv, SoundFiles, TypeInv, DurableType, RecSets

LEMMA DurableAtKept ==
  ASSUME StoreInv, NEW d, NEW m, DurableAt(d, m), JournalsGrow,
         d.ses \in Sessions \/ d.op \notin {"create", "append", "delete"}, log'[d.ses] = log[d.ses]
  PROVE  DurableAt(d, m)'
<1>1. CASE d.ses \in Sessions
  <2>1. \A r \in log[d.ses] : r.ses \in Sessions
    BY <1>1, RecordsOf DEF Records
  <2>2. ASSUME NEW r \in log[d.ses], NEW S, Covered(r, S, appJ, userJ)
        PROVE  Covered(r, S, appJ', userJ')
    BY <2>1, <2>2, CoveredGrows
  <2> QED BY <2>2 DEF DurableAt, Recorded
<1>2. CASE d.op \notin {"create", "append", "delete"}
  BY <1>2 DEF DurableAt
<1> QED BY <1>1, <1>2

(* A step of p that may change the transcript of a session whose mutex it  *)
(* holds; a record that leaves a transcript is in the journals.            *)
LEMMA DurableMove ==
  ASSUME StoreInv, DurableInv, JournalsGrow, NEW p \in Procs, NEW c, NEW l, NEW s,
         pc' = [pc EXCEPT ![p] = l], ctx' = [ctx EXCEPT ![p] = c], UNCHANGED acked,
         UNCHANGED log \/ (s = ctx[p].ses /\ HoldsOp(ctx[p], pc[p])),
         \A t \in Sessions : t # s => log'[t] = log[t],
         s \in Sessions => \A r \in log[s] : r \in log'[s] \/ Covered(r, {}, appJ, userJ),
         DurableAt(c, l)'
  PROVE  DurableInv'
<1> USE DEF StoreInv
<1>0. \A q \in Procs : \/ q = p /\ ctx'[q] = c /\ pc'[q] = l
                       \/ q # p /\ ctx'[q] = ctx[q] /\ pc'[q] = pc[q]
  BY DEF TypeInv, CallersType
<1>1. ASSUME NEW r \in acked PROVE Covered(r, log'[r.ses], appJ', userJ')
  <2>1. r.ses \in Sessions /\ Covered(r, log[r.ses], appJ, userJ)
    BY DEF DurableInv, TypeInv, HistoryType, RecSets, Records
  <2>2. r \in log[r.ses] => r \in log'[r.ses] \/ Covered(r, {}, appJ, userJ)
    BY <2>1
  <2> QED BY <2>1, <2>2, CoveredGrows
<1>2. ASSUME NEW q \in Procs, NEW d, NEW m, d = ctx'[q], m = pc'[q] PROVE DurableAt(d, m)'
  <2>1. CASE q = p
    <3>1. d = c /\ m = l
      BY <1>0, <1>2, <2>1
    <3> QED BY <3>1
  <2>2. CASE q # p
    <3>1. d = ctx[q] /\ m = pc[q]
      BY <1>0, <1>2, <2>2
    <3>2. DurableAt(d, m) /\ Local(d, m)
      BY <3>1, CallerAt DEF DurableInv
    <3>3. CASE HoldsOp(d, m)
      <4>1. d.ses \in Sessions
        BY <3>1, <3>3, HolderHasSession
      <4>2. s # d.ses \/ UNCHANGED log
        BY <2>2, <3>1, <3>3 DEF IdentityInv, LocksHeld
      <4>3. log'[d.ses] = log[d.ses]
        BY <4>1, <4>2
      <4> QED BY <3>2, <4>1, <4>3, DurableAtKept
    <3>4. CASE ~HoldsOp(d, m)
      BY <3>2, <3>4 DEF DurableAt, Local, HoldsOp, Late
    <3> QED BY <3>3, <3>4
  <2> QED BY <2>1, <2>2
<1>3. \A q \in Procs : DurableAt(ctx[q], pc[q])'
  BY <1>2, DurablePrimed
<1>4. \A r \in acked' : Covered(r, log[r.ses], appJ, userJ)'
  BY <1>1 DEF Covered, Owner
<1> QED BY <1>3, <1>4 DEF DurableInv

(* A step of p that leaves the transcripts alone.                          *)
LEMMA DurableQuiet ==
  ASSUME StoreInv, DurableInv, JournalsGrow, NEW p \in Procs, NEW c, NEW l,
         pc' = [pc EXCEPT ![p] = l], ctx' = [ctx EXCEPT ![p] = c],
         UNCHANGED <<log, acked>>, DurableAt(c, l)'
  PROVE  DurableInv'
  BY DurableMove

LEMMA DurableReturn ==
  ASSUME StoreInv, DurableInv, JournalsGrow, NEW p \in Procs, Return(p), UNCHANGED <<log, acked>>
  PROVE  DurableInv'
<1> SUFFICES ASSUME NEW c, NEW l, c = Blank, l = "idle" PROVE DurableInv'
  OBVIOUS
<1>1. pc' = [pc EXCEPT ![p] = l] /\ ctx' = [ctx EXCEPT ![p] = c]
  BY DEF Return, Goto, SetCtx
<1>2. DurableAt(c, l)'
  BY DEF DurableAt, Late, Blank
<1> QED BY <1>1, <1>2, DurableQuiet

(* p has not committed anything yet.                                       *)
Early == {"create", "append", "baseline", "reserve", "validate", "marker", "commit", "header", "resume",
          "uncreate", "unmark"}

LEMMA DurableEarly ==
  ASSUME StoreInv, DurableInv, JournalsGrow, NEW p \in Procs, NEW c, NEW l \in Early,
         pc' = [pc EXCEPT ![p] = l], ctx' = [ctx EXCEPT ![p] = c], UNCHANGED <<log, acked>>
  PROVE  DurableInv'
<1>1. DurableAt(c, l)'
  BY DEF DurableAt, Early, Late
<1> QED BY <1>1, DurableQuiet

(* p goes on with its work on the shared state.                            *)
LEMMA DurableLate ==
  ASSUME StoreInv, DurableInv, JournalsGrow, NEW p \in Procs, NEW c, NEW l \in Late,
         pc' = [pc EXCEPT ![p] = l], ctx' = [ctx EXCEPT ![p] = c], UNCHANGED <<log, acked>>,
         pc[p] \in Late, c.op = ctx[p].op, Recorded(c) = Recorded(ctx[p]),
         l \in {"project", "repair", "refallback", "fallback"} => c.todo = {},
         c.op = "delete" /\ l \in {"scan", "project", "repair"} /\ c.ses \notin c.todo =>
           \A r \in log[c.ses] : Covered(r, c.scan, appJ, userJ),
         c.op = "delete" /\ l \in {"mark", "remove"} => \A r \in log[c.ses] : Covered(r, {}, appJ, userJ)
  PROVE  DurableInv'
<1>1. c.ses = ctx[p].ses
  BY DEF Recorded
<1>2. c.op \in {"create", "append"} => Recorded(c) \in log[c.ses]
  BY <1>1 DEF DurableInv, DurableAt
<1>3. DurableAt(c, l)
  BY <1>2 DEF DurableAt
<1>4. c.ses \in Sessions \/ c.op \notin {"create", "append", "delete"}
  BY <1>1, CallerAt DEF StoreInv, Local, Late
<1>5. DurableAt(c, l)'
  BY <1>3, <1>4, DurableAtKept
<1> QED BY <1>5, DurableQuiet

LEMMA DurableStays ==
  ASSUME StoreInv, DurableInv, JournalsGrow, UNCHANGED <<log, acked, pc, ctx>>
  PROVE  DurableInv'
<1>1. ASSUME NEW q \in Procs, NEW d, NEW m, d = ctx'[q], m = pc'[q] PROVE DurableAt(d, m)'
  <2>1. DurableAt(d, m) /\ Local(d, m)
    BY <1>1, CallerAt DEF DurableInv, StoreInv
  <2>2. CASE m = "idle"
    BY <2>2 DEF DurableAt, Late
  <2>3. CASE m # "idle"
    <3>1. d.ses \in Sessions \/ d.op \notin {"create", "append", "delete"}
      BY <2>1, <2>3 DEF Local
    <3> QED BY <2>1, <3>1, DurableAtKept
  <2> QED BY <2>2, <2>3
<1>2. \A q \in Procs : DurableAt(ctx[q], pc[q])'
  BY <1>1, DurablePrimed
<1>3. ASSUME NEW r \in acked PROVE Covered(r, log[r.ses], appJ', userJ')
  <2>1. r.ses \in Sessions /\ Covered(r, log[r.ses], appJ, userJ)
    BY DEF StoreInv, DurableInv, TypeInv, HistoryType, RecSets, Records
  <2> QED BY <2>1, CoveredGrows
<1>4. \A r \in acked' : Covered(r, log[r.ses], appJ, userJ)'
  BY <1>3 DEF Covered, Owner
<1> QED BY <1>2, <1>4 DEF DurableInv

LEMMA CallDurable ==
  ASSUME StoreInv, DurableInv, JournalsGrow, NEW p \in Procs,
         CallList(p) \/ (\E s \in Sessions : CallCreate(p, s) \/ CallGet(p, s))
           \/ (\E h \in handles, e \in Events : CallAppend(p, h, e))
  PROVE  DurableInv'
<1> DEFINE Starts(c, l) == /\ pc' = [pc EXCEPT ![p] = l] /\ ctx' = [ctx EXCEPT ![p] = c]
                           /\ \/ l \in {"create", "append", "baseline"}
                              \/ l = "scan" /\ c.op \in {"get", "list"}
<1>1. UNCHANGED <<log, acked>>
  BY DEF CallList, CallCreate, CallGet, CallAppend, durable, history
<1>2. ASSUME NEW c, NEW l, Starts(c, l) PROVE DurableInv'
  <2>1. DurableAt(c, l)'
    BY <1>2 DEF DurableAt, Late
  <2> QED BY <1>1, <1>2, <2>1, DurableQuiet
<1>3. CASE CallList(p)
  <2>1. ASSUME NEW c, c = [Called("list", NULL, NULL) EXCEPT !.todo = Sessions] PROVE c.op = "list"
    BY <2>1 DEF Called, Blank
  <2>2. \E c : Starts(c, "scan")
    BY <1>3, <2>1 DEF CallList, Goto, SetCtx
  <2> QED BY <1>2, <2>2
<1>4. CASE \E s \in Sessions : CallCreate(p, s)
  <2>1. \E c : Starts(c, "create")
    BY <1>4 DEF CallCreate, Goto, SetCtx
  <2> QED BY <1>2, <2>1
<1>5. CASE \E s \in Sessions : CallGet(p, s)
  <2>1. ASSUME NEW s, NEW c, c = [Called("get", s, UserOf[s]) EXCEPT !.todo = Sessions] PROVE c.op = "get"
    BY <2>1 DEF Called, Blank
  <2>2. \E c : Starts(c, "scan")
    BY <1>5, <2>1 DEF CallGet, Goto, SetCtx
  <2> QED BY <1>2, <2>2
<1>6. CASE \E h \in handles, e \in Events : CallAppend(p, h, e)
  <2>1. \E c, l : Starts(c, l)
    BY <1>6 DEF CallAppend, Goto, SetCtx
  <2> QED BY <1>2, <2>1
<1> QED BY <1>3, <1>4, <1>5, <1>6

(* No Delete finds a marker of an earlier one, so none skips its scan.     *)
LEMMA CallDeleteDurable ==
  ASSUME StoreInv, DurableInv, JournalsGrow, DeletesRunThrough,
         NEW p \in Procs, NEW s \in Sessions, CallDelete(p, s)
  PROVE  DurableInv'
<1> USE DEF StoreInv
<1>1. UNCHANGED <<log, acked>>
  BY DEF CallDelete, durable, history
<1>2. dmark[s] = 0
  <2> SUFFICES ASSUME dmark[s] # 0 PROVE FALSE
    OBVIOUS
  <2>1. PICK q \in Procs : ctx[q].ses = s /\ pc[q] \in {"remove", "uncreate", "unmark"}
    BY DEF DeletesRunThrough
  <2>2. HoldsOp(ctx[q], pc[q])
    BY <2>1, DeleteAt
  <2>3. opL[s] = q
    BY <2>1, <2>2 DEF IdentityInv, LocksHeld
  <2> QED BY <2>3 DEF CallDelete, TakeOp
<1> DEFINE Starts(c, l) == /\ pc' = [pc EXCEPT ![p] = l] /\ ctx' = [ctx EXCEPT ![p] = c]
                           /\ c.ses = s /\ c.op = "delete"
                           /\ \/ l = "mark" /\ file[s] = "none"
                              \/ l = "scan" /\ s \in c.todo
<1>3. \E c, l : Starts(c, l)
  <2> DEFINE call(i) == [Called("delete", s, UserOf[s]) EXCEPT !.inc = i]
             listed(i) == [call(i) EXCEPT !.todo = Sessions]
  <2>1. \A i : call(i).ses = s /\ call(i).op = "delete"
    BY DEF Called, Blank
  <2>2. \A i : listed(i).ses = s /\ listed(i).op = "delete" /\ listed(i).todo = Sessions
    BY DEF Called, Blank
  <2>3. \/ file[s] = "none" /\ \E i : SetCtx(p, call(i)) /\ Goto(p, "mark")
        \/ \E i : SetCtx(p, listed(i)) /\ Goto(p, "scan")
    BY <1>2 DEF CallDelete
  <2> HIDE DEF call, listed
  <2>4. ASSUME NEW i, file[s] = "none", SetCtx(p, call(i)), Goto(p, "mark") PROVE \E c, m : Starts(c, m)
    <3>1. Starts(call(i), "mark")
      BY <2>1, <2>4 DEF SetCtx, Goto
    <3> QED BY <3>1
  <2>5. ASSUME NEW i, SetCtx(p, listed(i)), Goto(p, "scan") PROVE \E c, m : Starts(c, m)
    <3>1. Starts(listed(i), "scan")
      BY <2>2, <2>5 DEF SetCtx, Goto
    <3> QED BY <3>1
  <2> QED BY <2>3, <2>4, <2>5
<1>4. ASSUME NEW c, NEW l, Starts(c, l) PROVE DurableInv'
  <2>1. l = "mark" => log[c.ses] = {}
    BY <1>4 DEF IdentityInv, NoFileNoLog
  <2>2. DurableAt(c, l)'
    BY <1>1, <1>4, <2>1 DEF DurableAt, Late
  <2> QED BY <1>1, <1>4, <2>2, DurableQuiet
<1> QED BY <1>3, <1>4

LEMMA EndsDurable ==
  ASSUME StoreInv, DurableInv, JournalsGrow, NEW p \in Procs,
         CreateRefused(p) \/ AppendRefused(p) \/ FallbackFails(p)
  PROVE  DurableInv'
<1>1. Return(p) /\ UNCHANGED <<log, acked>>
  BY DEF CreateRefused, AppendRefused, FallbackFails, durable, history
<1> QED BY <1>1, DurableReturn

(* The steps of a Create or AppendEvent before its record is committed.    *)
LEMMA EarlyStepsDurable ==
  ASSUME StoreInv, DurableInv, JournalsGrow, NEW p \in Procs,
         \/ CreateBegins(p) \/ readSharedProjection(p) \/ ensureRecordInventory(p)
         \/ reserveRecord(p) \/ persistCreateStart(p) \/ validateReservedRecord(p)
  PROVE  DurableInv'
<1>1. UNCHANGED <<log, acked>>
  BY DEF CreateBegins, readSharedProjection, ensureRecordInventory, reserveRecord,
     persistCreateStart, validateReservedRecord, durable, history
<1>2. ctx = [ctx EXCEPT ![p] = ctx[p]]
  BY DEF StoreInv, TypeInv, CallersType
<1>3. ASSUME NEW l \in Early, Goto(p, l), UNCHANGED ctx \/ \E c : SetCtx(p, c) PROVE DurableInv'
  <2>1. \E c : ctx' = [ctx EXCEPT ![p] = c]
    BY <1>2, <1>3 DEF SetCtx
  <2>2. pc' = [pc EXCEPT ![p] = l]
    BY <1>3 DEF Goto
  <2> QED BY <1>1, <2>1, <2>2, DurableEarly
<1>4. CASE CreateBegins(p)
  <2>1. Goto(p, "baseline") /\ \E c : SetCtx(p, c)
    BY <1>4 DEF CreateBegins
  <2> QED BY <1>3, <2>1 DEF Early
<1>5. CASE readSharedProjection(p)
  <2>1. Return(p) \/ (UNCHANGED ctx /\ \E l \in Early : Goto(p, l))
    <3> DEFINE next == CASE ctx[p].op = "append" -> "append"
                         [] ctx[p].inc = 0 -> "reserve"
                         [] OTHER -> "validate"
    <3>1. next \in Early
      BY DEF Early
    <3> QED BY <1>5, <3>1 DEF readSharedProjection
  <2> QED BY <1>1, <1>3, <2>1, DurableReturn
<1>6. CASE ensureRecordInventory(p)
  <2>1. Return(p) \/ UNCHANGED <<pc, ctx>>
    BY <1>6 DEF ensureRecordInventory
  <2> QED BY <1>1, <2>1, DurableReturn, DurableStays
<1>7. CASE reserveRecord(p)
  <2>1. Return(p) \/ ((\E c : SetCtx(p, c)) /\ \E l \in Early : Goto(p, l))
    BY <1>7 DEF reserveRecord, Early
  <2> QED BY <1>1, <1>3, <2>1, DurableReturn
<1>8. CASE persistCreateStart(p)
  <2>1. Return(p) \/ (UNCHANGED ctx /\ Goto(p, "header"))
    BY <1>8 DEF persistCreateStart
  <2> QED BY <1>1, <1>3, <2>1, DurableReturn DEF Early
<1>9. CASE validateReservedRecord(p)
  <2>1. Return(p) \/ (UNCHANGED ctx /\ Goto(p, "resume"))
    BY <1>9 DEF validateReservedRecord
  <2> QED BY <1>1, <1>3, <2>1, DurableReturn DEF Early
<1> QED BY <1>4, <1>5, <1>6, <1>7, <1>8, <1>9

(* p, which holds the op mutex of its session, changes the transcript.     *)
LEMMA DurableWrite ==
  ASSUME StoreInv, DurableInv, JournalsGrow, NEW p \in Procs, NEW s, s = ctx[p].ses,
         HoldsOp(ctx[p], pc[p]), UNCHANGED acked,
         \A t \in Sessions : t # s => log'[t] = log[t],
         \A r \in log[s] : r \in log'[s] \/ Covered(r, {}, appJ, userJ),
         \/ Return(p)
         \/ \E l : Goto(p, l) /\ UNCHANGED ctx /\ \A c : c = ctx[p] => DurableAt(c, l)'
  PROVE  DurableInv'
<1>1. CASE Return(p)
  <2> SUFFICES ASSUME NEW c, NEW l, c = Blank, l = "idle" PROVE DurableInv'
    OBVIOUS
  <2>1. pc' = [pc EXCEPT ![p] = l] /\ ctx' = [ctx EXCEPT ![p] = c]
    BY <1>1 DEF Return, Goto, SetCtx
  <2>2. DurableAt(c, l)'
    BY DEF DurableAt, Late, Blank
  <2> QED BY <2>1, <2>2, DurableMove
<1>2. ASSUME NEW l, Goto(p, l), UNCHANGED ctx, \A c : c = ctx[p] => DurableAt(c, l)'
      PROVE  DurableInv'
  <2> SUFFICES ASSUME NEW c, c = ctx[p] PROVE DurableInv'
    OBVIOUS
  <2>1. pc' = [pc EXCEPT ![p] = l] /\ ctx' = [ctx EXCEPT ![p] = c]
    BY <1>2 DEF Goto, StoreInv, TypeInv, CallersType
  <2>2. DurableAt(c, l)'
    BY <1>2
  <2> QED BY <2>1, <2>2, DurableMove
<1> QED BY <1>1, <1>2

LEMMA HeaderStepDurable ==
  ASSUME StoreInv, DurableInv, JournalsGrow, NEW p \in Procs, commitCreate(p) \/ ResumeLoads(p)
  PROVE  DurableInv'
<1> SUFFICES ASSUME NEW s, s = ctx[p].ses PROVE DurableInv'
  OBVIOUS
<1> USE DEF StoreInv
<1>1. pc[p] \in {"header", "resume"} /\ UNCHANGED acked
  BY DEF commitCreate, ResumeLoads, history
<1>2. Opening(ctx[p], pc[p])
  BY <1>1 DEF Opening
<1>3. /\ s \in Sessions /\ HoldsOp(ctx[p], pc[p]) /\ ctx[p].op = "create"
      /\ pc[p] = "header" => file[s] = "none"
      /\ cmark[s] = ctx[p].inc /\ Rec(p) = HeaderOf(s, ctx[p].inc)
  BY <1>1, <1>2, OpeningAt DEF FilesAt
<1>4. \/ UNCHANGED log
      \/ file[s] = "none" /\ log' = [log EXCEPT ![s] = {Rec(p)}]
  BY <1>3 DEF commitCreate, ResumeLoads, HeaderFailed, HeaderWritten
<1>5. (\A t \in Sessions : t # s => log'[t] = log[t]) /\ \A r \in log[s] : r \in log'[s]
  BY <1>3, <1>4 DEF IdentityInv, NoFileNoLog, TypeInv, DurableType
<1>6. CASE Return(p)
  BY <1>1, <1>3, <1>5, <1>6, DurableWrite
<1>7. CASE ~Return(p)
  <2>1. /\ Goto(p, "reconcile") /\ UNCHANGED ctx
        /\ \/ HeaderWritten(s, Rec(p))
           \/ SameIncarnation(s, cmark[s]) /\ UNCHANGED log
    BY <1>7 DEF commitCreate, ResumeLoads
  <2>2. Rec(p) \in log'[s]
    BY <1>3, <2>1 DEF HeaderWritten, SameIncarnation, TypeInv, DurableType
  <2>3. ASSUME NEW c, c = ctx[p] PROVE DurableAt(c, "reconcile")'
    <3>1. Recorded(c) \in log'[c.ses]
      BY <2>2, <2>3 DEF Recorded, Rec
    <3> QED BY <1>3, <2>3, <3>1 DEF DurableAt, Recorded
  <2> QED BY <1>1, <1>3, <1>5, <2>1, <2>3, DurableWrite
<1> QED BY <1>6, <1>7

LEMMA appendNewEventDurable ==
  ASSUME StoreInv, DurableInv, JournalsGrow, NEW p \in Procs, appendNewEvent(p)
  PROVE  DurableInv'
<1> SUFFICES ASSUME NEW s, s = ctx[p].ses PROVE DurableInv'
  OBVIOUS
<1> USE DEF StoreInv
<1>1. pc[p] = "commit" /\ UNCHANGED acked
  BY DEF appendNewEvent, history
<1>2. s \in Sessions /\ HoldsOp(ctx[p], pc[p]) /\ ctx[p].op = "append"
  BY <1>1, CallerAt DEF Local, HoldsOp
<1>3. UNCHANGED log \/ log' = [log EXCEPT ![s] = @ \cup {Rec(p)}]
  BY DEF appendNewEvent
<1>4. (\A t \in Sessions : t # s => log'[t] = log[t]) /\ \A r \in log[s] : r \in log'[s]
  BY <1>2, <1>3 DEF TypeInv, DurableType
<1>5. CASE Return(p)
  BY <1>1, <1>2, <1>4, <1>5, DurableWrite
<1>6. CASE ~Return(p)
  <2>1. Goto(p, "reconcile") /\ UNCHANGED ctx /\ Rec(p) \in log'[s]
    BY <1>2, <1>6 DEF appendNewEvent, TypeInv, DurableType
  <2>2. ASSUME NEW c, c = ctx[p] PROVE DurableAt(c, "reconcile")'
    <3>1. Recorded(c) \in log'[c.ses]
      BY <2>1, <2>2 DEF Recorded, Rec
    <3> QED BY <1>2, <2>2, <3>1 DEF DurableAt, Recorded
  <2> QED BY <1>1, <1>2, <1>4, <2>1, <2>2, DurableWrite
<1> QED BY <1>5, <1>6

(* A known event of the handle's incarnation is the record it looks for.   *)
LEMMA AppendLoadsDurable ==
  ASSUME StoreInv, DurableInv, JournalsGrow, NEW p \in Procs, AppendLoads(p)
  PROVE  DurableInv'
<1> SUFFICES ASSUME NEW s, s = ctx[p].ses PROVE DurableInv'
  OBVIOUS
<1> USE DEF StoreInv
<1>1. UNCHANGED <<log, acked>> /\ file[s] = "ok" /\ SameIncarnation(s, ctx[p].inc)
  BY DEF AppendLoads, durable, history
<1>2. ctx[p] \in Contexts /\ ctx[p].op = "append" /\ s \in Sessions
  BY CallerAt DEF AppendLoads, Local
<1>3. CASE Goto(p, "reserve") /\ UNCHANGED ctx
  <2>1. pc' = [pc EXCEPT ![p] = "reserve"] /\ ctx' = [ctx EXCEPT ![p] = ctx[p]]
    BY <1>3 DEF Goto, TypeInv, CallersType
  <2> QED BY <1>1, <2>1, DurableEarly DEF Early
<1>4. ASSUME NEW r \in eventByID(s, ctx[p].ev), SetCtx(p, [ctx[p] EXCEPT !.ord = r.ord]), Goto(p, "reconcile")
      PROVE  DurableInv'
  <2> SUFFICES ASSUME NEW c, c = [ctx[p] EXCEPT !.ord = r.ord] PROVE DurableInv'
    OBVIOUS
  <2>1. c.op = "append" /\ c.ses = s /\ c.inc = ctx[p].inc /\ c.ev = ctx[p].ev /\ c.ord = r.ord
    BY <1>2 DEF Contexts
  <2>2. r \in log[s] /\ r.ev = c.ev /\ r \in Records /\ r.ses = s
    BY <1>2, <1>4, <2>1, RecordsOf DEF eventByID
  <2>3. r.inc = c.inc
    BY <1>1, <1>2, <2>1, <2>2 DEF SoundInv, SoundFiles, SameIncarnation, HeaderOf
  <2>4. Recorded(c) = r
    BY <2>1, <2>2, <2>3 DEF Recorded, Records
  <2>5. DurableAt(c, "reconcile")'
    <3>1. Recorded(c) \in log'[c.ses]
      BY <1>1, <2>1, <2>2, <2>4
    <3> QED BY <2>1, <3>1 DEF DurableAt, Recorded
  <2>6. pc' = [pc EXCEPT ![p] = "reconcile"] /\ ctx' = [ctx EXCEPT ![p] = c]
    BY <1>4 DEF Goto, SetCtx
  <2> QED BY <1>1, <2>5, <2>6, DurableQuiet
<1> QED BY <1>3, <1>4 DEF AppendLoads

LEMMA finishCreateMarkerDurable ==
  ASSUME StoreInv, DurableInv, JournalsGrow, NEW p \in Procs, finishCreateMarker(p)
  PROVE  DurableInv'
<1>1. pc[p] = "finish" /\ UNCHANGED <<log, acked>> /\ ctx[p].op = "create"
  BY CallerAt DEF finishCreateMarker, history, StoreInv, Local
<1>2. CASE Return(p)
  BY <1>1, <1>2, DurableReturn
<1>3. CASE Goto(p, "done") /\ UNCHANGED ctx
  <2>1. pc' = [pc EXCEPT ![p] = "done"] /\ ctx' = [ctx EXCEPT ![p] = ctx[p]]
    BY <1>3 DEF Goto, StoreInv, TypeInv, CallersType
  <2> QED BY <1>1, <2>1, DurableLate DEF Late
<1> QED BY <1>2, <1>3 DEF finishCreateMarker

LEMMA reconcileDurable ==
  ASSUME StoreInv, DurableInv, JournalsGrow, NEW p \in Procs, reconcileCommittedShared(p)
  PROVE  DurableInv'
<1> SUFFICES ASSUME NEW c, c = [ctx[p] EXCEPT !.todo = Sessions] PROVE DurableInv'
  OBVIOUS
<1>1. pc[p] = "reconcile" /\ UNCHANGED <<log, acked>> /\ ctx[p] \in Contexts /\ ctx[p].op # "delete"
  BY CallerAt DEF reconcileCommittedShared, durable, history, StoreInv, Local
<1>2. c.op = ctx[p].op /\ Recorded(c) = Recorded(ctx[p])
  BY <1>1 DEF Contexts, Recorded
<1>3. pc' = [pc EXCEPT ![p] = "scan"] /\ ctx' = [ctx EXCEPT ![p] = c]
  BY DEF reconcileCommittedShared, Goto, SetCtx
<1> QED BY <1>1, <1>2, <1>3, DurableLate DEF Late

(* A Delete has scanned its own transcript when none is left to scan.      *)
LEMMA scanAppDurable ==
  ASSUME StoreInv, DurableInv, JournalsGrow, NEW p \in Procs, NEW s \in Sessions, scanApp(p, s)
  PROVE  DurableInv'
<1> DEFINE found == IF file[s] = "ok" THEN ctx[p].scan \cup log[s] ELSE ctx[p].scan
           last == ctx[p].todo = {s}
<1> SUFFICES ASSUME NEW c, NEW l,
                    c = [ctx[p] EXCEPT !.todo = @ \ {s}, !.scan = found,
                          !.left = IF last /\ ctx[p].op = "list" THEN UsersIn(found) ELSE @],
                    l = IF last THEN AfterScan(p) ELSE "scan"
             PROVE  DurableInv'
  OBVIOUS
<1>1. pc[p] = "scan" /\ UNCHANGED <<log, acked>> /\ ctx[p] \in Contexts /\ s \in ctx[p].todo
  BY CallerAt DEF scanApp, durable, history, StoreInv
<1>2. /\ c.op = ctx[p].op /\ Recorded(c) = Recorded(ctx[p]) /\ c.ses = ctx[p].ses
      /\ c.todo = ctx[p].todo \ {s} /\ c.scan = found
  BY <1>1 DEF Contexts, Recorded
<1>3. pc' = [pc EXCEPT ![p] = l] /\ ctx' = [ctx EXCEPT ![p] = c] /\ l \in {"scan", "repair", "project"}
  BY DEF scanApp, Goto, SetCtx, AfterScan
<1>4. l \in {"project", "repair", "refallback", "fallback"} => c.todo = {}
  BY <1>2 DEF AfterScan
<1>5. ASSUME c.op = "delete", c.ses \notin c.todo
      PROVE  \A r \in log[c.ses] : Covered(r, c.scan, appJ, userJ)
  <2>1. CASE c.ses = s
    <3>1. file[s] = "ok"
      BY <1>1, <1>2, <1>5, <2>1 DEF StoreInv, SoundInv, SoundAt
    <3> QED BY <1>2, <2>1, <3>1 DEF Covered
  <2>2. CASE c.ses # s
    <3>1. \A r \in log[c.ses] : Covered(r, ctx[p].scan, appJ, userJ)
      BY <1>1, <1>2, <1>5, <2>2 DEF DurableInv, DurableAt
    <3> QED BY <1>2, <3>1 DEF Covered
  <2> QED BY <2>1, <2>2
<1> HIDE DEF found, last
<1> QED BY <1>1, <1>2, <1>3, <1>4, <1>5, DurableLate DEF Late

LEMMA ScanEndsDurable ==
  ASSUME StoreInv, DurableInv, JournalsGrow, NEW p \in Procs, NEW s \in Sessions, ScanEnds(p, s)
  PROVE  DurableInv'
<1>1. pc[p] = "scan" /\ UNCHANGED <<log, acked>> /\ ctx[p] \in Contexts
  BY CallerAt DEF ScanEnds, durable, history, StoreInv
<1>2. CASE Return(p)
  BY <1>1, <1>2, DurableReturn
<1>3. CASE ~Return(p)
  <2> SUFFICES ASSUME NEW c, c = [ctx[p] EXCEPT !.todo = {}, !.scan = pending] PROVE DurableInv'
    OBVIOUS
  <2>1. Reconciling(p) /\ pc' = [pc EXCEPT ![p] = "fallback"] /\ ctx' = [ctx EXCEPT ![p] = c]
    BY <1>3 DEF ScanEnds, Goto, SetCtx
  <2>2. c.op = ctx[p].op /\ Recorded(c) = Recorded(ctx[p]) /\ c.todo = {} /\ c.op # "delete"
    BY <1>1, <2>1 DEF Contexts, Recorded, Reconciling
  <2> QED BY <1>1, <2>1, <2>2, DurableLate DEF Late
<1> QED BY <1>2, <1>3

LEMMA repairSharedDurable ==
  ASSUME StoreInv, DurableInv, JournalsGrow, NEW p \in Procs, repairShared(p)
  PROVE  DurableInv'
<1>1. /\ pc[p] = "project" /\ UNCHANGED <<log, acked>> /\ ctx[p] \in Contexts
      /\ pc' = [pc EXCEPT ![p] = "repair"] /\ DurableAt(ctx[p], pc[p])
  BY CallerAt DEF repairShared, durable, history, Goto, StoreInv, DurableInv
<1>2. PICK c : /\ ctx' = [ctx EXCEPT ![p] = c]
               /\ c.op = ctx[p].op /\ Recorded(c) = Recorded(ctx[p]) /\ c.ses = ctx[p].ses
               /\ c.todo = ctx[p].todo /\ c.scan = ctx[p].scan
  <2>1. CASE UNCHANGED ctx
    <3>1. ctx' = [ctx EXCEPT ![p] = ctx[p]]
      BY <2>1 DEF StoreInv, TypeInv, CallersType
    <3> QED BY <3>1
  <2>2. ASSUME NEW u, SetCtx(p, [ctx[p] EXCEPT !.user = u, !.left = @ \ {u}])
        PROVE  \E c : /\ ctx' = [ctx EXCEPT ![p] = c]
                      /\ c.op = ctx[p].op /\ Recorded(c) = Recorded(ctx[p]) /\ c.ses = ctx[p].ses
                      /\ c.todo = ctx[p].todo /\ c.scan = ctx[p].scan
    <3>1. ASSUME NEW c, c = [ctx[p] EXCEPT !.user = u, !.left = @ \ {u}]
          PROVE  /\ c.op = ctx[p].op /\ Recorded(c) = Recorded(ctx[p]) /\ c.ses = ctx[p].ses
                 /\ c.todo = ctx[p].todo /\ c.scan = ctx[p].scan
      BY <1>1, <3>1 DEF Contexts, Recorded
    <3> QED BY <2>2, <3>1 DEF SetCtx
  <2> QED BY <2>1, <2>2 DEF repairShared
<1>3. /\ c.todo = {}
      /\ c.op = "delete" => \A r \in log[c.ses] : Covered(r, c.scan, appJ, userJ)
  BY <1>1, <1>2 DEF DurableAt
<1> QED BY <1>1, <1>2, <1>3, DurableLate DEF Late

(* The projection of a Delete is complete when its transcript is in the    *)
(* journals.                                                               *)
LEMMA ProjectedDurable ==
  ASSUME StoreInv, DurableInv, JournalsGrow, NEW p \in Procs, NEW app, NEW usr,
         Projected(p, app, usr), pc[p] \in {"repair", "fallback"}, UNCHANGED <<log, acked>>,
         ctx[p].op = "delete" => \A r \in log[ctx[p].ses] : Covered(r, {}, appJ, userJ)
  PROVE  DurableInv'
<1> SUFFICES ASSUME NEW c, c = [ctx[p] EXCEPT !.app = app, !.usr = usr] PROVE DurableInv'
  OBVIOUS
<1>1. /\ c.op = ctx[p].op /\ Recorded(c) = Recorded(ctx[p]) /\ c.ses = ctx[p].ses
      /\ c.todo = ctx[p].todo
  BY CallerAt DEF StoreInv, Contexts, Recorded
<1>2. PICK l \in Late : /\ pc' = [pc EXCEPT ![p] = l] /\ l \in {"finish", "mark", "project", "done"}
                        /\ c.op = "delete" => l = "mark"
  BY <1>1 DEF Projected, AfterProjection, Goto, Late
<1>3. ctx' = [ctx EXCEPT ![p] = c]
  BY DEF Projected, SetCtx
<1>4. c.todo = {}
  BY <1>1 DEF DurableInv, DurableAt
<1> QED BY <1>1, <1>2, <1>3, <1>4, DurableLate DEF Late

LEMMA RepairDurable ==
  ASSUME StoreInv, DurableInv, JournalsGrow, NEW p \in Procs,
         RepairApp(p) \/ RepairUser(p) \/ RepairDone(p) \/ RepairFails(p)
  PROVE  DurableInv'
<1>1. UNCHANGED <<log, acked>> /\ pc[p] = "repair" /\ ctx[p] \in Contexts
  BY CallerAt DEF RepairApp, RepairUser, RepairDone, RepairFails, durable, history, StoreInv
<1>2. CASE RepairApp(p) \/ RepairUser(p)
  BY <1>1, <1>2, DurableStays DEF RepairApp, RepairUser
<1>3. CASE RepairDone(p)
  <2>1. ASSUME ctx[p].op = "delete", NEW r \in log[ctx[p].ses] PROVE Covered(r, {}, appJ, userJ)
    <3>1. Covered(r, ctx[p].scan, appJ, userJ)
      BY <1>1, <2>1 DEF DurableInv, DurableAt
    <3>2. ctx[p].user = UserOf[ctx[p].ses] /\ ctx[p].ses \in Sessions
      BY <1>1, <2>1, CallerAt DEF StoreInv, Local
    <3>3. Owner(r) = ctx[p].user
      BY <2>1, <3>2, RecordsOf DEF Owner
    <3>4. ctx[p].scan \subseteq appJ /\ (r \in ctx[p].scan => r \in userJ[Owner(r)])
      BY <1>3, <3>3 DEF RepairDone, AppMissing, UserMissing, OwnedBy
    <3> QED BY <3>1, <3>4 DEF Covered
  <2> QED BY <1>1, <1>3, <2>1, ProjectedDurable DEF RepairDone
<1>4. CASE RepairFails(p)
  <2>1. CASE Return(p)
    BY <1>1, <2>1, DurableReturn
  <2>2. CASE Reconciling(p) /\ SetCtx(p, [ctx[p] EXCEPT !.scan = @ \cup pending]) /\ Goto(p, "fallback")
    <3> SUFFICES ASSUME NEW c, c = [ctx[p] EXCEPT !.scan = @ \cup pending] PROVE DurableInv'
      OBVIOUS
    <3>1. pc' = [pc EXCEPT ![p] = "fallback"] /\ ctx' = [ctx EXCEPT ![p] = c]
      BY <2>2 DEF Goto, SetCtx
    <3>2. /\ c.op = ctx[p].op /\ Recorded(c) = Recorded(ctx[p]) /\ c.todo = ctx[p].todo
          /\ c.op # "delete"
      BY <1>1, <2>2 DEF Contexts, Recorded, Reconciling
    <3>3. c.todo = {}
      BY <1>1, <3>2 DEF DurableInv, DurableAt
    <3> QED BY <1>1, <3>1, <3>2, <3>3, DurableLate DEF Late
  <2>3. CASE Goto(p, "refallback") /\ UNCHANGED ctx /\ ctx[p].op # "delete"
    <3>1. pc' = [pc EXCEPT ![p] = "refallback"] /\ ctx' = [ctx EXCEPT ![p] = ctx[p]]
      BY <2>3 DEF Goto, StoreInv, TypeInv, CallersType
    <3>2. ctx[p].todo = {}
      BY <1>1 DEF DurableInv, DurableAt
    <3> QED BY <1>1, <2>3, <3>1, <3>2, DurableLate DEF Late
  <2> QED BY <1>4, <2>1, <2>2, <2>3 DEF RepairFails
<1> QED BY <1>2, <1>3, <1>4

LEMMA FallbackDurable ==
  ASSUME StoreInv, DurableInv, JournalsGrow, NEW p \in Procs,
         authoritativeFallback(p) \/ FallbackToJournals(p) \/ FallbackToCache(p)
  PROVE  DurableInv'
<1>1. UNCHANGED <<log, acked>>
  BY DEF authoritativeFallback, FallbackToJournals, FallbackToCache, durable, history
<1>2. pc[p] \in {"refallback", "fallback"} /\ ctx[p].op # "delete" /\ ctx[p].todo = {}
  BY CallerAt DEF authoritativeFallback, FallbackToJournals, FallbackToCache, StoreInv, Local,
     SoundInv, SoundAt, DurableInv, DurableAt
<1>3. CASE authoritativeFallback(p)
  <2>1. pc' = [pc EXCEPT ![p] = "fallback"] /\ ctx' = [ctx EXCEPT ![p] = ctx[p]]
    BY <1>3 DEF authoritativeFallback, Goto, StoreInv, TypeInv, CallersType
  <2> QED BY <1>1, <1>2, <2>1, DurableLate DEF Late
<1>4. CASE FallbackToJournals(p)
  BY <1>1, <1>2, <1>4, ProjectedDurable DEF FallbackToJournals
<1>5. CASE FallbackToCache(p)
  BY <1>1, <1>2, <1>5, ProjectedDurable, DurableReturn DEF FallbackToCache
<1> QED BY <1>3, <1>4, <1>5

(* What is acknowledged has just been found in its transcript.             *)
LEMMA FinishDurable ==
  ASSUME StoreInv, DurableInv, JournalsGrow, NEW p \in Procs, Finish(p)
  PROVE  DurableInv'
<1>1. Return(p) /\ UNCHANGED log /\ pc[p] = "done"
  BY DEF Finish, durable
<1>2. CASE UNCHANGED acked
  BY <1>1, <1>2, DurableReturn
<1>3. CASE ctx[p].op \in {"create", "append"} /\ acked' = acked \cup {Rec(p)}
  <2>1. Rec(p) \in log[Rec(p).ses]
    BY <1>1, <1>3 DEF DurableInv, DurableAt, Late, Recorded, Rec
  <2>2. ASSUME NEW r \in acked' PROVE Covered(r, log[r.ses], appJ', userJ')
    <3>1. CASE r \in acked
      <4>1. r.ses \in Sessions /\ Covered(r, log[r.ses], appJ, userJ)
        BY <3>1 DEF StoreInv, DurableInv, TypeInv, HistoryType, RecSets, Records
      <4> QED BY <4>1, CoveredGrows
    <3>2. CASE r = Rec(p)
      BY <2>1, <3>2 DEF Covered
    <3> QED BY <1>3, <2>2, <3>1, <3>2
  <2>3. \A r \in acked' : Covered(r, log[r.ses], appJ, userJ)'
    BY <1>1, <2>2 DEF Covered, Owner
  <2>4. ASSUME NEW q \in Procs, NEW d, NEW m, d = ctx'[q], m = pc'[q] PROVE DurableAt(d, m)'
    <3>1. pc' = [pc EXCEPT ![p] = "idle"] /\ ctx' = [ctx EXCEPT ![p] = Blank]
      BY <1>1 DEF Return, Goto, SetCtx
    <3>2. CASE q = p
      BY <2>4, <3>1, <3>2 DEF DurableAt, Late, StoreInv, TypeInv, CallersType
    <3>3. CASE q # p
      <4>1. d = ctx[q] /\ m = pc[q]
        BY <2>4, <3>1, <3>3 DEF StoreInv, TypeInv, CallersType
      <4>2. DurableAt(d, m) /\ Local(d, m)
        BY <4>1, CallerAt DEF DurableInv, StoreInv
      <4>3. CASE m = "idle"
        BY <4>3 DEF DurableAt, Late
      <4>4. CASE m # "idle"
        <5>1. d.ses \in Sessions \/ d.op \notin {"create", "append", "delete"}
          BY <4>2, <4>4 DEF Local
        <5> QED BY <1>1, <4>2, <5>1, DurableAtKept
      <4> QED BY <4>3, <4>4
    <3> QED BY <3>2, <3>3
  <2>5. \A q \in Procs : DurableAt(ctx[q], pc[q])'
    BY <2>4, DurablePrimed
  <2> QED BY <2>3, <2>5 DEF DurableInv
<1> QED BY <1>2, <1>3 DEF Finish

LEMMA WriteDeleteMarkerDurable ==
  ASSUME StoreInv, DurableInv, JournalsGrow, NEW p \in Procs, WriteDeleteMarker(p)
  PROVE  DurableInv'
<1>1. /\ pc[p] = "mark" /\ UNCHANGED <<log, acked>> /\ ctx[p].ses \in Sessions
      /\ ctx[p].op = "delete" /\ DurableAt(ctx[p], pc[p])
  BY CallerAt DEF WriteDeleteMarker, history, StoreInv, Local, DurableInv
<1>2. CASE Return(p)
  BY <1>1, <1>2, DurableReturn
<1>3. ASSUME NEW l \in {"uncreate", "remove"}, Goto(p, l), UNCHANGED ctx PROVE DurableInv'
  <2> SUFFICES ASSUME NEW c, c = ctx[p] PROVE DurableInv'
    OBVIOUS
  <2>1. pc' = [pc EXCEPT ![p] = l] /\ ctx' = [ctx EXCEPT ![p] = c]
    BY <1>3 DEF Goto, StoreInv, TypeInv, CallersType
  <2>2. DurableAt(c, l)
    BY <1>1 DEF DurableAt, Late
  <2>3. DurableAt(c, l)'
    BY <1>1, <2>2, DurableAtKept
  <2> QED BY <1>1, <2>1, <2>3, DurableQuiet
<1> QED BY <1>2, <1>3 DEF WriteDeleteMarker

(* The transcript is removed once its deltas are in the journals.          *)
LEMMA removeSessionLogDurable ==
  ASSUME StoreInv, DurableInv, JournalsGrow, NEW p \in Procs, removeSessionLog(p)
  PROVE  DurableInv'
<1> SUFFICES ASSUME NEW s, s = ctx[p].ses PROVE DurableInv'
  OBVIOUS
<1>1. pc[p] = "remove" /\ UNCHANGED acked
  BY DEF removeSessionLog, history
<1>2. s \in Sessions /\ HoldsOp(ctx[p], pc[p]) /\ ctx[p].op = "delete"
  BY <1>1, CallerAt DEF Local, HoldsOp, StoreInv
<1>3. \A r \in log[s] : Covered(r, {}, appJ, userJ)
  BY <1>1, <1>2 DEF DurableInv, DurableAt
<1>4. \A t \in Sessions : t # s => log'[t] = log[t]
  BY <1>2 DEF removeSessionLog, StoreInv, TypeInv, DurableType
<1>5. \A c : DurableAt(c, "uncreate")'
  BY DEF DurableAt, Late
<1>6. Return(p) \/ (Goto(p, "uncreate") /\ UNCHANGED ctx)
  BY DEF removeSessionLog
<1> QED BY <1>1, <1>2, <1>3, <1>4, <1>5, <1>6, DurableWrite

LEMMA DeleteMarkersDurable ==
  ASSUME StoreInv, DurableInv, JournalsGrow, NEW p \in Procs,
         removeCreateMarker(p) \/ finishDeleteMarker(p)
  PROVE  DurableInv'
<1>1. pc[p] \in {"uncreate", "unmark"} /\ UNCHANGED <<log, acked>> /\ ctx[p].op = "delete"
  BY CallerAt DEF removeCreateMarker, finishDeleteMarker, history, StoreInv, Local
<1>2. CASE Return(p)
  BY <1>1, <1>2, DurableReturn
<1>3. ASSUME NEW l \in {"unmark", "done"}, Goto(p, l), UNCHANGED ctx PROVE DurableInv'
  <2> SUFFICES ASSUME NEW c, c = ctx[p] PROVE DurableInv'
    OBVIOUS
  <2>1. pc' = [pc EXCEPT ![p] = l] /\ ctx' = [ctx EXCEPT ![p] = c]
    BY <1>3 DEF Goto, StoreInv, TypeInv, CallersType
  <2>2. DurableAt(c, l)'
    BY <1>1 DEF DurableAt
  <2> QED BY <1>1, <2>1, <2>2, DurableQuiet
<1> QED BY <1>2, <1>3 DEF removeCreateMarker, finishDeleteMarker

LEMMA CrashDurable ==
  ASSUME StoreInv, DurableInv, JournalsGrow, Crash
  PROVE  DurableInv'
<1>1. UNCHANGED <<log, acked>> /\ \A p \in Procs : pc'[p] = "idle"
  BY DEF Crash, history
<1>2. \A p \in Procs : DurableAt(ctx[p], pc[p])'
  BY <1>1 DEF DurableAt, Late
<1>3. ASSUME NEW r \in acked PROVE Covered(r, log[r.ses], appJ', userJ')
  <2>1. r.ses \in Sessions /\ Covered(r, log[r.ses], appJ, userJ)
    BY DEF StoreInv, DurableInv, TypeInv, HistoryType, RecSets, Records
  <2> QED BY <2>1, CoveredGrows
<1>4. \A r \in acked' : Covered(r, log[r.ses], appJ, userJ)'
  BY <1>1, <1>3 DEF Covered, Owner
<1> QED BY <1>2, <1>4 DEF DurableInv

LEMMA DurableStep ==
  ASSUME "seqlost" \notin Faults, StoreInv, DurableInv, DeletesRunThrough, [Next]_vars
  PROVE  DurableInv'
<1>0. JournalsGrow
  BY JournalsOnlyGrow DEF StoreInv
<1>1. CASE UNCHANGED vars
  BY <1>0, <1>1, DurableStays DEF vars, durable, history
<1>2. ASSUME NEW p \in Procs, Call(p) PROVE DurableInv'
  <2>1. CASE \E s \in Sessions : CallDelete(p, s)
    BY <1>0, <2>1, CallDeleteDurable
  <2>2. CASE ~\E s \in Sessions : CallDelete(p, s)
    BY <1>0, <1>2, <2>2, CallDurable DEF Call
  <2> QED BY <2>1, <2>2
<1>3. ASSUME NEW p \in Procs, Step(p) PROVE DurableInv'
  <2>1. CASE \/ CreateRefused(p) \/ AppendRefused(p) \/ FallbackFails(p) \/ Finish(p)
             \/ CreateBegins(p) \/ readSharedProjection(p) \/ ensureRecordInventory(p)
             \/ reserveRecord(p) \/ persistCreateStart(p) \/ validateReservedRecord(p)
    BY <1>0, <2>1, EndsDurable, FinishDurable, EarlyStepsDurable
  <2>2. CASE \/ commitCreate(p) \/ ResumeLoads(p) \/ finishCreateMarker(p)
             \/ AppendLoads(p) \/ appendNewEvent(p) \/ WriteDeleteMarker(p) \/ removeSessionLog(p)
             \/ removeCreateMarker(p) \/ finishDeleteMarker(p)
    BY <1>0, <2>2, HeaderStepDurable, finishCreateMarkerDurable, AppendLoadsDurable,
       appendNewEventDurable, WriteDeleteMarkerDurable, removeSessionLogDurable, DeleteMarkersDurable
  <2>3. CASE reconcileCommittedShared(p) \/ \E s \in Sessions : scanApp(p, s) \/ ScanEnds(p, s)
    BY <1>0, <2>3, reconcileDurable, scanAppDurable, ScanEndsDurable
  <2>4. CASE \/ repairShared(p) \/ RepairApp(p) \/ RepairUser(p) \/ RepairDone(p) \/ RepairFails(p)
             \/ authoritativeFallback(p) \/ FallbackToJournals(p) \/ FallbackToCache(p)
    BY <1>0, <2>4, repairSharedDurable, RepairDurable, FallbackDurable
  <2> QED BY <1>3, <2>1, <2>2, <2>3, <2>4 DEF Step
<1>4. CASE Crash
  BY <1>0, <1>4, CrashDurable
<1>5. ~LoseSequence
  BY DEF LoseSequence
<1> QED BY <1>1, <1>2, <1>3, <1>4, <1>5 DEF Next

LEMMA DurableImplies == StoreInv /\ DurableInv => AckedDurable
<1> SUFFICES ASSUME StoreInv, DurableInv PROVE AckedDurable
  OBVIOUS
<1>1. ASSUME NEW r \in acked
      PROVE  r \in log[r.ses] \cup appJ /\ (r.ev \in UserEvents => r \in log[r.ses] \cup userJ[Owner(r)])
  BY DEF DurableInv, Covered
<1>2. ASSUME NEW p \in Procs, pc[p] = "done", ctx[p].op = "delete"
      PROVE  file[ctx[p].ses] = "none" /\ cmark[ctx[p].ses] = 0 /\ dmark[ctx[p].ses] = 0
  BY <1>2 DEF StoreInv, SoundInv, SoundAt
<1> QED BY <1>1, <1>2 DEF AckedDurable

(* As long as no Delete that failed or died is resumed, an acknowledged    *)
(* Create or AppendEvent stays in its transcript or in the journals,       *)
(* whatever journal or transcript writes fail, whatever cannot be read and *)
(* whenever the process dies; and a Delete that returns success has left   *)
(* no transcript and no marker.                                            *)
THEOREM AcknowledgedStays ==
  ASSUME "seqlost" \notin Faults
  PROVE  Spec /\ []DeletesRunThrough => []AckedDurable
<1>1. (Init => StoreInv) /\ (StoreInv /\ [Next]_vars => StoreInv')
  BY StoreInvariant
<1>2. Init => DurableInv
  BY DurableInit
<1>3. StoreInv /\ DurableInv /\ DeletesRunThrough /\ [Next]_vars => DurableInv'
  BY DurableStep
<1>4. StoreInv /\ DurableInv => AckedDurable
  BY DurableImplies
<1> QED BY <1>1, <1>2, <1>3, <1>4, PTL DEF Spec

(* A step of p moves p alone.                                              *)
LEMMA OneCaller ==
  ASSUME TypeInv, NEW p \in Procs, Call(p) \/ Step(p)
  PROVE  \A q \in Procs : q # p => pc'[q] = pc[q] /\ ctx'[q] = ctx[q]
<1> DEFINE Alone == \A q \in Procs : q # p => pc'[q] = pc[q] /\ ctx'[q] = ctx[q]
<1>1. (\E l : Goto(p, l)) \/ UNCHANGED pc
  BY DEF Call, CallCreate, CallGet, CallDelete, CallAppend, CallList, Step, CreateRefused,
     CreateBegins, readSharedProjection, ensureRecordInventory, reserveRecord, persistCreateStart,
     commitCreate, validateReservedRecord, ResumeLoads, finishCreateMarker, AppendLoads, AppendRefused,
     appendNewEvent, reconcileCommittedShared, scanApp, ScanEnds, repairShared, RepairApp, RepairUser,
     RepairDone, RepairFails, authoritativeFallback, FallbackToJournals, FallbackToCache, FallbackFails,
     Finish, WriteDeleteMarker, removeSessionLog, removeCreateMarker, finishDeleteMarker, Projected, Return
<1>2. (\E c : SetCtx(p, c)) \/ UNCHANGED ctx
  BY DEF Call, CallCreate, CallGet, CallDelete, CallAppend, CallList, Step, CreateRefused,
     CreateBegins, readSharedProjection, ensureRecordInventory, reserveRecord, persistCreateStart,
     commitCreate, validateReservedRecord, ResumeLoads, finishCreateMarker, AppendLoads, AppendRefused,
     appendNewEvent, reconcileCommittedShared, scanApp, ScanEnds, repairShared, RepairApp, RepairUser,
     RepairDone, RepairFails, authoritativeFallback, FallbackToJournals, FallbackToCache, FallbackFails,
     Finish, WriteDeleteMarker, removeSessionLog, removeCreateMarker, finishDeleteMarker, Projected, Return,
     locks
<1> QED BY <1>1, <1>2 DEF Goto, SetCtx, TypeInv, CallersType

LEMMA OnlyDeletes ==
  ASSUME NEW p \in Procs, Step(p),
         ~(WriteDeleteMarker(p) \/ removeSessionLog(p) \/ removeCreateMarker(p) \/ finishDeleteMarker(p))
  PROVE  UNCHANGED dmark /\ pc[p] \notin {"remove", "uncreate", "unmark"}
<1>1. CASE \/ CreateRefused(p) \/ CreateBegins(p) \/ readSharedProjection(p)
           \/ ensureRecordInventory(p) \/ reserveRecord(p) \/ persistCreateStart(p)
           \/ validateReservedRecord(p) \/ finishCreateMarker(p) \/ AppendLoads(p)
           \/ AppendRefused(p) \/ commitCreate(p) \/ ResumeLoads(p) \/ appendNewEvent(p)
  BY <1>1 DEF CreateRefused, CreateBegins, readSharedProjection, ensureRecordInventory,
     reserveRecord, persistCreateStart, validateReservedRecord, finishCreateMarker, AppendLoads,
     AppendRefused, commitCreate, ResumeLoads, appendNewEvent, durable
<1>2. CASE \/ (\E s \in Sessions : scanApp(p, s) \/ ScanEnds(p, s)) \/ reconcileCommittedShared(p)
           \/ repairShared(p) \/ RepairApp(p) \/ RepairUser(p) \/ RepairDone(p) \/ RepairFails(p)
           \/ authoritativeFallback(p) \/ FallbackToJournals(p) \/ FallbackToCache(p)
           \/ FallbackFails(p) \/ Finish(p)
  BY <1>2 DEF scanApp, ScanEnds, reconcileCommittedShared, repairShared, RepairApp,
     RepairUser, RepairDone, RepairFails, authoritativeFallback, FallbackToJournals, FallbackToCache,
     FallbackFails, Finish, durable
<1> QED BY <1>1, <1>2 DEF Step

(* Where no transcript or marker write fails and the process lives, every  *)
(* Delete that wrote its marker is on its way to remove it.                *)
LEMMA DeletesDoRunThrough ==
  ASSUME "log" \notin Faults, "marker" \notin Faults, ~CanCrash
  PROVE  Spec => []DeletesRunThrough
<1> DEFINE Removing == {"remove", "uncreate", "unmark"}
<1>1. Init => DeletesRunThrough
  BY DEF Init, DeletesRunThrough
<1>2. ASSUME TypeInv, DeletesRunThrough, [Next]_vars PROVE DeletesRunThrough'
  <2>1. CASE UNCHANGED <<dmark, pc, ctx>>
    BY <1>2, <2>1 DEF DeletesRunThrough
  <2>2. ASSUME NEW p \in Procs, pc[p] \notin Removing, UNCHANGED dmark,
               \A q \in Procs : q # p => pc'[q] = pc[q] /\ ctx'[q] = ctx[q]
        PROVE  DeletesRunThrough'
    BY <1>2, <2>2 DEF DeletesRunThrough
  <2>3. ASSUME NEW p \in Procs, Call(p) \/ Step(p)
        PROVE  \A q \in Procs : q # p => pc'[q] = pc[q] /\ ctx'[q] = ctx[q]
    BY <1>2, <2>3, OneCaller
  <2>4. ASSUME NEW p \in Procs, Call(p) PROVE DeletesRunThrough'
    <3>1. pc[p] = "idle" /\ UNCHANGED dmark
      BY <2>4 DEF Call, CallCreate, CallGet, CallDelete, CallAppend, CallList, durable
    <3> QED BY <2>2, <2>3, <2>4, <3>1
  <2>5. ASSUME NEW p \in Procs, NEW s, s = ctx[p].ses,
               WriteDeleteMarker(p) \/ removeSessionLog(p) \/ removeCreateMarker(p)
        PROVE  DeletesRunThrough'
    <3>1. s \in Sessions /\ pc[p] \in {"mark", "remove", "uncreate"}
      BY <1>2, <2>5, CallerAt DEF WriteDeleteMarker, removeSessionLog, removeCreateMarker, Local
    <3>2. /\ pc'[p] \in Removing /\ ctx'[p] = ctx[p]
          /\ \A t \in Sessions : t # s => dmark'[t] = dmark[t]
      BY <1>2, <2>5, <3>1 DEF WriteDeleteMarker, removeSessionLog, removeCreateMarker, Goto,
         TypeInv, DurableType, CallersType
    <3>3. \A q \in Procs : q # p => pc'[q] = pc[q] /\ ctx'[q] = ctx[q]
      BY <2>3, <2>5 DEF Step
    <3> QED BY <1>2, <2>5, <3>1, <3>2, <3>3 DEF DeletesRunThrough
  <2>6. ASSUME NEW p \in Procs, NEW s, s = ctx[p].ses, finishDeleteMarker(p)
        PROVE  DeletesRunThrough'
    <3>1. s \in Sessions /\ dmark' = [dmark EXCEPT ![s] = 0]
      BY <1>2, <2>6, CallerAt DEF finishDeleteMarker, Local
    <3>2. \A q \in Procs : q # p => pc'[q] = pc[q] /\ ctx'[q] = ctx[q]
      BY <2>3, <2>6 DEF Step
    <3> QED BY <1>2, <2>6, <3>1, <3>2 DEF DeletesRunThrough, TypeInv, DurableType
  <2>7. ASSUME NEW p \in Procs, Step(p),
               ~(WriteDeleteMarker(p) \/ removeSessionLog(p) \/ removeCreateMarker(p) \/ finishDeleteMarker(p))
        PROVE  DeletesRunThrough'
    <3>1. UNCHANGED dmark /\ pc[p] \notin Removing
      BY <2>7, OnlyDeletes
    <3> QED BY <2>2, <2>3, <2>7, <3>1
  <2>8. CASE UNCHANGED vars \/ LoseSequence
    <3>1. UNCHANGED <<dmark, pc, ctx>>
      BY <2>8 DEF vars, durable, LoseSequence
    <3> QED BY <2>1, <3>1
  <2> QED BY <1>2, <2>4, <2>5, <2>6, <2>7, <2>8 DEF Next, Crash
<1>3. (Init => TypeInv) /\ (TypeInv /\ [Next]_vars => TypeInv')
  BY TypeInit, TypeStep
<1> QED BY <1>1, <1>2, <1>3, PTL DEF Spec

-----------------------------------------------------------------------------
(* The currency of what is returned.                                       *)

(* What the projection of an operation has to hold, and where an operation *)
(* that scans may still find it.                                           *)
Due(c) == c.must \cup (IF c.op \in {"create", "append"} THEN {Recorded(c)} ELSE {})
Reach(c, lg) == c.scan \cup UNION {lg[s] : s \in c.todo}
Shown(c) ==
  /\ Due(c) \subseteq c.app
  /\ \A r \in Due(c) : Owner(r) = c.user /\ r.ev \in UserEvents => r \in c.usr

CurrentAt(c, l) ==
  /\ c.must \subseteq acked
  /\ c.op \in {"create", "append"} /\ l \in {"scan", "repair", "fallback", "finish", "done"} =>
       Covered(Recorded(c), pending, appJ, userJ)
  /\ c.op # "delete" /\ l \in {"scan", "project", "repair", "refallback", "fallback"} =>
       \A r \in Due(c) : Covered(r, Reach(c, log), appJ, userJ)
  /\ c.op \in {"create", "append"} /\ l \in {"scan", "repair"} =>
       \A r \in pending : Covered(r, Reach(c, log), appJ, userJ)
  /\ c.op # "delete" /\ l \in {"finish", "done"} => Shown(c)

(* A reconciliation has the pending records to itself.                     *)
Settles(c, l) == c.op \in {"create", "append"} /\ l \in {"scan", "repair", "fallback"}

CurrentInv ==
  /\ \A r \in acked : Covered(r, pending, appJ, userJ)
  /\ \A r \in pending : Covered(r, log[r.ses], appJ, userJ)
  /\ \A p \in Procs : CurrentAt(ctx[p], pc[p])
  /\ \A p \in Procs : Settles(ctx[p], pc[p]) => projL = p

LEMMA CurrentInit == Init => CurrentInv
<1> SUFFICES ASSUME Init PROVE CurrentInv
  OBVIOUS
<1>1. acked = {} /\ pending = {} /\ \A p \in Procs : pc[p] = "idle" /\ ctx[p] = Blank
  BY DEF Init
<1>2. Blank.must = {}
  BY DEF Blank
<1>3. \A p \in Procs : CurrentAt(ctx[p], pc[p]) /\ ~Settles(ctx[p], pc[p])
  BY <1>1, <1>2 DEF CurrentAt, Settles
<1> QED BY <1>1, <1>3 DEF CurrentInv

(* What a step of p does to the state the callers share.                   *)
LogsKept == \A s \in Sessions : \A r \in log[s] : r \in log'[s] \/ Covered(r, {}, appJ, userJ)
ProjectKept(p) == projL' = projL \/ projL \in {NULL, p}
Around(p) == JournalsGrow /\ LogsKept /\ ProjectKept(p)

LEMMA LogsAreKept ==
  ASSUME StoreInv, DurableInv, [Next]_vars
  PROVE  LogsKept
<1> USE DEF StoreInv
<1>1. CASE UNCHANGED log
  BY <1>1 DEF LogsKept
<1>2. ASSUME NEW p \in Procs, appendNewEvent(p) PROVE LogsKept
  BY <1>2 DEF appendNewEvent, LogsKept, TypeInv, DurableType
<1>3. ASSUME NEW p \in Procs, NEW s, s = ctx[p].ses, removeSessionLog(p) PROVE LogsKept
  <2>1. s \in Sessions /\ ctx[p].op = "delete" /\ pc[p] = "remove"
    BY <1>3, CallerAt DEF removeSessionLog, Local
  <2>2. \A r \in log[s] : Covered(r, {}, appJ, userJ)
    BY <1>3, <2>1 DEF DurableInv, DurableAt
  <2>3. \A t \in Sessions : t # s => log'[t] = log[t]
    BY <1>3, <2>1 DEF removeSessionLog, TypeInv, DurableType
  <2> QED BY <2>2, <2>3 DEF LogsKept
<1>4. ASSUME NEW p \in Procs, NEW s, s = ctx[p].ses, commitCreate(p) \/ ResumeLoads(p) PROVE LogsKept
  <2>1. Opening(ctx[p], pc[p])
    BY <1>4 DEF commitCreate, ResumeLoads, Opening
  <2>2. s \in Sessions /\ (pc[p] = "header" => file[s] = "none")
    BY <1>4, <2>1, OpeningAt DEF FilesAt
  <2>3. UNCHANGED log \/ (file[s] = "none" /\ log' = [log EXCEPT ![s] = {Rec(p)}])
    BY <1>4, <2>2 DEF commitCreate, ResumeLoads, HeaderFailed, HeaderWritten
  <2> QED BY <2>2, <2>3 DEF LogsKept, IdentityInv, NoFileNoLog, TypeInv, DurableType
<1> QED BY <1>1, <1>2, <1>3, <1>4, TranscriptWriters

LEMMA ProjectIsKept ==
  ASSUME NEW p \in Procs, Call(p) \/ Step(p)
  PROVE  ProjectKept(p)
<1>1. Return(p) => ProjectKept(p)
  BY DEF Return, FreeProject, ProjectKept
<1>2. UNCHANGED locks => ProjectKept(p)
  BY DEF locks, ProjectKept
<1>3. CASE Call(p)
  BY <1>2, <1>3 DEF Call, CallCreate, CallGet, CallDelete, CallAppend, CallList, ProjectKept
<1>4. CASE \/ CreateRefused(p) \/ CreateBegins(p) \/ readSharedProjection(p)
           \/ ensureRecordInventory(p) \/ reserveRecord(p) \/ persistCreateStart(p)
           \/ validateReservedRecord(p) \/ finishCreateMarker(p) \/ AppendLoads(p)
           \/ AppendRefused(p) \/ commitCreate(p) \/ ResumeLoads(p) \/ appendNewEvent(p)
  BY <1>1, <1>2, <1>4 DEF CreateRefused, CreateBegins, readSharedProjection, ensureRecordInventory,
     reserveRecord, persistCreateStart, validateReservedRecord, finishCreateMarker, AppendLoads,
     AppendRefused, commitCreate, ResumeLoads, appendNewEvent, ProjectKept
<1>5. CASE \/ (\E s \in Sessions : scanApp(p, s) \/ ScanEnds(p, s)) \/ reconcileCommittedShared(p)
           \/ repairShared(p) \/ RepairApp(p) \/ RepairUser(p) \/ RepairDone(p) \/ RepairFails(p)
  BY <1>1, <1>2, <1>5 DEF scanApp, ScanEnds, reconcileCommittedShared, repairShared, RepairApp,
     RepairUser, RepairDone, RepairFails, Projected, TakeProject, FreeProject, ProjectKept
<1>6. CASE \/ authoritativeFallback(p) \/ FallbackToJournals(p) \/ FallbackToCache(p)
           \/ FallbackFails(p) \/ Finish(p)
           \/ WriteDeleteMarker(p) \/ removeSessionLog(p) \/ removeCreateMarker(p) \/ finishDeleteMarker(p)
  BY <1>1, <1>2, <1>6 DEF authoritativeFallback, FallbackToJournals, FallbackToCache, FallbackFails,
     Finish, WriteDeleteMarker, removeSessionLog, removeCreateMarker, finishDeleteMarker,
     Projected, TakeProject, FreeProject, ProjectKept
<1> QED BY <1>3, <1>4, <1>5, <1>6 DEF Step

(* What is covered stays covered when what leaves the records S is in the  *)
(* journals.                                                               *)
LEMMA CoveredOn ==
  ASSUME JournalsGrow, NEW r, r.ses \in Sessions, NEW S, NEW T, Covered(r, S, appJ, userJ),
         r \in S => r \in T \/ Covered(r, {}, appJ, userJ) \/ Covered(r, {}, appJ', userJ')
  PROVE  Covered(r, T, appJ', userJ')
<1>1. Owner(r) \in Users
  BY DEF Owner
<1> QED BY <1>1 DEF Covered, JournalsGrow

LEMMA CurrentPrimed ==
  ASSUME NEW q \in Procs, NEW d, NEW m, d = ctx'[q], m = pc'[q], CurrentAt(d, m)'
  PROVE  CurrentAt(ctx[q], pc[q])'
  BY DEF CurrentAt, Due, Reach, Shown, Recorded

PendingKept == \A r \in pending : r \in pending' \/ Covered(r, {}, appJ', userJ')

(* The logs that are still to be scanned hold what they held.              *)
LEMMA ReachKept ==
  ASSUME StoreInv, LogsKept, NEW d, d.todo \subseteq Sessions, NEW r \in Reach(d, log)
  PROVE  r \in Reach(d, log') \/ Covered(r, {}, appJ, userJ)
<1>1. CASE r \in d.scan
  BY <1>1 DEF Reach
<1>2. ASSUME NEW s \in d.todo, r \in log[s] PROVE r \in Reach(d, log') \/ Covered(r, {}, appJ, userJ)
  <2>1. r \in log'[s] \/ Covered(r, {}, appJ, userJ)
    BY <1>2 DEF LogsKept
  <2> QED BY <1>2, <2>1 DEF Reach
<1> QED BY <1>1, <1>2 DEF Reach

LEMMA CurrentAtKept ==
  ASSUME StoreInv, JournalsGrow, LogsKept, PendingKept, NEW d \in Contexts, NEW m, Local(d, m),
         CurrentAt(d, m), acked \subseteq acked',
         pending' \subseteq pending \/ ~(d.op \in {"create", "append"} /\ m \in {"scan", "repair"})
  PROVE  CurrentAt(d, m)'
<1>1. d.todo \subseteq Sessions /\ d.must \subseteq acked
  BY DEF Contexts, CurrentAt
<1>2. \A r \in acked \cup pending : r.ses \in Sessions
  BY DEF StoreInv, TypeInv, HistoryType, VolatileType, RecSets, Records
<1>3. d.op \in {"create", "append"} /\ m # "idle" => Recorded(d).ses \in Sessions
  BY DEF Local, Recorded
<1>4. ASSUME NEW r, r.ses \in Sessions, Covered(r, Reach(d, log), appJ, userJ)
      PROVE  Covered(r, Reach(d, log'), appJ', userJ')
  BY <1>1, <1>4, ReachKept, CoveredOn
<1>5. d.op \in {"create", "append"} /\ m \in {"scan", "repair", "fallback", "finish", "done"} =>
        Covered(Recorded(d), pending', appJ', userJ')
  BY <1>3, CoveredOn DEF CurrentAt, PendingKept
<1>6. ASSUME d.op # "delete", m \in {"scan", "project", "repair", "refallback", "fallback"}, NEW r \in Due(d)
      PROVE  Covered(r, Reach(d, log'), appJ', userJ')
  <2>1. r.ses \in Sessions
    BY <1>1, <1>2, <1>3, <1>6 DEF Due
  <2> QED BY <1>4, <1>6, <2>1 DEF CurrentAt
<1>7. ASSUME d.op \in {"create", "append"}, m \in {"scan", "repair"}, NEW r \in pending'
      PROVE  Covered(r, Reach(d, log'), appJ', userJ')
  BY <1>2, <1>4, <1>7 DEF CurrentAt
<1>8. d.op # "delete" /\ m \in {"finish", "done"} => Shown(d)
  BY DEF CurrentAt
<1> QED BY <1>1, <1>5, <1>6, <1>7, <1>8 DEF CurrentAt, Due, Reach, Recorded, Shown

LEMMA CurrentMove ==
  ASSUME StoreInv, CurrentInv, NEW p \in Procs, Around(p), PendingKept, NEW c, NEW l,
         pc' = [pc EXCEPT ![p] = l], ctx' = [ctx EXCEPT ![p] = c],
         acked \subseteq acked', \A r \in acked' \ acked : Covered(r, pending', appJ', userJ'),
         pending' \subseteq pending \/ projL = NULL,
         \A r \in pending' \ pending : Covered(r, log'[r.ses], appJ', userJ'),
         CurrentAt(c, l)', Settles(c, l) => projL' = p
  PROVE  CurrentInv'
<1> USE DEF StoreInv, Around
<1>0. \A q \in Procs : \/ q = p /\ ctx'[q] = c /\ pc'[q] = l
                       \/ q # p /\ ctx'[q] = ctx[q] /\ pc'[q] = pc[q]
  BY DEF TypeInv, CallersType
<1>1. \A r \in acked \cup pending : r.ses \in Sessions
  BY DEF TypeInv, HistoryType, VolatileType, RecSets, Records
<1>2. ASSUME NEW r \in acked' PROVE Covered(r, pending', appJ', userJ')
  <2>1. CASE r \in acked
    BY <1>1, <2>1, CoveredOn DEF CurrentInv, PendingKept
  <2> QED BY <1>2, <2>1
<1>3. ASSUME NEW r \in pending' PROVE Covered(r, log'[r.ses], appJ', userJ')
  <2>1. CASE r \in pending
    <3>1. r \in log[r.ses] => r \in log'[r.ses] \/ Covered(r, {}, appJ, userJ)
      BY <1>1, <2>1 DEF LogsKept
    <3> QED BY <1>1, <2>1, <3>1, CoveredOn DEF CurrentInv
  <2> QED BY <1>3, <2>1
<1>4. ASSUME NEW q \in Procs, NEW d, NEW m, d = ctx'[q], m = pc'[q]
      PROVE  CurrentAt(d, m)' /\ (Settles(d, m) => projL' = q)
  <2>1. CASE q = p
    <3>1. d = c /\ m = l
      BY <1>0, <1>4, <2>1
    <3> QED BY <2>1, <3>1
  <2>2. CASE q # p
    <3>1. d = ctx[q] /\ m = pc[q]
      BY <1>0, <1>4, <2>2
    <3>2. d \in Contexts /\ Local(d, m) /\ CurrentAt(d, m) /\ (Settles(d, m) => projL = q)
      BY <3>1, CallerAt DEF CurrentInv
    <3>3. pending' \subseteq pending \/ ~(d.op \in {"create", "append"} /\ m \in {"scan", "repair"})
      BY <3>2 DEF Settles
    <3>4. Settles(d, m) => projL' = q
      BY <2>2, <3>2 DEF ProjectKept
    <3> QED BY <3>2, <3>3, <3>4, CurrentAtKept
  <2> QED BY <2>1, <2>2
<1>5. \A q \in Procs : CurrentAt(ctx[q], pc[q])'
  BY <1>4, CurrentPrimed
<1>6. \A q \in Procs : (Settles(ctx[q], pc[q]) => projL = q)'
  BY <1>4 DEF Settles
<1>7. \A r \in acked' : Covered(r, pending, appJ, userJ)'
  BY <1>2 DEF Covered, Owner
<1>8. \A r \in pending' : Covered(r, log[r.ses], appJ, userJ)'
  BY <1>3 DEF Covered, Owner
<1> QED BY <1>5, <1>6, <1>7, <1>8 DEF CurrentInv

(* A step of p that leaves the pending and the acknowledged records alone. *)
LEMMA CurrentQuiet ==
  ASSUME StoreInv, CurrentInv, NEW p \in Procs, Around(p), NEW c, NEW l,
         pc' = [pc EXCEPT ![p] = l], ctx' = [ctx EXCEPT ![p] = c],
         UNCHANGED <<pending, acked>>, CurrentAt(c, l)', Settles(c, l) => projL' = p
  PROVE  CurrentInv'
<1>1. PendingKept
  BY DEF PendingKept
<1> QED BY <1>1, CurrentMove

LEMMA CurrentReturn ==
  ASSUME StoreInv, CurrentInv, NEW p \in Procs, Around(p), Return(p), UNCHANGED <<pending, acked>>
  PROVE  CurrentInv'
<1> SUFFICES ASSUME NEW c, NEW l, c = Blank, l = "idle" PROVE CurrentInv'
  OBVIOUS
<1>1. pc' = [pc EXCEPT ![p] = l] /\ ctx' = [ctx EXCEPT ![p] = c]
  BY DEF Return, Goto, SetCtx
<1>2. c.must = {}
  BY DEF Blank
<1>3. CurrentAt(c, l)' /\ ~Settles(c, l)
  BY <1>2 DEF CurrentAt, Settles
<1> QED BY <1>1, <1>3, CurrentQuiet

(* p is not concerned with the shared state, or is a Delete.               *)
Aside(c, l) ==
  \/ l \notin {"scan", "project", "repair", "refallback", "fallback", "finish", "done"}
  \/ c.op = "delete"

LEMMA CurrentAside ==
  ASSUME StoreInv, CurrentInv, NEW p \in Procs, Around(p), NEW c, NEW l, Aside(c, l),
         pc' = [pc EXCEPT ![p] = l], ctx' = [ctx EXCEPT ![p] = c],
         UNCHANGED <<pending, acked>>, c.must \subseteq acked
  PROVE  CurrentInv'
<1>1. CurrentAt(c, l)' /\ ~Settles(c, l)
  BY DEF CurrentAt, Settles, Aside
<1> QED BY <1>1, CurrentQuiet

(* p stays where it is.                                                    *)
LEMMA CurrentStays ==
  ASSUME StoreInv, CurrentInv, NEW p \in Procs, Around(p), UNCHANGED <<pending, acked, projL, pc, ctx>>
  PROVE  CurrentInv'
<1> SUFFICES ASSUME NEW c, NEW l, c = ctx[p], l = pc[p] PROVE CurrentInv'
  OBVIOUS
<1>1. pc' = [pc EXCEPT ![p] = l] /\ ctx' = [ctx EXCEPT ![p] = c]
  BY DEF StoreInv, TypeInv, CallersType
<1>2. c \in Contexts /\ Local(c, l) /\ CurrentAt(c, l) /\ (Settles(c, l) => projL = p)
  BY CallerAt DEF StoreInv, CurrentInv
<1>3. CurrentAt(c, l)'
  BY <1>2, CurrentAtKept DEF PendingKept, Around
<1> QED BY <1>1, <1>2, <1>3, CurrentQuiet

(* All acknowledged records are in the journals or in a transcript that is *)
(* still to be scanned.                                                    *)
LEMMA ScanStarts ==
  ASSUME StoreInv, DurableInv, CurrentInv, NEW p \in Procs, Around(p), NEW c,
         pc' = [pc EXCEPT ![p] = "scan"], ctx' = [ctx EXCEPT ![p] = c],
         UNCHANGED <<pending, acked, log>>,
         c.op \in {"get", "list"}, c.must = acked, c.todo = Sessions
  PROVE  CurrentInv'
<1>1. ASSUME NEW r \in Due(c) PROVE Covered(r, Reach(c, log'), appJ', userJ')
  <2>1. r \in acked /\ r.ses \in Sessions
    BY <1>1 DEF Due, StoreInv, TypeInv, HistoryType, RecSets, Records
  <2>2. r \in log[r.ses] => r \in Reach(c, log')
    BY <2>1 DEF Reach
  <2> QED BY <2>1, <2>2, CoveredOn DEF DurableInv, Around
<1>2. CurrentAt(c, "scan")' /\ ~Settles(c, "scan")
  BY <1>1 DEF CurrentAt, Settles, Due, Reach, Recorded
<1> QED BY <1>2, CurrentQuiet

LEMMA CallCurrent ==
  ASSUME StoreInv, DurableInv, CurrentInv, NEW p \in Procs, Around(p), Call(p)
  PROVE  CurrentInv'
<1>1. UNCHANGED <<pending, acked, log>>
  BY DEF Call, CallCreate, CallGet, CallDelete, CallAppend, CallList, durable, volatile, history
<1> DEFINE To(c, l) == /\ pc' = [pc EXCEPT ![p] = l] /\ ctx' = [ctx EXCEPT ![p] = c]
                       /\ c.must = acked
                       /\ \/ Aside(c, l)
                          \/ l = "scan" /\ c.op \in {"get", "list"} /\ c.todo = Sessions
<1>2. ASSUME NEW c, NEW l, To(c, l) PROVE CurrentInv'
  BY <1>1, <1>2, ScanStarts, CurrentAside
<1>3. ASSUME NEW s \in Sessions, CallCreate(p, s) PROVE \E c, l : To(c, l)
  <2>1. ASSUME NEW c, c = [Called("create", s, UserOf[s]) EXCEPT !.ev = Header] PROVE c.must = acked
    BY <2>1 DEF Called, Blank
  <2> QED BY <1>3, <2>1 DEF CallCreate, Goto, SetCtx, Aside
<1>4. ASSUME NEW h, NEW e, CallAppend(p, h, e) PROVE \E c, l : To(c, l)
  <2>1. ASSUME NEW c, c = [Called("append", h[1], UserOf[h[1]]) EXCEPT !.ev = e, !.inc = h[2]] PROVE c.must = acked
    BY <2>1 DEF Called, Blank
  <2>2. \E c, l : /\ c = [Called("append", h[1], UserOf[h[1]]) EXCEPT !.ev = e, !.inc = h[2]]
                 /\ l \in {"append", "baseline"} /\ SetCtx(p, c) /\ Goto(p, l)
    BY <1>4 DEF CallAppend
  <2> QED BY <2>1, <2>2 DEF Goto, SetCtx, Aside
<1>5. ASSUME NEW s \in Sessions, CallGet(p, s) PROVE \E c, l : To(c, l)
  <2>1. ASSUME NEW c, c = [Called("get", s, UserOf[s]) EXCEPT !.todo = Sessions]
        PROVE  c.must = acked /\ c.op = "get" /\ c.todo = Sessions
    BY <2>1 DEF Called, Blank
  <2> QED BY <1>5, <2>1 DEF CallGet, Goto, SetCtx
<1>6. ASSUME CallList(p) PROVE \E c, l : To(c, l)
  <2>1. ASSUME NEW c, c = [Called("list", NULL, NULL) EXCEPT !.todo = Sessions]
        PROVE  c.must = acked /\ c.op = "list" /\ c.todo = Sessions
    BY <2>1 DEF Called, Blank
  <2> QED BY <1>6, <2>1 DEF CallList, Goto, SetCtx
<1>7. ASSUME NEW s \in Sessions, CallDelete(p, s) PROVE \E c, l : To(c, l)
  <2> DEFINE call(i) == [Called("delete", s, UserOf[s]) EXCEPT !.inc = i]
             listed(i) == [call(i) EXCEPT !.todo = Sessions]
  <2>1. \A i : call(i).must = acked /\ call(i).op = "delete"
    BY DEF Called, Blank
  <2>2. \A i : listed(i).must = acked /\ listed(i).op = "delete"
    BY DEF Called, Blank
  <2>3. \E i, l : Goto(p, l) /\ (SetCtx(p, call(i)) \/ SetCtx(p, listed(i)))
    BY <1>7 DEF CallDelete
  <2> HIDE DEF call, listed
  <2>4. ASSUME NEW i, NEW l, Goto(p, l), SetCtx(p, call(i)) PROVE To(call(i), l)
    BY <2>1, <2>4 DEF Goto, SetCtx, Aside
  <2>5. ASSUME NEW i, NEW l, Goto(p, l), SetCtx(p, listed(i)) PROVE To(listed(i), l)
    BY <2>2, <2>5 DEF Goto, SetCtx, Aside
  <2> QED BY <2>3, <2>4, <2>5
<1> QED BY <1>2, <1>3, <1>4, <1>5, <1>6, <1>7 DEF Call

(* The steps that leave the shared state alone.                            *)
LEMMA AsideCurrent ==
  ASSUME StoreInv, CurrentInv, NEW p \in Procs, Around(p),
         \/ CreateRefused(p) \/ AppendRefused(p) \/ FallbackFails(p)
         \/ CreateBegins(p) \/ readSharedProjection(p) \/ ensureRecordInventory(p)
         \/ reserveRecord(p) \/ persistCreateStart(p) \/ validateReservedRecord(p)
         \/ commitCreate(p) \/ ResumeLoads(p) \/ AppendLoads(p) \/ appendNewEvent(p)
         \/ WriteDeleteMarker(p) \/ removeSessionLog(p) \/ removeCreateMarker(p) \/ finishDeleteMarker(p)
  PROVE  CurrentInv'
<1>1. UNCHANGED <<pending, acked>>
  BY DEF CreateRefused, AppendRefused, FallbackFails, CreateBegins, readSharedProjection,
     ensureRecordInventory, reserveRecord, persistCreateStart, validateReservedRecord, commitCreate,
     ResumeLoads, AppendLoads, appendNewEvent, WriteDeleteMarker, removeSessionLog,
     removeCreateMarker, finishDeleteMarker, volatile, history
<1>2. ctx[p] \in Contexts /\ ctx[p].must \subseteq acked
  BY CallerAt DEF StoreInv, CurrentInv, CurrentAt
<1> DEFINE To(c, l) == SetCtx(p, c) /\ Goto(p, l) /\ c.must = ctx[p].must /\ Aside(c, l)
<1>3. ASSUME NEW c, NEW l, To(c, l) PROVE CurrentInv'
  BY <1>1, <1>2, <1>3, CurrentAside DEF SetCtx, Goto
<1>4. UNCHANGED ctx => SetCtx(p, ctx[p])
  BY DEF SetCtx, StoreInv, TypeInv, CallersType
<1>5. CASE CreateRefused(p) \/ AppendRefused(p) \/ FallbackFails(p)
  BY <1>1, <1>5, CurrentReturn DEF CreateRefused, AppendRefused, FallbackFails
<1>6. CASE CreateBegins(p)
  <2>1. ASSUME NEW s, NEW c, c = [ctx[p] EXCEPT !.inc = cmark[s], !.ord = cmark[s]]
        PROVE  c.must = ctx[p].must
    BY <1>2, <2>1 DEF Contexts
  <2> QED BY <1>3, <1>6, <2>1 DEF CreateBegins, Aside
<1>7. CASE readSharedProjection(p)
  <2> DEFINE next == CASE ctx[p].op = "append" -> "append"
                       [] ctx[p].inc = 0 -> "reserve"
                       [] OTHER -> "validate"
  <2>1. next \in {"append", "reserve", "validate"}
    OBVIOUS
  <2>2. Return(p) \/ (Goto(p, next) /\ UNCHANGED ctx)
    BY <1>7 DEF readSharedProjection
  <2>3. Goto(p, next) /\ UNCHANGED ctx => To(ctx[p], next)
    BY <1>4, <2>1 DEF Aside
  <2> QED BY <1>1, <1>3, <2>2, <2>3, CurrentReturn
<1>8. CASE ensureRecordInventory(p)
  <2>1. Return(p) \/ UNCHANGED <<projL, pc, ctx>>
    BY <1>8 DEF ensureRecordInventory, locks
  <2> QED BY <1>1, <2>1, CurrentReturn, CurrentStays
<1>9. CASE reserveRecord(p)
  <2>1. ASSUME NEW r, NEW c, c = [ctx[p] EXCEPT !.ord = r.ord, !.inc = r.inc]
        PROVE  c.must = ctx[p].must
    BY <1>2, <2>1 DEF Contexts
  <2>2. \/ Return(p)
        \/ \E c, l, r : /\ c = [ctx[p] EXCEPT !.ord = r.ord, !.inc = r.inc]
                        /\ l \in {"marker", "commit"} /\ SetCtx(p, c) /\ Goto(p, l)
    BY <1>9 DEF reserveRecord
  <2> QED BY <1>1, <1>3, <2>1, <2>2, CurrentReturn DEF Aside
<1>10. CASE AppendLoads(p)
  <2>1. ASSUME NEW r, NEW c, c = [ctx[p] EXCEPT !.ord = r.ord] PROVE c.must = ctx[p].must
    BY <1>2, <2>1 DEF Contexts
  <2> QED BY <1>3, <1>4, <1>10, <2>1 DEF AppendLoads, Aside
<1>11. CASE \/ persistCreateStart(p) \/ validateReservedRecord(p) \/ commitCreate(p)
            \/ ResumeLoads(p) \/ appendNewEvent(p)
  <2>1. Return(p) \/ (UNCHANGED ctx /\ \E l \in {"header", "resume", "reconcile"} : Goto(p, l))
    BY <1>11 DEF persistCreateStart, validateReservedRecord, commitCreate, ResumeLoads, appendNewEvent
  <2> QED BY <1>1, <1>3, <1>4, <2>1, CurrentReturn DEF Aside
<1>12. CASE WriteDeleteMarker(p) \/ removeSessionLog(p) \/ removeCreateMarker(p) \/ finishDeleteMarker(p)
  <2>1. ctx[p].op = "delete"
    BY <1>12, CallerAt DEF WriteDeleteMarker, removeSessionLog, removeCreateMarker, finishDeleteMarker,
       StoreInv, Local
  <2>2. Return(p) \/ (UNCHANGED ctx /\ \E l : Goto(p, l))
    BY <1>12 DEF WriteDeleteMarker, removeSessionLog, removeCreateMarker, finishDeleteMarker
  <2> QED BY <1>1, <1>3, <1>4, <2>1, <2>2, CurrentReturn DEF Aside
<1> QED BY <1>5, <1>6, <1>7, <1>8, <1>9, <1>10, <1>11, <1>12

LEMMA CallerAfter ==
  ASSUME TypeInv', NEW p \in Procs, NEW c, NEW l, c = ctx'[p], l = pc'[p]
  PROVE  c \in Contexts /\ Local(c, l)
  BY DEF TypeInv, CallersType, Local

(* p goes on with what it knew.                                            *)
LEMMA CurrentGoesOn ==
  ASSUME StoreInv, TypeInv', CurrentInv, NEW p \in Procs, Around(p), NEW c, NEW l,
         pc' = [pc EXCEPT ![p] = l], ctx' = [ctx EXCEPT ![p] = c],
         UNCHANGED <<pending, acked>>, CurrentAt(c, l), Settles(c, l) => projL' = p
  PROVE  CurrentInv'
<1>1. c = ctx'[p] /\ l = pc'[p]
  BY DEF StoreInv, TypeInv, CallersType
<1>2. c \in Contexts /\ Local(c, l)
  BY <1>1, CallerAfter
<1>3. CurrentAt(c, l)'
  BY <1>2, CurrentAtKept DEF PendingKept, Around
<1> QED BY <1>3, CurrentQuiet

LEMMA reconcileCurrent ==
  ASSUME StoreInv, DurableInv, CurrentInv, NEW p \in Procs, Around(p), reconcileCommittedShared(p)
  PROVE  CurrentInv'
<1> SUFFICES ASSUME NEW c, c = [ctx[p] EXCEPT !.todo = Sessions] PROVE CurrentInv'
  OBVIOUS
<1>1. /\ pc[p] = "reconcile" /\ UNCHANGED <<log, acked>> /\ projL = NULL /\ projL' = p
      /\ pending' = pending \cup log[ctx[p].ses]
      /\ pc' = [pc EXCEPT ![p] = "scan"] /\ ctx' = [ctx EXCEPT ![p] = c]
  BY DEF reconcileCommittedShared, durable, history, TakeProject, Goto, SetCtx
<1>2. ctx[p] \in Contexts /\ ctx[p].ses \in Sessions /\ ctx[p].op \in {"create", "append"}
  BY <1>1, CallerAt DEF StoreInv, Local
<1>3. /\ c.op = ctx[p].op /\ c.ses = ctx[p].ses /\ Recorded(c) = Recorded(ctx[p])
      /\ c.must = ctx[p].must /\ c.todo = Sessions
  BY <1>2 DEF Contexts, Recorded
<1>4. Recorded(c) \in log[c.ses] /\ c.must \subseteq acked
  BY <1>1, <1>2, <1>3 DEF DurableInv, DurableAt, Late, CurrentInv, CurrentAt
<1>5. \A r \in log[c.ses] : r.ses = c.ses
  BY <1>2, <1>3, RecordsOf
<1>6. \A r \in acked \cup pending : r.ses \in Sessions /\ Covered(r, log[r.ses], appJ, userJ)
  BY DEF StoreInv, TypeInv, HistoryType, VolatileType, RecSets, Records, DurableInv, CurrentInv
<1>7. \A s \in Sessions : log[s] \subseteq Reach(c, log')
  BY <1>1, <1>3 DEF Reach
<1>8. \A r \in acked \cup pending' : Covered(r, Reach(c, log'), appJ', userJ')
  <2>1. ASSUME NEW r \in acked \cup pending PROVE Covered(r, Reach(c, log'), appJ', userJ')
    BY <1>6, <1>7, <2>1, CoveredOn DEF Around
  <2>2. ASSUME NEW r \in log[c.ses] PROVE Covered(r, Reach(c, log'), appJ', userJ')
    BY <1>2, <1>3, <1>7, <2>2 DEF Covered
  <2> QED BY <1>1, <1>3, <2>1, <2>2
<1>9. \A r \in Due(c) : Covered(r, Reach(c, log'), appJ', userJ')
  BY <1>1, <1>3, <1>4, <1>8 DEF Due
<1>10. Covered(Recorded(c), pending', appJ', userJ')
  BY <1>1, <1>3, <1>4 DEF Covered
<1>11. CurrentAt(c, "scan")'
  BY <1>1, <1>4, <1>8, <1>9, <1>10 DEF CurrentAt, Due, Reach, Recorded
<1>12. \A r \in pending' \ pending : Covered(r, log'[r.ses], appJ', userJ')
  BY <1>1, <1>3, <1>5 DEF Covered
<1> QED BY <1>1, <1>11, <1>12, CurrentMove DEF PendingKept

LEMMA scanAppCurrent ==
  ASSUME StoreInv, TypeInv', CurrentInv, NEW p \in Procs, Around(p), NEW s \in Sessions, scanApp(p, s)
  PROVE  CurrentInv'
<1> DEFINE found == IF file[s] = "ok" THEN ctx[p].scan \cup log[s] ELSE ctx[p].scan
           last == ctx[p].todo = {s}
<1> SUFFICES ASSUME NEW c, NEW l,
                    c = [ctx[p] EXCEPT !.todo = @ \ {s}, !.scan = found,
                          !.left = IF last /\ ctx[p].op = "list" THEN UsersIn(found) ELSE @],
                    l = IF last THEN AfterScan(p) ELSE "scan"
             PROVE  CurrentInv'
  OBVIOUS
<1>1. /\ pc[p] = "scan" /\ UNCHANGED <<pending, acked, projL>> /\ ctx[p] \in Contexts
      /\ CurrentAt(ctx[p], pc[p]) /\ (Settles(ctx[p], pc[p]) => projL = p)
  BY CallerAt DEF scanApp, volatile, locks, history, StoreInv, CurrentInv
<1>2. /\ c.op = ctx[p].op /\ Recorded(c) = Recorded(ctx[p]) /\ c.must = ctx[p].must
      /\ c.todo = ctx[p].todo \ {s} /\ c.scan = found
  BY <1>1 DEF Contexts, Recorded
<1>3. /\ pc' = [pc EXCEPT ![p] = l] /\ ctx' = [ctx EXCEPT ![p] = c]
      /\ l \in {"scan", "repair", "project"}
  BY DEF scanApp, Goto, SetCtx, AfterScan
<1>4. Reach(ctx[p], log) \subseteq Reach(c, log)
  <2>1. file[s] # "ok" => log[s] = {}
    BY DEF StoreInv, IdentityInv, NoFileNoLog
  <2> QED BY <1>2, <2>1 DEF Reach
<1> HIDE DEF found, last
<1>5. Due(c) = Due(ctx[p])
  BY <1>2 DEF Due
<1>6. \A r : Covered(r, Reach(ctx[p], log), appJ, userJ) => Covered(r, Reach(c, log), appJ, userJ)
  BY <1>4 DEF Covered
<1>7. CurrentAt(c, l)
  BY <1>1, <1>2, <1>3, <1>5, <1>6 DEF CurrentAt
<1>8. Settles(c, l) => projL' = p
  BY <1>1, <1>2 DEF Settles
<1> QED BY <1>1, <1>3, <1>7, <1>8, CurrentGoesOn

LEMMA ScanEndsCurrent ==
  ASSUME StoreInv, TypeInv', CurrentInv, NEW p \in Procs, Around(p), NEW s \in Sessions, ScanEnds(p, s)
  PROVE  CurrentInv'
<1>1. /\ pc[p] = "scan" /\ UNCHANGED <<pending, acked>> /\ ctx[p] \in Contexts
      /\ CurrentAt(ctx[p], pc[p]) /\ (Settles(ctx[p], pc[p]) => projL = p)
  BY CallerAt DEF ScanEnds, volatile, history, StoreInv, CurrentInv
<1>2. CASE Return(p)
  BY <1>1, <1>2, CurrentReturn
<1>3. CASE ~Return(p)
  <2> SUFFICES ASSUME NEW c, c = [ctx[p] EXCEPT !.todo = {}, !.scan = pending] PROVE CurrentInv'
    OBVIOUS
  <2>1. /\ pc' = [pc EXCEPT ![p] = "fallback"] /\ ctx' = [ctx EXCEPT ![p] = c]
        /\ Reconciling(p) /\ UNCHANGED projL
    BY <1>3 DEF ScanEnds, Goto, SetCtx, locks
  <2>2. /\ c.op = ctx[p].op /\ Recorded(c) = Recorded(ctx[p]) /\ c.must = ctx[p].must
        /\ c.scan = pending /\ c.op \in {"create", "append"}
    BY <1>1, <2>1 DEF Contexts, Recorded, Reconciling
  <2>3. \A r \in Due(c) : Covered(r, pending, appJ, userJ)
    BY <1>1, <2>2 DEF Due, CurrentAt, CurrentInv
  <2>4. \A r \in Due(c) : Covered(r, Reach(c, log), appJ, userJ)
    BY <2>2, <2>3 DEF Covered, Reach
  <2>5. CurrentAt(c, "fallback") /\ projL' = p
    BY <1>1, <2>1, <2>2, <2>4 DEF CurrentAt, Settles
  <2> QED BY <1>1, <2>1, <2>5, CurrentGoesOn
<1> QED BY <1>2, <1>3

LEMMA repairSharedCurrent ==
  ASSUME StoreInv, TypeInv', CurrentInv, NEW p \in Procs, Around(p), repairShared(p)
  PROVE  CurrentInv'
<1>1. /\ pc[p] = "project" /\ UNCHANGED <<pending, acked>> /\ ctx[p] \in Contexts
      /\ ctx[p].op \notin {"create", "append"} /\ pc' = [pc EXCEPT ![p] = "repair"]
      /\ CurrentAt(ctx[p], pc[p])
  BY CallerAt DEF repairShared, volatile, history, Goto, StoreInv, CurrentInv, Local
<1>2. PICK c : /\ ctx' = [ctx EXCEPT ![p] = c]
               /\ c.op = ctx[p].op /\ c.must = ctx[p].must
               /\ c.todo = ctx[p].todo /\ c.scan = ctx[p].scan
  <2>1. CASE UNCHANGED ctx
    <3>1. ctx' = [ctx EXCEPT ![p] = ctx[p]]
      BY <2>1 DEF StoreInv, TypeInv, CallersType
    <3> QED BY <3>1
  <2>2. ASSUME NEW u, SetCtx(p, [ctx[p] EXCEPT !.user = u, !.left = @ \ {u}])
        PROVE  \E c : /\ ctx' = [ctx EXCEPT ![p] = c]
                      /\ c.op = ctx[p].op /\ c.must = ctx[p].must
                      /\ c.todo = ctx[p].todo /\ c.scan = ctx[p].scan
    <3>1. ASSUME NEW c, c = [ctx[p] EXCEPT !.user = u, !.left = @ \ {u}]
          PROVE  /\ c.op = ctx[p].op /\ c.must = ctx[p].must
                 /\ c.todo = ctx[p].todo /\ c.scan = ctx[p].scan
      BY <1>1, <3>1 DEF Contexts
    <3> QED BY <2>2, <3>1 DEF SetCtx
  <2> QED BY <2>1, <2>2 DEF repairShared
<1>3. Due(c) = Due(ctx[p]) /\ Reach(c, log) = Reach(ctx[p], log)
  BY <1>1, <1>2 DEF Due, Reach
<1>4. CurrentAt(c, "repair") /\ ~Settles(c, "repair")
  BY <1>1, <1>2, <1>3 DEF CurrentAt, Settles
<1> QED BY <1>1, <1>2, <1>4, CurrentGoesOn

(* Where p takes its projection, the scanned records hold what is due.     *)
LEMMA Scanned ==
  ASSUME StoreInv, DurableInv, CurrentInv, NEW p \in Procs, pc[p] \in {"repair", "refallback", "fallback"}
  PROVE  /\ ctx[p] \in Contexts /\ Local(ctx[p], pc[p]) /\ CurrentAt(ctx[p], pc[p])
         /\ ctx[p].todo = {} /\ Reach(ctx[p], log) = ctx[p].scan
         /\ Settles(ctx[p], pc[p]) => projL = p
<1>1. ctx[p].todo = {}
  BY DEF DurableInv, DurableAt
<1> QED BY <1>1, CallerAt DEF StoreInv, CurrentInv, Reach

(* A projection that holds what is due is handed on.                       *)
LEMMA ProjectedCurrent ==
  ASSUME StoreInv, TypeInv', DurableInv, CurrentInv, NEW p \in Procs, Around(p), PendingKept,
         NEW app, NEW usr, Projected(p, app, usr), pc[p] \in {"repair", "fallback"},
         UNCHANGED acked, pending' \subseteq pending,
         ctx[p].op # "delete" =>
           \A r \in Due(ctx[p]) :
             r \in app /\ (Owner(r) = ctx[p].user /\ r.ev \in UserEvents => r \in usr)
  PROVE  CurrentInv'
<1> SUFFICES ASSUME NEW c, c = [ctx[p] EXCEPT !.app = app, !.usr = usr] PROVE CurrentInv'
  OBVIOUS
<1>1. /\ ctx[p] \in Contexts /\ CurrentAt(ctx[p], pc[p]) /\ ctx[p].todo = {}
  BY Scanned
<1>2. /\ c.op = ctx[p].op /\ Recorded(c) = Recorded(ctx[p]) /\ c.must = ctx[p].must
      /\ c.todo = ctx[p].todo /\ c.scan = ctx[p].scan /\ c.user = ctx[p].user
      /\ c.app = app /\ c.usr = usr
  BY <1>1 DEF Contexts, Recorded
<1>3. PICK l : /\ pc' = [pc EXCEPT ![p] = l] /\ l \in {"finish", "mark", "project", "done"}
               /\ c.op \in {"create", "append"} => l # "project"
  <2>1. /\ AfterProjection(p) \in {"finish", "mark", "project", "done"}
        /\ ctx[p].op \in {"create", "append"} => AfterProjection(p) # "project"
    BY DEF AfterProjection
  <2> QED BY <1>2, <2>1 DEF Projected, Goto
<1>4. ctx' = [ctx EXCEPT ![p] = c]
  BY DEF Projected, SetCtx
<1>5. Due(c) = Due(ctx[p]) /\ Reach(c, log) = Reach(ctx[p], log)
  BY <1>2 DEF Due, Reach
<1>6. c.op # "delete" => Shown(c)
  BY <1>2, <1>5 DEF Shown
<1>7. CurrentAt(c, l)
  BY <1>1, <1>2, <1>3, <1>5, <1>6 DEF CurrentAt
<1>8. c = ctx'[p] /\ l = pc'[p]
  BY <1>3, <1>4 DEF StoreInv, TypeInv, CallersType
<1>9. c \in Contexts /\ Local(c, l)
  BY <1>8, CallerAfter
<1>10. CurrentAt(c, l)'
  BY <1>7, <1>9, CurrentAtKept DEF Around
<1>11. ~Settles(c, l)
  BY <1>3 DEF Settles
<1> QED BY <1>3, <1>4, <1>10, <1>11, CurrentMove

(* Reconciliation forgets a pending record when both its deltas are        *)
(* journaled.                                                              *)
LEMMA RepairDoneCurrent ==
  ASSUME StoreInv, TypeInv', DurableInv, CurrentInv, NEW p \in Procs, Around(p), RepairDone(p)
  PROVE  CurrentInv'
<1>1. /\ pc[p] = "repair" /\ UNCHANGED <<acked, appJ, userJ>> /\ Projected(p, appJ, userJ[ctx[p].user])
      /\ ctx[p].scan \subseteq appJ
      /\ \A r \in ctx[p].scan : Owner(r) = ctx[p].user => r \in userJ[ctx[p].user]
  BY DEF RepairDone, durable, history, AppMissing, UserMissing, OwnedBy, projectJournal, projectUserJournal
<1>2. /\ CurrentAt(ctx[p], pc[p]) /\ Reach(ctx[p], log) = ctx[p].scan
  BY <1>1, Scanned
<1>3. PendingKept /\ pending' \subseteq pending
  <2>1. CASE pending' = pending
    BY <2>1 DEF PendingKept
  <2>2. CASE Reconciling(p) /\ pending' = {r \in pending : Owner(r) # ctx[p].user /\ r.ev \in UserEvents}
    <3>1. \A r \in pending : Covered(r, ctx[p].scan, appJ, userJ)
      BY <1>1, <1>2, <2>2 DEF CurrentAt, Reconciling
    <3>2. ASSUME NEW r \in pending, r \notin pending' PROVE Covered(r, {}, appJ', userJ')
      BY <1>1, <2>2, <3>1, <3>2 DEF Covered
    <3> QED BY <2>2, <3>2 DEF PendingKept
  <2> QED BY <2>1, <2>2 DEF RepairDone
<1>4. ASSUME ctx[p].op # "delete", NEW r \in Due(ctx[p])
      PROVE  r \in appJ /\ (Owner(r) = ctx[p].user /\ r.ev \in UserEvents => r \in userJ[ctx[p].user])
  BY <1>1, <1>2, <1>4 DEF CurrentAt, Covered
<1> QED BY <1>1, <1>3, <1>4, ProjectedCurrent

LEMMA RepairCurrent ==
  ASSUME StoreInv, TypeInv', DurableInv, CurrentInv, NEW p \in Procs, Around(p),
         RepairApp(p) \/ RepairUser(p) \/ RepairFails(p)
  PROVE  CurrentInv'
<1>1. pc[p] = "repair" /\ UNCHANGED <<pending, acked>>
  BY DEF RepairApp, RepairUser, RepairFails, volatile, history
<1>2. CASE RepairApp(p) \/ RepairUser(p)
  BY <1>1, <1>2, CurrentStays DEF RepairApp, RepairUser, locks
<1>3. /\ ctx[p] \in Contexts /\ CurrentAt(ctx[p], pc[p]) /\ ctx[p].todo = {}
      /\ Settles(ctx[p], pc[p]) => projL = p
  BY <1>1, Scanned
<1>4. CASE Return(p)
  BY <1>1, <1>4, CurrentReturn
<1>5. CASE /\ Reconciling(p) /\ SetCtx(p, [ctx[p] EXCEPT !.scan = @ \cup pending])
           /\ Goto(p, "fallback") /\ UNCHANGED locks
  <2> SUFFICES ASSUME NEW c, c = [ctx[p] EXCEPT !.scan = @ \cup pending] PROVE CurrentInv'
    OBVIOUS
  <2>1. pc' = [pc EXCEPT ![p] = "fallback"] /\ ctx' = [ctx EXCEPT ![p] = c] /\ UNCHANGED projL
    BY <1>5 DEF Goto, SetCtx, locks
  <2>2. /\ c.op = ctx[p].op /\ Recorded(c) = Recorded(ctx[p]) /\ c.must = ctx[p].must
        /\ c.todo = ctx[p].todo /\ ctx[p].scan \subseteq c.scan /\ c.op \in {"create", "append"}
    BY <1>3, <1>5 DEF Contexts, Recorded, Reconciling
  <2>3. Due(c) = Due(ctx[p]) /\ Reach(ctx[p], log) \subseteq Reach(c, log)
    BY <2>2 DEF Due, Reach
  <2>4. \A r : Covered(r, Reach(ctx[p], log), appJ, userJ) => Covered(r, Reach(c, log), appJ, userJ)
    BY <2>3 DEF Covered
  <2>5. CurrentAt(c, "fallback") /\ projL' = p
    BY <1>1, <1>3, <2>1, <2>2, <2>3, <2>4 DEF CurrentAt, Settles
  <2> QED BY <1>1, <2>1, <2>5, CurrentGoesOn
<1>6. CASE ctx[p].op \in {"get", "list"} /\ Goto(p, "refallback") /\ UNCHANGED ctx
  <2> SUFFICES ASSUME NEW c, c = ctx[p] PROVE CurrentInv'
    OBVIOUS
  <2>1. pc' = [pc EXCEPT ![p] = "refallback"] /\ ctx' = [ctx EXCEPT ![p] = c]
    BY <1>6 DEF Goto, StoreInv, TypeInv, CallersType
  <2>2. CurrentAt(c, "refallback") /\ ~Settles(c, "refallback")
    BY <1>1, <1>3, <1>6 DEF CurrentAt, Settles
  <2> QED BY <1>1, <2>1, <2>2, CurrentGoesOn
<1> QED BY <1>2, <1>4, <1>5, <1>6 DEF RepairFails

LEMMA FallbackCurrent ==
  ASSUME StoreInv, TypeInv', DurableInv, CurrentInv, NEW p \in Procs, Around(p),
         authoritativeFallback(p) \/ FallbackToJournals(p)
  PROVE  CurrentInv'
<1>1. pc[p] \in {"refallback", "fallback"} /\ UNCHANGED <<pending, acked>>
  BY DEF authoritativeFallback, FallbackToJournals, volatile, history
<1>2. /\ CurrentAt(ctx[p], pc[p]) /\ Reach(ctx[p], log) = ctx[p].scan /\ Local(ctx[p], pc[p])
  BY <1>1, Scanned
<1>3. CASE authoritativeFallback(p)
  <2> SUFFICES ASSUME NEW c, c = ctx[p] PROVE CurrentInv'
    OBVIOUS
  <2>1. pc[p] = "refallback" /\ pc' = [pc EXCEPT ![p] = "fallback"] /\ ctx' = [ctx EXCEPT ![p] = c]
    BY <1>3 DEF authoritativeFallback, Goto, StoreInv, TypeInv, CallersType
  <2>2. CurrentAt(c, "fallback") /\ ~Settles(c, "fallback")
    BY <1>2, <2>1 DEF CurrentAt, Settles, Local
  <2> QED BY <1>1, <2>1, <2>2, CurrentGoesOn
<1>4. CASE FallbackToJournals(p)
  <2>1. ASSUME ctx[p].op # "delete", NEW r \in Due(ctx[p])
        PROVE  /\ r \in mergePendingApp(p)
               /\ Owner(r) = ctx[p].user /\ r.ev \in UserEvents => r \in mergePendingUser(p)
    <3>1. Covered(r, ctx[p].scan, appJ, userJ)
      BY <1>1, <1>2, <2>1 DEF CurrentAt
    <3> QED BY <3>1 DEF Covered, mergePendingApp, mergePendingUser, OwnedBy
  <2> QED BY <1>1, <1>4, <2>1, ProjectedCurrent DEF FallbackToJournals, PendingKept
<1> QED BY <1>3, <1>4

LEMMA finishCreateMarkerCurrent ==
  ASSUME StoreInv, TypeInv', CurrentInv, NEW p \in Procs, Around(p), finishCreateMarker(p)
  PROVE  CurrentInv'
<1>1. pc[p] = "finish" /\ UNCHANGED <<pending, acked>> /\ CurrentAt(ctx[p], pc[p])
  BY DEF finishCreateMarker, volatile, history, CurrentInv
<1>2. CASE Return(p)
  BY <1>1, <1>2, CurrentReturn
<1>3. CASE Goto(p, "done") /\ UNCHANGED ctx
  <2> SUFFICES ASSUME NEW c, c = ctx[p] PROVE CurrentInv'
    OBVIOUS
  <2>1. pc' = [pc EXCEPT ![p] = "done"] /\ ctx' = [ctx EXCEPT ![p] = c]
    BY <1>3 DEF Goto, StoreInv, TypeInv, CallersType
  <2>2. CurrentAt(c, "done") /\ ~Settles(c, "done")
    BY <1>1 DEF CurrentAt, Settles
  <2> QED BY <1>1, <2>1, <2>2, CurrentGoesOn
<1> QED BY <1>2, <1>3 DEF finishCreateMarker

LEMMA FinishCurrent ==
  ASSUME StoreInv, CurrentInv, NEW p \in Procs, Around(p), Finish(p)
  PROVE  CurrentInv'
<1> SUFFICES ASSUME NEW c, NEW l, c = Blank, l = "idle" PROVE CurrentInv'
  OBVIOUS
<1>1. /\ pc[p] = "done" /\ UNCHANGED <<pending, appJ, userJ>>
      /\ pc' = [pc EXCEPT ![p] = l] /\ ctx' = [ctx EXCEPT ![p] = c]
      /\ \/ UNCHANGED acked
         \/ ctx[p].op \in {"create", "append"} /\ acked' = acked \cup {Rec(p)}
  BY DEF Finish, durable, Return, Goto, SetCtx
<1>2. CurrentAt(c, l)' /\ ~Settles(c, l)
  <2>1. c.must = {}
    BY DEF Blank
  <2> QED BY <2>1 DEF CurrentAt, Settles
<1>3. ctx[p].op \in {"create", "append"} => Covered(Rec(p), pending, appJ, userJ)
  BY <1>1 DEF CurrentInv, CurrentAt, Recorded, Rec
<1>4. \A r \in acked' \ acked : Covered(r, pending', appJ', userJ')
  BY <1>1, <1>3
<1> QED BY <1>1, <1>2, <1>4, CurrentMove DEF PendingKept

LEMMA CurrentStep ==
  ASSUME "seqlost" \notin Faults, "read" \notin Faults, ~CanCrash,
         StoreInv, DurableInv, CurrentInv, [Next]_vars
  PROVE  CurrentInv'
<1>0. TypeInv' /\ JournalsGrow /\ LogsKept /\ \A p \in Procs : Call(p) \/ Step(p) => Around(p)
  BY TypeStep, JournalsOnlyGrow, LogsAreKept, ProjectIsKept DEF StoreInv, Around
<1>1. CASE UNCHANGED vars
  <2>1. \A p \in Procs : UNCHANGED <<ctx, pc>> /\ Around(p)
    BY <1>0, <1>1 DEF vars, volatile, locks, Around, ProjectKept
  <2>2. UNCHANGED <<pending, acked, projL, pc, ctx, log, appJ, userJ>>
    BY <1>1 DEF vars, durable, volatile, locks, history
  <2>3. CASE Procs # {}
    BY <2>1, <2>2, <2>3, CurrentStays
  <2>4. CASE Procs = {}
    BY <2>2, <2>4 DEF CurrentInv, Covered, Owner
  <2> QED BY <2>3, <2>4
<1>2. ASSUME NEW p \in Procs, Call(p) PROVE CurrentInv'
  BY <1>0, <1>2, CallCurrent
<1>3. ASSUME NEW p \in Procs, Step(p) PROVE CurrentInv'
  <2>0. Around(p)
    BY <1>0, <1>3
  <2>1. CASE \/ CreateRefused(p) \/ AppendRefused(p) \/ FallbackFails(p)
             \/ CreateBegins(p) \/ readSharedProjection(p) \/ ensureRecordInventory(p)
             \/ reserveRecord(p) \/ persistCreateStart(p) \/ validateReservedRecord(p)
             \/ commitCreate(p) \/ ResumeLoads(p) \/ AppendLoads(p) \/ appendNewEvent(p)
             \/ WriteDeleteMarker(p) \/ removeSessionLog(p) \/ removeCreateMarker(p) \/ finishDeleteMarker(p)
    BY <2>0, <2>1, AsideCurrent
  <2>2. CASE finishCreateMarker(p) \/ Finish(p) \/ reconcileCommittedShared(p)
             \/ \E s \in Sessions : scanApp(p, s) \/ ScanEnds(p, s)
    BY <1>0, <2>0, <2>2, finishCreateMarkerCurrent, FinishCurrent, reconcileCurrent, scanAppCurrent, ScanEndsCurrent
  <2>3. CASE \/ repairShared(p) \/ RepairApp(p) \/ RepairUser(p) \/ RepairDone(p) \/ RepairFails(p)
             \/ authoritativeFallback(p) \/ FallbackToJournals(p)
    BY <1>0, <2>0, <2>3, repairSharedCurrent, RepairCurrent, RepairDoneCurrent, FallbackCurrent
  <2>4. ~FallbackToCache(p)
    BY DEF FallbackToCache
  <2> QED BY <1>3, <2>1, <2>2, <2>3, <2>4 DEF Step
<1>4. ~Crash /\ ~LoseSequence
  BY DEF Crash, LoseSequence
<1> QED BY <1>1, <1>2, <1>3, <1>4 DEF Next

LEMMA CurrentImplies == CurrentInv => ReadsAreCurrent
<1> SUFFICES ASSUME CurrentInv, NEW p \in Procs, pc[p] = "done", ctx[p].op # "delete"
             PROVE  /\ Due(ctx[p]) \subseteq ctx[p].app
                    /\ {r \in OwnedBy(ctx[p].user, Due(ctx[p])) : r.ev \in UserEvents} \subseteq ctx[p].usr
  BY DEF ReadsAreCurrent, Due, Recorded, Rec
<1> QED BY DEF CurrentInv, CurrentAt, Shown, OwnedBy

(* While the process lives, can read its files and resumes no failed       *)
(* Delete, every projection that is returned holds every delta that was    *)
(* acknowledged before the operation began, whichever journal and          *)
(* transcript writes fail and whichever transcripts come and go.           *)
THEOREM ReadsStayCurrent ==
  ASSUME "seqlost" \notin Faults, "read" \notin Faults, ~CanCrash
  PROVE  Spec /\ []DeletesRunThrough => []ReadsAreCurrent
<1>1. (Init => StoreInv) /\ (StoreInv /\ [Next]_vars => StoreInv')
  BY StoreInvariant
<1>2. Init => DurableInv /\ CurrentInv
  BY DurableInit, CurrentInit
<1>3. StoreInv /\ DurableInv /\ DeletesRunThrough /\ [Next]_vars => DurableInv'
  BY DurableStep
<1>4. StoreInv /\ DurableInv /\ CurrentInv /\ [Next]_vars => CurrentInv'
  BY CurrentStep
<1>5. CurrentInv => ReadsAreCurrent
  BY CurrentImplies
<1> QED BY <1>1, <1>2, <1>3, <1>4, <1>5, PTL DEF Spec

(* Without the hypothesis on behaviors: where transcripts and markers can  *)
(* be written and the process lives, nothing acknowledged is lost.         *)
COROLLARY AcknowledgedStaysAlive ==
  ASSUME Faults \cap {"seqlost", "log", "marker"} = {}, ~CanCrash
  PROVE  Spec => []AckedDurable
<1>1. Spec => []DeletesRunThrough
  BY DeletesDoRunThrough
<1>2. Spec /\ []DeletesRunThrough => []AckedDurable
  BY AcknowledgedStays
<1> QED BY <1>1, <1>2, PTL

(* Where, besides, files can be read, every projection is current.         *)
COROLLARY ReadsStayCurrentAlive ==
  ASSUME Faults \cap {"seqlost", "log", "marker", "read"} = {}, ~CanCrash
  PROVE  Spec => []ReadsAreCurrent
<1>1. Spec => []DeletesRunThrough
  BY DeletesDoRunThrough
<1>2. Spec /\ []DeletesRunThrough => []ReadsAreCurrent
  BY ReadsStayCurrent
<1> QED BY <1>1, <1>2, PTL
=============================================================================
