--------------------------- MODULE FileMutation ---------------------------
(***************************************************************************)
(* The file tools of the coding tool set (src/codingtools/read.go,         *)
(* write.go, edit.go) with the workspace state they share: the mutation    *)
(* queue and the read ledger (src/workspace/queue.go, ledger.go).          *)
(*                                                                         *)
(* Tool calls of several sessions run concurrently over one directory.  A  *)
(* mutation reads the target, compares it with what its session last read, *)
(* writes a temporary file and renames it over the target, all inside the  *)
(* only slot of the queue.  A read works outside the queue and checks      *)
(* afterwards that the path still leads to the file it opened.  A command  *)
(* of the bash tool changes files without either.                          *)
(*                                                                         *)
(* A file is an inode of two halves, so that a change in place, a partial  *)
(* write and a localized edit can be told apart; an inode that nobody      *)
(* links or holds open may be used again at once, as os.SameFile cannot    *)
(* tell.  The output budget, the touch bus and the rendering of results    *)
(* are left out: they change neither files nor the ledger.                 *)
(***************************************************************************)
EXTENDS Naturals

CONSTANTS
  Callers,   \* tool calls that run at the same time
  Sessions,
  Paths,     \* workspace-relative paths after Root.Resolve
  Inodes,    \* bound: files, temporary files and open files at a time
  Halves,    \* what half a file may hold
  Ops,       \* the tools in use
  Faults,    \* what may go wrong
  NULL

(* What an inode may hold, and what a tool or a command puts into a file.  *)
Content == (Halves \cup {NULL}) \X (Halves \cup {NULL})
Texts == {<<v, v>> : v \in Halves}

ASSUME ConstantsAssumption ==
  /\ NULL \notin Callers \cup Paths \cup Inodes \cup Halves
  /\ NULL \notin Content
  /\ Ops \subseteq {"read", "write", "edit", "bash"}
  /\ Faults \subseteq {"error", "remove", "crash"}

VARIABLES
  \* the file system
  disk,     \* disk[p]: the inode that path p leads to, or NULL
  data,     \* data[i]: the content of inode i
  temps,    \* inodes that are linked under a temporary name only
  \* MutationQueue and Ledger
  queue,    \* the caller in the slot, or NULL
  ledger,   \* ledger[s][p]: the content whose hash is recorded, or NULL
  \* the callers
  pc, proc, \* where a call is, and its local variables
  \* history
  seen,     \* seen[s][p]: what the latest call of s read there or wrote, or NULL
  outside,  \* calls whose file was changed by bash since they looked at it
  leaked    \* temporary files left by a crash or a removal that failed

files   == <<disk, data, temps>>
history == <<seen, outside, leaked>>
vars    == <<files, queue, ledger, pc, proc, history>>

At(p) == IF disk[p] = NULL THEN NULL ELSE data[disk[p]]

\* ino: the inode opened or the temporary file; got: the bytes read from the
\* file that was opened; new: the bytes to put in its place;
\* late (history): another call of the session has reported on the path since
\* the verification
Idle == [op |-> "none", ses |-> NULL, path |-> NULL, ino |-> NULL, got |-> NULL,
         new |-> NULL, late |-> FALSE]

Init ==
  /\ disk \in [Paths -> Inodes \cup {NULL}]
  /\ \A p, q \in Paths : disk[p] = disk[q] /\ disk[p] # NULL => p = q
  /\ \E text \in Texts : data = [i \in Inodes |-> text]
  /\ temps = {}
  /\ queue = NULL
  /\ ledger = [s \in Sessions |-> [p \in Paths |-> NULL]]
  /\ pc = [c \in Callers |-> "idle"]
  /\ proc = [c \in Callers |-> Idle]
  /\ seen = [s \in Sessions |-> [p \in Paths |-> NULL]]
  /\ outside = {}
  /\ leaked = {}

-----------------------------------------------------------------------------
(* Control.  A definition named ..._Bug is that of a faulty tool: it       *)
(* breaks a property below when it stands in for the one it precedes.      *)

Goto(c, label) == pc' = [pc EXCEPT ![c] = label]
Path(c) == proc[c].path

(* The call returns, with a result or an error.  queue.Do gives the slot   *)
(* back on every path.                                                     *)
Release_Bug(c) == queue' = IF queue = c /\ pc[c] = "recordwrite" THEN NULL ELSE queue
Release(c) == queue' = IF queue = c THEN NULL ELSE queue
ReturnFrom(c, calls) ==
  /\ Goto(c, "idle")
  /\ proc' = [calls EXCEPT ![c] = Idle]
  /\ outside' = outside \ {c}
  /\ Release(c)
Return(c) == ReturnFrom(c, proc)

(* An error of the file system, or a refusal: the file is binary, too      *)
(* large, or the text to replace does not match; or the context of the     *)
(* call has ended.                                                         *)
Fails(c) == "error" \in Faults /\ Return(c)

(* Inodes in use: linked, temporary, or open.                              *)
Open == {proc[c].ino : c \in {d \in Callers : pc[d] \in {"read1", "read2", "old1", "old2"}}}
Used == {disk[p] : p \in Paths} \cup temps \cup Open

-----------------------------------------------------------------------------
(* read: outside the queue.                                                *)

Call(c) ==
  /\ pc[c] = "idle"
  /\ \E op \in Ops \ {"bash"}, s \in Sessions, p \in Paths :
       /\ proc' = [proc EXCEPT ![c] = [Idle EXCEPT !.op = op, !.ses = s, !.path = p]]
       /\ Goto(c, IF op = "read" THEN "open" ELSE "queue")
  /\ UNCHANGED <<files, queue, ledger, history>>

(* The path resolves to a file, which is opened.                           *)
Opens_Bug(c, label) ==
  /\ proc' = [proc EXCEPT ![c].ino = disk[Path(c)]]
  /\ Goto(c, label)
Opens(c, label) ==
  /\ disk[Path(c)] # NULL
  /\ proc' = [proc EXCEPT ![c].ino = disk[Path(c)]]
  /\ Goto(c, label)

OpenRead(c) ==
  /\ pc[c] = "open"
  /\ \/ Opens(c, "read1") /\ UNCHANGED <<queue, outside>>
     \/ disk[Path(c)] = NULL /\ Return(c)
     \/ Fails(c)
  /\ UNCHANGED <<files, ledger, seen, leaked>>

(* The two halves of an open file, one after the other.                    *)
ReadHalf(c, label, next, text) ==
  /\ pc[c] = label
  /\ \/ /\ proc' = [proc EXCEPT ![c].got = text]
        /\ Goto(c, next)
        /\ UNCHANGED <<queue, outside>>
     \/ Fails(c)
  /\ UNCHANGED <<files, ledger, seen, leaked>>

readOpenedFile(c, label, next) == ReadHalf(c, label, next, <<data[proc[c].ino][1], NULL>>)
readToEnd(c, label, next) == ReadHalf(c, label, next, <<proc[c].got[1], data[proc[c].ino][2]>>)

(* The path must still lead to the file that was opened, before and after  *)
(* the result is rendered.                                                 *)
verifyOpenedPath(c) == disk[Path(c)] = proc[c].ino
CheckRead(c, label, next) ==
  /\ pc[c] = label
  /\ \/ /\ verifyOpenedPath(c)
        /\ Goto(c, next)
        /\ UNCHANGED <<proc, queue, outside>>
     \/ ~verifyOpenedPath(c) /\ Return(c)
     \/ Fails(c)
  /\ UNCHANGED <<files, ledger, seen, leaked>>

(* Ledger.record, and the result of the call.                              *)
RecordIn_Bug(s, p, content) == ledger' = [t \in Sessions |-> [ledger[t] EXCEPT ![p] = content]]
RecordIn(s, p, content) == ledger' = [ledger EXCEPT ![s][p] = content]
Same(c, d) == proc[c].ses = proc[d].ses /\ Path(c) = Path(d)
Report(c, content) ==
  /\ RecordIn(proc[c].ses, Path(c), content)
  /\ seen' = [seen EXCEPT ![proc[c].ses][Path(c)] = content]
  /\ ReturnFrom(c, [d \in Callers |->
       [proc[d] EXCEPT !.late = @ \/ (Same(c, d) /\ pc[d] \in {"temp", "fill", "rename"})]])
  /\ UNCHANGED <<files, leaked>>

RecordRead(c) == pc[c] = "record" /\ Report(c, proc[c].got)

-----------------------------------------------------------------------------
(* write and edit: inside the slot of the queue.                           *)

(* MutationQueue.Do waits for the slot or for the end of the context.      *)
Acquire(c) ==
  /\ pc[c] = "queue"
  /\ queue = NULL
  /\ queue' = c
  /\ Goto(c, "inspect")
  /\ UNCHANGED <<files, ledger, proc, history>>

GiveUp(c) ==
  /\ pc[c] = "queue"
  /\ Fails(c)
  /\ UNCHANGED <<files, ledger, seen, leaked>>

(* A write may create its target; an edit needs one.                       *)
Inspect(c) ==
  /\ pc[c] = "inspect"
  /\ \/ Opens(c, "old1") /\ UNCHANGED <<queue, outside>>
     \/ /\ disk[Path(c)] = NULL /\ proc[c].op = "write"
        /\ Goto(c, "verify")
        /\ UNCHANGED <<proc, queue, outside>>
     \/ disk[Path(c)] = NULL /\ proc[c].op = "edit" /\ Return(c)
     \/ Fails(c)
  /\ UNCHANGED <<files, ledger, seen, leaked>>

(* Ledger.Verify: an existing target has to be what the session knows.     *)
Verified(c) == proc[c].got # NULL => ledger[proc[c].ses][Path(c)] = proc[c].got

(* What takes the place of the old content.  Of the text that textmatch    *)
(* produces for an edit only this is kept: it differs from the old one.    *)
Results(c) ==
  Texts \ (IF proc[c].op = "edit" THEN {proc[c].got} ELSE {})

Verify(c) ==
  /\ pc[c] = "verify"
  /\ \/ /\ Verified(c)
        /\ \E new \in Results(c) : proc' = [proc EXCEPT ![c].new = new, ![c].ino = NULL]
        /\ Goto(c, "temp")
        /\ UNCHANGED <<queue, outside>>
     \/ ~Verified(c) /\ Return(c)
     \/ Fails(c)
  /\ UNCHANGED <<files, ledger, seen, leaked>>

(* atomicReplaceFile: a new file beside the target; the half of it that is *)
(* written first could be seen if it were not under a name of its own.     *)
createRootTemp_Bug(c) ==
  /\ disk[Path(c)] # NULL
  /\ proc' = [proc EXCEPT ![c].ino = disk[Path(c)]]
  /\ data' = [data EXCEPT ![disk[Path(c)]] = <<proc[c].new[1], NULL>>]
  /\ UNCHANGED temps
createRootTemp(c) ==
  \E i \in Inodes \ Used :
    /\ proc' = [proc EXCEPT ![c].ino = i]
    /\ data' = [data EXCEPT ![i] = <<proc[c].new[1], NULL>>]
    /\ temps' = temps \cup {i}

CreateTemp(c) ==
  /\ pc[c] = "temp"
  /\ \/ createRootTemp(c) /\ Goto(c, "fill") /\ UNCHANGED <<disk, queue, outside>>
     \/ (Inodes \subseteq Used \/ "error" \in Faults) /\ Return(c) /\ UNCHANGED files
  /\ UNCHANGED <<ledger, seen, leaked>>

(* An error after that removes the temporary file again, if it can.        *)
Abandon(c) ==
  \/ temps' = temps \ {proc[c].ino} /\ UNCHANGED leaked
  \/ "remove" \in Faults /\ leaked' = leaked \cup {proc[c].ino} /\ UNCHANGED temps

(* The rest of the content, sync, permissions, close.                      *)
FillTemp(c) ==
  /\ pc[c] = "fill"
  /\ \/ /\ data' = [data EXCEPT ![proc[c].ino] = proc[c].new]
        /\ Goto(c, "rename")
        /\ UNCHANGED <<proc, queue, outside, temps, leaked>>
     \/ "error" \in Faults /\ Return(c) /\ Abandon(c) /\ UNCHANGED data
  /\ UNCHANGED <<disk, ledger, seen>>

Rename(c) ==
  /\ pc[c] = "rename"
  /\ \/ /\ disk' = [disk EXCEPT ![Path(c)] = proc[c].ino]
        /\ temps' = temps \ {proc[c].ino}
        /\ Goto(c, "recordwrite")
        /\ UNCHANGED <<proc, queue, outside, leaked>>
     \/ Fails(c) /\ Abandon(c) /\ UNCHANGED disk
  /\ UNCHANGED <<data, ledger, seen>>

(* The ledger is told before the slot is free.                             *)
RecordWrite(c) == pc[c] = "recordwrite" /\ Report(c, proc[c].new)

-----------------------------------------------------------------------------
(* The environment.                                                        *)

(* The calls in the middle of reading the file at path p, or that rely on  *)
(* what they have read.                                                    *)
Relying(p) ==
  {c \in Callers : Path(c) = p /\ pc[c] \in {"read1", "read2", "old1", "old2", "verify", "temp",
                                             "fill", "rename"}}

(* A command that the bash tool runs for c changes a file in place,        *)
(* replaces it or removes it: no queue, no ledger.  What the command reads *)
(* and how it ends is left out, so a command with several changes is as    *)
(* good as several commands.                                               *)
Bash(c) ==
  /\ "bash" \in Ops
  /\ pc[c] = "idle"
  /\ \E p \in Paths :
       /\ \/ /\ disk[p] # NULL
             /\ \E text \in Texts : data' = [data EXCEPT ![disk[p]] = text]
             /\ UNCHANGED disk
          \/ \E i \in Inodes \ Used, text \in Texts :
               disk' = [disk EXCEPT ![p] = i] /\ data' = [data EXCEPT ![i] = text]
          \/ disk' = [disk EXCEPT ![p] = NULL] /\ UNCHANGED data
       /\ outside' = outside \cup Relying(p)
  /\ UNCHANGED <<temps, queue, ledger, pc, proc, seen, leaked>>

(* The process dies and starts again.                                      *)
Crash ==
  /\ "crash" \in Faults
  /\ queue' = NULL
  /\ ledger' = [s \in Sessions |-> [p \in Paths |-> NULL]]
  /\ pc' = [c \in Callers |-> "idle"]
  /\ proc' = [c \in Callers |-> Idle]
  /\ seen' = [s \in Sessions |-> [p \in Paths |-> NULL]]
  /\ outside' = {}
  /\ leaked' = temps
  /\ UNCHANGED files

Step(c) ==
  \/ OpenRead(c)
  \/ readOpenedFile(c, "read1", "read2") \/ readToEnd(c, "read2", "check1")
  \/ CheckRead(c, "check1", "check2") \/ CheckRead(c, "check2", "record")
  \/ RecordRead(c)
  \/ Acquire(c) \/ GiveUp(c) \/ Inspect(c)
  \/ readOpenedFile(c, "old1", "old2") \/ readToEnd(c, "old2", "verify")
  \/ Verify(c) \/ CreateTemp(c) \/ FillTemp(c) \/ Rename(c) \/ RecordWrite(c)

Next ==
  \/ \E c \in Callers : Call(c) \/ Step(c) \/ Bash(c)
  \/ Crash

Spec == Init /\ [][Next]_vars

-----------------------------------------------------------------------------
(* Properties.                                                             *)

Mutating == {"inspect", "old1", "old2", "verify", "temp", "fill", "rename", "recordwrite"}
Labels == Mutating \cup {"idle", "open", "read1", "read2", "check1", "check2", "record", "queue"}

(* The types of the variables.                                             *)
TypeOK ==
  /\ disk \in [Paths -> Inodes \cup {NULL}]
  /\ data \in [Inodes -> Content]
  /\ temps \subseteq Inodes
  /\ queue \in Callers \cup {NULL}
  /\ ledger \in [Sessions -> [Paths -> Content \cup {NULL}]]
  /\ pc \in [Callers -> Labels]
  /\ proc \in [Callers -> [op : {"none", "read", "write", "edit"}, ses : Sessions \cup {NULL},
                           path : Paths \cup {NULL}, ino : Inodes \cup {NULL},
                           got : Content \cup {NULL}, new : Content \cup {NULL},
                           late : BOOLEAN]]
  /\ \A c \in Callers : pc[c] \in {"read1", "read2", "old1", "old2", "fill", "rename"}
                          => proc[c].ino \in Inodes
  /\ seen \in [Sessions -> [Paths -> Content \cup {NULL}]]
  /\ outside \subseteq Callers /\ leaked \subseteq temps

(* A mutation that replaces a file, or creates one, takes away exactly     *)
(* what it verified, and that is something its session has read or written *)
(* itself: no change of another tool call is ever lost, and a change from  *)
(* outside only if it falls between the inspection and the rename.         *)
Replaces(c) == pc[c] = "rename" /\ pc'[c] = "recordwrite"
NoLostUpdate ==
  [][\A c \in Callers : Replaces(c) /\ c \notin outside =>
       /\ At(Path(c)) = proc[c].got
       /\ proc[c].late \/ proc[c].got \in {NULL, seen[proc[c].ses][Path(c)]}]_vars

(* The text a read returns, and the text an edit works on, is whole: never *)
(* half of one write and half of another, whatever is renamed over the     *)
(* path meanwhile.                                                         *)
ReadsAreWhole ==
  \A c \in Callers :
    pc[c] \in {"check1", "check2", "record", "verify"} /\ c \notin outside /\ proc[c].got # NULL
      => proc[c].got[1] = proc[c].got[2]

(* The file that a path leads to is never one that is still being written. *)
NoPartialFile ==
  \A p \in Paths : disk[p] # NULL => data[disk[p]] \in Texts

(* Every temporary file is renamed or removed before the slot is free,     *)
(* except those a crash or a failed removal leaves.                        *)
TempsCleared == queue = NULL => temps = leaked

(* The slot of the queue belongs to the one call that inspects, verifies   *)
(* and replaces a file, and to nobody when no call does: two mutations     *)
(* never overlap, and an error never takes the slot away for good.         *)
Serialized == \A c \in Callers : pc[c] \in Mutating <=> queue = c
=============================================================================
