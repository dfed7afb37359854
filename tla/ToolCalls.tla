---- MODULE ToolCalls ----
(***************************************************************************)
(* The coding tools' own work, one call at a time: a shell command          *)
(* (ShellCommand), a window of a file that read renders under a grant, an edit with its *)
(* diff and a write with its diff.  The file side of these calls is          *)
(* FileMutation's, the budget's is OutputBudget's.                           *)
(***************************************************************************)
EXTENDS ShellCommand

CONSTANTS
  Readings,            \* the files read may be called for
  Offsets, Limits,     \* its arguments, 0 for none
  ReadPolicies,        \* the output policies they are rendered under
  Files, Olds, News,   \* the files, and the arguments of edit
  Drafts,              \* pairs of what write finds and what it writes
  ContextLines, maxMyersWorkPoints

Diff == INSTANCE UnifiedDiff

VARIABLE last  \* the last call of read, edit or write

vars == <<shellVars, last>>

NoCallYet == [tool |-> "none"]

Init == ShellInit /\ last = NoCallYet

\* (a bug) The limit is added to the number of the first line.
selectReadWindow_Bug(lines, offset, limit) ==
  IF offset > Len(lines) THEN [start |-> 0, end |-> 0]
  ELSE [start |-> offset, end |-> Min({offset + limit, Len(lines)})]

\* The lines of a file from offset on, limit of them at most.
selectReadWindow(lines, offset, limit) ==
  IF offset > Len(lines) THEN [start |-> 0, end |-> 0]
  ELSE [start |-> offset, end |-> offset - 1 + Min({limit, Len(lines) - offset + 1})]

\* A line as read renders it: its number (one byte here), its body, and a line
\* feed for whatever ended it.  Each byte tells of what it is: <<n, j>> is the
\* number of line n (j = 0), byte j of its body, or its end.
RenderedLine(line, n, ended) ==
  LET body == <<"plain">> \o [j \in DOMAIN line.body |-> line.body[j].is] \o (IF ended THEN <<"LF">> ELSE <<>>)
  IN  [j \in DOMAIN body |-> [is |-> body[j], at |-> 0, of |-> <<n, j - 1>>]]

Positioned(text) == [i \in DOMAIN text |-> [text[i] EXCEPT !.at = i]]

renderReadWindow(lines, window) ==
  IF window.end = 0 THEN <<>>
  ELSE Positioned(FlattenSeq([k \in 1..(window.end - window.start + 1) |->
         LET n == window.start + k - 1
         IN  RenderedLine(lines[n], n, n < window.end \/ lines[n].term # <<>>)]))

Shown(args, text, p, grant, shown) ==
  last' = args @@ [tool |-> "read", text |-> text, policy |-> p, grant |-> grant, shown |-> shown,
                   truncated |-> \/ args.window.end \in 1..(args.total - 1)
                                 \/ shown.report.truncated]
Rendered(args, text, p, grant) == Shown(args, text, p, grant, applyReadOutput(text, p, grant))
ReadWindow(args, lines, p, grant) == Rendered(args, renderReadWindow(lines, args.window), p, grant)

\* Arguments that are zero, or left out, take their defaults.
Read(file, offset, limit, p, grant) ==
  LET lines == splitLines(file)
      from  == IF offset = 0 THEN 1 ELSE offset
      most  == IF limit = 0 THEN p.maxLines ELSE limit
  IN  ReadWindow([file |-> file, from |-> from, most |-> most, total |-> Len(lines),
                  window |-> selectReadWindow(lines, from, most)], lines, p, grant)

\* replaceOpenedFile: the edited file, which the diff compares normalized.
Edits(file, old, replaceAll, applied) ==
  last' = [tool |-> "edit", file |-> file, old |-> old, replaceAll |-> replaceAll, applied |-> applied,
           before |-> Diff!diffLines(file), after |-> Diff!diffLines(applied.content)]
Edit(file, old, new, replaceAll) == Edits(file, old, replaceAll, Diff!ApplyEdit(file, old, new, replaceAll))

\* write compares the bytes it replaced, line ends included.
Overwrite(old, new) ==
  last' = [tool |-> "write", before |-> Diff!exactDiffLines(old), after |-> Diff!exactDiffLines(new)]

\* Once the file is replaced, the answer of edit and write: a diff.
ReportDiff ==
  /\ last.tool \in {"edit", "write"}
  /\ last' = [tool |-> "diff", before |-> last.before, after |-> last.after,
              diff |-> Diff!unifiedDiff(last.before, last.after)]

Next ==
  \/ Step /\ last.tool = "none" /\ UNCHANGED last
  \/ /\ pc = "idle" /\ last.tool = "none" /\ UNCHANGED shellVars
     /\ \/ \E file \in Readings, offset \in Offsets, limit \in Limits, p \in ReadPolicies, grant \in Grants :
             Read(file, offset, limit, p, grant)
        \/ \E file \in Files, old \in Olds, new \in News, all \in BOOLEAN : Edit(file, old, new, all)
        \/ \E draft \in Drafts : Overwrite(draft[1], draft[2])
  \/ ReportDiff /\ UNCHANGED shellVars

Spec == Init /\ [][Next]_vars

----
(* Properties. *)

TypeOK ==
  /\ pc \in {"idle", "waiting", "stopping", "grace", "backstop", "capturing", "finishing", "returned", "answered"}
  /\ alive \subseteq born /\ born \subseteq Processes
  /\ signals \in [Processes -> {"none", "term", "kill"}]
  /\ open \in [Streams -> SUBSET alive]
  /\ \A s \in Streams : copied[s] <= written[s] /\ written[s] <= Len(output[s])
  /\ \A s \in Streams : capture[s].total = copied[s] /\ Len(capture[s].tail) <= Policy.maxBytes
  /\ exit \in {"none", "code", "signal"} /\ wait \in {"none", "process", "copying", "delivered"}

(* What read answers shows a part of the lines it was asked for, cut between *)
(* characters and line ends, and keeps no more bytes and lines than its grant *)
(* and its policy allow, markers aside (Policy.Apply); an answer that is not *)
(* called truncated holds the file from the first of these lines to its end, *)
(* and one whose report is not cut all lines that it names.                  *)
ReadingIsSound ==
  last.tool = "read" =>
    LET kept    == Kept(last.shown.text)
        lines   == splitLines(last.file)
        asked   == {n \in DOMAIN lines : last.from <= n /\ n < last.from + last.most}
        All(ns) == UNION {{<<n, j>> : j \in 0..Len(lines[n].body)} : n \in ns}
        of      == {last.text[i].of : i \in kept}
    IN  /\ Shows(last.shown, last.text)
        /\ {place[1] : place \in of} \subseteq asked
        /\ ~last.truncated => All({n \in DOMAIN lines : n >= last.from}) \subseteq of
        /\ ~last.shown.report.truncated => All({n \in DOMAIN lines : last.window.start <= n /\ n <= last.window.end}) \subseteq of
        /\ Cardinality(kept) <= last.grant
        /\ last.policy.maxBytes > 0 => Cardinality(kept) <= last.policy.maxBytes
        /\ last.policy.maxLines > 0 => Cardinality({place[1] : place \in of}) <= last.policy.maxLines
        /\ last.shown.report.keptBytes = Cardinality(kept)
        /\ last.text # <<>> /\ last.grant > 0 => last.shown.report.originalLines = Cardinality(asked)

(* What the tools answer, bash with the captures of a command and read with a *)
(* window of a file, is a part of what there is, cut at characters and line   *)
(* ends and within the grant (limitBashResult, applyReadOutput).              *)
AnswersAreSound == AnswersAreWhole /\ ReadingIsSound

\* A text without its blanks.
Solid(text) == SelectSeq(text, LAMBDA char : char \notin Diff!Blank)

\* Where an offset of the normalized file is in the file.
Offset(file, i) ==
  LET content == Diff!normalize(file).content
  IN  Max({n \in 0..Len(file) : Diff!normalize(SubSeq(file, 1, n)).content = SubSeq(content, 1, i)})

(* An edit replaces what it says it replaces and nothing else: the ranges    *)
(* are in order and apart, each holds the old text as the reported tier      *)
(* compares it, and in a file with one kind of line end the bytes before the  *)
(* first and after the last range stay, byte order mark and line ends        *)
(* included, but for the end of a file that loses its last line.  An old text *)
(* is refused only when it is not there, or there more than once             *)
(* (textmatch.Apply).                                                        *)
EditIsExact ==
  last.tool = "edit" =>
    LET applied == last.applied
        ranges  == applied.ranges
        source  == Diff!normalize(last.file)
        content == source.content
        old     == Diff!normalize(last.old).content
        Held(r) == Diff!Slice(content, r.start, r.end)
        places  == {i \in 0..(Len(content) - Len(old)) : Diff!Slice(content, i, i + Len(old)) = old}
        before  == SubSeq(last.file, 1, Offset(last.file, ranges[1].start))
        after   == SubSeq(last.file, Offset(last.file, Last(ranges).end) + 1, Len(last.file))
    IN  /\ applied.outcome = "edited" =>
             /\ \A i \in 1..(Len(ranges) - 1) : ranges[i].end <= ranges[i + 1].start
             /\ ~last.replaceAll => Len(ranges) = 1
             /\ \A i \in DOMAIN ranges :
                  /\ applied.tier = "exact" <=> Held(ranges[i]) = old
                  /\ Solid(Held(ranges[i])) = Solid(old)
             /\ Diff!CRLFs(last.file) \in {0, Diff!Count(last.file, "LF")} =>
                  /\ IsSuffix(after, applied.content)
                  /\ after # <<>> \/ source.trailingLF => IsPrefix(before, applied.content)
        /\ applied.outcome = "no_match" => places = {}
        /\ applied.outcome = "ambiguous" => ~last.replaceAll /\ Cardinality(places) # 1

\* The two sides of a hunk.
Side(ops, without) ==
  LET at == Ordered(Len(ops), {i \in DOMAIN ops : ops[i].kind # without})
  IN  [i \in DOMAIN at |-> IF without = "insert" THEN ops[at[i]].old ELSE ops[at[i]].new]

\* What a reader of the diff makes of it: each hunk is found where its header
\* says, below the one before, on both sides, and what lies between them is the same.
Patches(diff, old, new) ==
  LET First(start, count) == IF count = 0 THEN start + 1 ELSE start
      oldAt(i) == IF i > Len(diff) THEN Len(old) + 1 ELSE First(diff[i].oldStart, diff[i].oldCount)
      newAt(i) == IF i > Len(diff) THEN Len(new) + 1 ELSE First(diff[i].newStart, diff[i].newCount)
      oldEnd(i) == IF i = 0 THEN 0 ELSE oldAt(i) + diff[i].oldCount - 1
      newEnd(i) == IF i = 0 THEN 0 ELSE newAt(i) + diff[i].newCount - 1
  IN  /\ \A i \in DOMAIN diff :
           /\ oldEnd(i - 1) < oldAt(i) /\ oldEnd(i) <= Len(old)
           /\ newEnd(i - 1) < newAt(i) /\ newEnd(i) <= Len(new)
           /\ SubSeq(old, oldAt(i), oldEnd(i)) = Side(diff[i].ops, "insert")
           /\ SubSeq(new, newAt(i), newEnd(i)) = Side(diff[i].ops, "delete")
      /\ \A i \in 0..Len(diff) :
           SubSeq(old, oldEnd(i) + 1, oldAt(i + 1) - 1) = SubSeq(new, newEnd(i) + 1, newAt(i + 1) - 1)

\* The length of the longest common subsequence, by the textbook recurrence.
Common(old, new) ==
  LET L[i \in 0..Len(old), j \in 0..Len(new)] ==
        IF i = 0 \/ j = 0 THEN 0
        ELSE IF old[i] = new[j] THEN 1 + L[i - 1, j - 1]
        ELSE Max({L[i - 1, j], L[i, j - 1]})
  IN  L[Len(old), Len(new)]
Changes(diff) ==
  FoldLeft(LAMBDA n, hunk : n + Cardinality({j \in DOMAIN hunk.ops : hunk.ops[j].kind # "equal"}), 0, diff)

(* A diff turns the lines that were there into those that are, with headers   *)
(* that find their place, and no edit is shorter unless the search was given  *)
(* up (unifiedDiff).                                                         *)
DiffIsRight ==
  last.tool = "diff" =>
    LET old      == last.before
        new      == last.after
        shortest == Len(old) + Len(new) - 2 * Common(old, new)
    IN  /\ Patches(last.diff, old, new)
        /\ \/ Changes(last.diff) = shortest
           \/ /\ Changes(last.diff) = Len(old) + Len(new)
              /\ maxMyersWorkPoints < (shortest + 1) * (shortest + 2) * (Len(old) + 1)
====
