---- MODULE Capture ----
(***************************************************************************)
(* outputlimit.Writer, which keeps two samples of a stream of any length,   *)
(* and the limits the tools put on what they answer: bash on the two        *)
(* captures of a command, read, write and edit on the text they render.     *)
(* The total of a stream is taken to stay below the largest int.            *)
(***************************************************************************)
EXTENDS OutputLimit

UTFMax == 4

NewWriter(p) ==
  [policy |-> p, head |-> <<>>, boundary |-> <<>>, tail |-> <<>>, before |-> <<>>,
   ending |-> <<>>, total |-> 0, newlines |-> 0]

Unlimited(w) == w.policy.maxBytes = 0

\* (a bug) The ring grows.
appendTail_Bug(w, byte) == IF Unlimited(w) THEN w ELSE [w EXCEPT !.tail = Append(@, byte)]

\* The ring of the last bytes, and the one it dropped last.
appendTail(w, byte) ==
  IF Unlimited(w) THEN w
  ELSE IF Len(w.tail) < w.policy.maxBytes THEN [w EXCEPT !.tail = Append(@, byte)]
  ELSE [w EXCEPT !.tail = Append(Tail(@), byte), !.before = <<Head(w.tail)>>]

WriteByte(w, byte) ==
  LET room == Unlimited(w) \/ Len(w.head) < w.policy.maxBytes
  IN  [appendTail(w, byte) EXCEPT
        !.head     = IF room THEN Append(@, byte) ELSE @,
        !.boundary = IF ~room /\ Len(@) < UTFMax THEN Append(@, byte) ELSE @,
        !.ending   = (IF @ = <<>> THEN <<>> ELSE <<Last(@)>>) \o <<byte>>,
        !.total    = @ + 1,
        !.newlines = @ + (IF byte.is = "LF" THEN 1 ELSE 0)]

Write(w, chunk) == FoldLeft(WriteByte, w, chunk)

\* (a bug) The byte before the sample is not looked at.
tailWithin_Bug(w, limit) ==
  LET cut   == inwardTail(w.tail, limit)
      start == Min({Len(w.tail)} \cup {i \in cut..(Len(w.tail) - 1) : ~Continues(w.tail[i + 1])})
  IN  SubSeq(w.tail, start + 1, Len(w.tail))

\* The tail is a sample: what its cut depends on may lie before it.
tailWithin(w, limit) ==
  LET cut   == inwardTail(w.tail, limit)
      start == Min({Len(w.tail)} \cup {i \in cut..(Len(w.tail) - 1) : ~Continues(w.tail[i + 1])})
      from  == IF start = 0 /\ EndsWith(w.before, "CR") /\ w.tail # <<>> /\ w.tail[1].is = "LF"
               THEN 1 ELSE start
  IN  SubSeq(w.tail, from + 1, Len(w.tail))

Newlines(text) == Cardinality({i \in DOMAIN text : text[i].is = "LF"})
logicalLineCount(w) ==
  IF w.total = 0 \/ EndsWith(w.ending, "LF") THEN w.newlines ELSE w.newlines + 1

\* A line cut in the middle counts once.
selectedLineCount(prefix, suffix, newlines) ==
  LET joined == /\ prefix # <<>> /\ ~EndsWith(prefix, "LF") /\ suffix # <<>>
                /\ newlines = Newlines(prefix) + Newlines(suffix)
  IN  Len(splitLines(prefix)) + Len(splitLines(suffix)) - (IF joined THEN 1 ELSE 0)

\* Writer.String.
Captured(w) ==
  LET max    == w.policy.maxBytes
      lines  == logicalLineCount(w)
      first  == tailWithin(w, limitSplit(max, w.policy.headFraction)[2])
      prefix == SubSeq(w.head, 1, inwardHead(w.head \o w.boundary, max - Len(first)))
      suffix == tailWithin(w, max - Len(prefix))
      report == Report("bytes", w.total, lines, Len(prefix) + Len(suffix),
                       selectedLineCount(prefix, suffix, w.newlines))
  IN  IF Unlimited(w) \/ w.total <= max
      THEN [text |-> w.head, report |-> Report("", w.total, lines, w.total, lines)]
      ELSE [text |-> Framed(prefix, Marker(report), suffix, w.ending), report |-> report]

----
(* The answers of the tools. *)

\* The marker and the report name the budget as the reason.
ByBudget(applied) ==
  LET renamed == [applied.report EXCEPT !.reason = "budget"]
  IN  IF applied.report.reason # "bytes" THEN applied
      ELSE [text   |-> Remarked(applied.text, Marker(applied.report), Marker(renamed)),
            report |-> renamed]

\* Apply under a grant, which may be below the limit of the policy.
Budgeted(p, grant, text) == ByBudget(Apply([p EXCEPT !.maxBytes = grant], text))

\* applyReadOutput: what read renders, and the diffs of write and edit.
applyReadOutput(rendered, p, grant) ==
  LET lines  == Len(splitLines(rendered))
      report == Report("budget", Len(rendered), lines, 0, 0)
  IN  IF rendered = <<>> THEN [text |-> <<>>, report |-> Report("", 0, 0, 0, 0)]
      ELSE IF grant = 0
      THEN [text   |-> Marker(report) \o (IF EndsWith(rendered, "LF") THEN Break ELSE <<>>),
            report |-> report]
      ELSE IF p.maxBytes <= 0 \/ grant < p.maxBytes
      THEN Budgeted(p, grant, rendered)
      ELSE Apply(p, rendered)

\* Applied again with less, by the bytes in excess, until the text with its
\* markers fits the grant.
Fitting(value, grant, p) ==
  LET Shrunk(limits, excess) == IF excess <= 0 THEN limits ELSE Append(limits, Last(limits) - excess)
      Shrink(limits, i) ==
        IF Last(limits) <= 0 THEN limits
        ELSE Shrunk(limits, Len(Budgeted(p, Last(limits), value).text) - grant)
      Fitted(limit) == IF limit > 0 THEN <<Budgeted(p, limit, value)>> ELSE <<>>
  IN  Fitted(Last(FoldLeft(Shrink, <<grant>>, [i \in 1..grant |-> i])))

\* The report of what is kept, with the size of the text before it was captured.
Recaptured(fitting, prior) ==
  IF fitting = <<>> THEN [text |-> <<>>, report |-> Report("budget", prior.originalBytes, prior.originalLines, 0, 0)]
  ELSE [fitting[1] EXCEPT
         !.report.originalBytes = Max({@, prior.originalBytes}),
         !.report.originalLines = Max({@, prior.originalLines})]

limitBashText(capture, grant, p) ==
  IF capture.text = <<>> \/ grant >= Len(capture.text) THEN capture
  ELSE Recaptured(Fitting(capture.text, grant, p), capture.report)

\* (a bug) Standard error is granted what standard output has taken.
limitBashResult_Bug(out, err, grant, p) ==
  LET total  == Len(out.text) + Len(err.text)
      share  == IF total > 0 /\ grant > 0 THEN (grant * Len(out.text)) \div total ELSE 0
      first  == IF out.text # <<>> /\ share = 0 /\ grant > 0 THEN 1 ELSE share
  IN  IF total <= grant /\ grant > 0 THEN [stdout |-> out, stderr |-> err]
      ELSE [stdout |-> limitBashText(out, first, p),
            stderr |-> limitBashText(err, Max({grant, 0}), p)]

\* The grant of a command divided between its streams by what they hold.
limitBashResult(out, err, grant, p) ==
  LET total  == Len(out.text) + Len(err.text)
      share  == IF total > 0 /\ grant > 0 THEN (grant * Len(out.text)) \div total ELSE 0
      first  == IF out.text # <<>> /\ share = 0 /\ grant > 0 THEN 1 ELSE share
  IN  IF total <= grant /\ grant > 0 THEN [stdout |-> out, stderr |-> err]
      ELSE [stdout |-> limitBashText(out, first, p),
            stderr |-> limitBashText(err, Max({grant - first, 0}), p)]
====
