---- MODULE UnifiedDiff ----
(***************************************************************************)
(* The diffs edit and write answer with: Myers' shortest edit between the   *)
(* lines that differ, within a budget of work, grouped into hunks.          *)
(***************************************************************************)
EXTENDS TextMatch

CONSTANTS
  ContextLines,        \* lines of context around a change
  maxMyersWorkPoints   \* points looked at before the diff replaces everything

\* The lines of a text as it is, and of a normalized one.
exactDiffLines(text) ==
  LET lines == splitLogicalLines(text)
  IN  [i \in DOMAIN lines |-> [text |-> lines[i].text, terminated |-> lines[i].terminated]]
diffLines(text) == exactDiffLines(normalize(text).content)

NoLine == [text |-> <<>>, terminated |-> FALSE]
Equal(old, new) == [kind |-> "equal", old |-> old, new |-> new]
Delete(old) == [kind |-> "delete", old |-> old, new |-> NoLine]
Insert(new) == [kind |-> "insert", old |-> NoLine, new |-> new]
Equals(old, new) == [i \in DOMAIN old |-> Equal(old[i], new[i])]
Deletes(old) == [i \in DOMAIN old |-> Delete(old[i])]
Inserts(new) == [i \in DOMAIN new |-> Insert(new[i])]

wholeFileDiff(old, new) == Deletes(old) \o Inserts(new)

\* How far two texts agree from their starts, beginning after x and y.
Snake(old, new, x, y) ==
  Min({n \in 0..Len(old) :
           \/ x + n >= Len(old) \/ y + n >= Len(new)
           \/ old[x + n + 1] # new[y + n + 1]})

----
(* myersMiddleWithBudget. *)

Diagonals(distance) == {k \in (-distance)..distance : (k + distance) % 2 = 0}

\* Whether a path reaches a diagonal from the one above it.
FromAbove(frontier, distance, k) ==
  k = -distance \/ (k # distance /\ frontier[k - 1] < frontier[k + 1])

\* The diagonals on which a frontier is at the ends of both texts.
Ends(frontier, old, new) ==
  {k \in DOMAIN frontier : frontier[k] >= Len(old) /\ frontier[k] - k >= Len(new)}

\* The frontier, the furthest x on each diagonal, before each round and after
\* the last: the first that reaches the ends.
Frontiers(old, new) ==
  LET max == Len(old) + Len(new)
      Furthest(f, d, k) ==
        LET x == IF FromAbove(f, d, k) THEN f[k + 1] ELSE f[k - 1] + 1
        IN  x + Snake(old, new, x, x - k)
      Round(f, d) ==
        FoldLeft(LAMBDA g, k : [g EXCEPT ![k] = Furthest(g, d, k)], f, [i \in 1..(d + 1) |-> 2 * (i - 1) - d])
      Search(trace, d) ==
        IF Ends(Last(trace), old, new) # {} THEN trace ELSE Append(trace, Round(Last(trace), d))
  IN  FoldLeft(Search, <<[k \in (-max - 1)..(max + 1) |-> 0]>>, [d \in 1..(max + 1) |-> d - 1])

\* The points looked at: those on each diagonal of a round, from where the round
\* enters it, up to the diagonal that reaches the ends.
WorkPoints(trace, old, new) ==
  LET rounds == 0..(Len(trace) - 2)
      Entry(d, k) == IF FromAbove(trace[d + 1], d, k) THEN trace[d + 1][k + 1] ELSE trace[d + 1][k - 1] + 1
      Visited(d) == {k \in Diagonals(d) : d = Len(trace) - 2 => k <= Min(Ends(Last(trace), old, new))}
  IN  Cardinality(UNION {UNION {{<<d, k, x>> : x \in Entry(d, k)..trace[d + 2][k]} : k \in Visited(d)} : d \in rounds})

\* The operations of the path that ends at x and y after d differences.
backtrackMyers(trace, old, new, distance) ==
  LET Ops[d \in 0..distance, x \in 0..Len(old), y \in 0..Len(new)] ==
        LET k      == x - y
            from   == IF FromAbove(trace[d + 1], d, k) THEN k + 1 ELSE k - 1
            fromX  == trace[d + 1][from]
            steps  == Max({0, Min({x - fromX, y - (fromX - from)})})
            run(n) == Equals(Slice(old, x - n, x), Slice(new, y - n, y))
        IN  IF d = 0
            THEN LET common == Min({x, y})
                 IN  Inserts(Slice(new, 0, y - common)) \o Deletes(Slice(old, 0, x - common)) \o run(common)
            ELSE IF x - steps = fromX
            THEN Ops[d - 1, x - steps, y - steps - 1] \o <<Insert(new[y - steps])>> \o run(steps)
            ELSE Ops[d - 1, x - steps - 1, y - steps] \o <<Delete(old[x - steps])>> \o run(steps)
  IN  Ops[distance, Len(old), Len(new)]

myersMiddle(old, new) ==
  LET trace    == Frontiers(old, new)
      distance == Len(trace) - 2
  IN  IF old = <<>> THEN [ops |-> Inserts(new), work |-> Len(new)]
      ELSE IF new = <<>> THEN [ops |-> Deletes(old), work |-> Len(old)]
      ELSE [ops |-> backtrackMyers(trace, old, new, distance), work |-> WorkPoints(trace, old, new)]

\* myersDiff: what both texts start and end with is equal; a search over budget
\* leaves a diff of the whole file.
DiffOps(old, new) ==
  LET prefix == Snake(old, new, 0, 0)
      rest(text) == Slice(text, prefix, Len(text))
      suffix == Snake(Reverse(rest(old)), Reverse(rest(new)), 0, 0)
      Inner(text) == Slice(text, prefix, Len(text) - suffix)
      Outer(text) == Slice(text, Len(text) - suffix, Len(text))
      middle == myersMiddle(Inner(old), Inner(new))
  IN  IF prefix + suffix + middle.work > maxMyersWorkPoints THEN wholeFileDiff(old, new)
      ELSE Equals(Slice(old, 0, prefix), new) \o middle.ops \o Equals(Outer(old), Outer(new))

----
(* unifiedDiff. *)

\* Half-open ranges of operations around the changes, joined where they meet.
groupHunks(ops) ==
  LET changes == Ordered(Len(ops), {i \in DOMAIN ops : ops[i].kind # "equal"})
      Join(hunks, i) ==
        LET start == Max({0, i - 1 - ContextLines})
            end   == Min({Len(ops), i + ContextLines})
        IN  IF hunks # <<>> /\ start <= Last(hunks).end
            THEN [hunks EXCEPT ![Len(hunks)].end = Max({@, end})]
            ELSE Append(hunks, [start |-> start, end |-> end])
  IN  FoldLeft(Join, <<>>, changes)

OldCount(ops) == Cardinality({i \in DOMAIN ops : ops[i].kind # "insert"})
NewCount(ops) == Cardinality({i \in DOMAIN ops : ops[i].kind # "delete"})

\* (a bug) An empty side starts like any other.
Hunk_Bug(ops, hunk) ==
  LET before == Slice(ops, 0, hunk.start)
      inside == Slice(ops, hunk.start, hunk.end)
  IN  [oldStart |-> OldCount(before) + 1, oldCount |-> OldCount(inside),
       newStart |-> NewCount(before) + 1, newCount |-> NewCount(inside),
       ops |-> inside]

\* A hunk as it is printed: where it starts, or after which line when that side
\* is empty, and its lines.
Hunk(ops, hunk) ==
  LET before == Slice(ops, 0, hunk.start)
      inside == Slice(ops, hunk.start, hunk.end)
      Start(position, count) == IF count = 0 THEN position ELSE position + 1
  IN  [oldStart |-> Start(OldCount(before), OldCount(inside)), oldCount |-> OldCount(inside),
       newStart |-> Start(NewCount(before), NewCount(inside)), newCount |-> NewCount(inside),
       ops |-> inside]

unifiedDiff(old, new) ==
  LET ops   == DiffOps(old, new)
      hunks == groupHunks(ops)
  IN  IF old = new THEN <<>> ELSE [i \in DOMAIN hunks |-> Hunk(ops, hunks[i])]
====
