---------------------------- MODULE ExcludeBlock ----------------------------
(***************************************************************************)
(* The managed block of .git/info/exclude as a function on lines           *)
(* (git/exclude.rs).  A file is a sequence of lines; the block's entries   *)
(* lie between its delimiters, and the user's own lines around it.         *)
(***************************************************************************)
EXTENDS Integers, SequencesExt

CONSTANTS Entries, UserLines   \* lines are numbers; Rust orders by bytes

Blank     == 0
BeginMark == 1
EndMark   == 2

ASSUME LinesTyped ==
  /\ Entries \cup UserLines \subseteq Nat \ {Blank, BeginMark, EndMark}
  /\ Entries \cap UserLines = {}
  /\ IsFiniteSet(Entries)

Occurrences(file, line) == {i \in DOMAIN file : file[i] = line}

Position(file, line) == CHOOSE i \in Occurrences(file, line) : TRUE

(* parse_checked: no delimiter at all, or one of each in order.            *)
WellFormed(file) ==
  LET begins == Occurrences(file, BeginMark)
      ends == Occurrences(file, EndMark)
  IN  \/ begins = {} /\ ends = {}
      \/ /\ Cardinality(begins) = 1 /\ Cardinality(ends) = 1
         /\ Position(file, BeginMark) < Position(file, EndMark)

IsText(line) == line # Blank

(* The lines at the positions picked, in the given order of the positions. *)
(* (SelectSeq and SortSeq say the same, but no proof can look into them.)  *)
Rank(picked, order, i) == Cardinality({j \in picked : <<j, i>> \in order})

Arranged(lines, picked, order) ==
  [k \in 1..Cardinality(picked) |-> lines[CHOOSE i \in picked : Rank(picked, order, i) = k]]

Selected(lines, picked) ==
  Arranged(lines, picked, {p \in picked \X picked : p[1] <= p[2]})

SortedLines(lines) ==
  Arranged(lines, DOMAIN lines,
           {p \in (DOMAIN lines) \X (DOMAIN lines) :
              \/ lines[p[1]] < lines[p[2]]
              \/ lines[p[1]] = lines[p[2]] /\ p[1] <= p[2]})

(* Mutant: what follows the block is taken for part of it.                 *)
ParseToTheEnd(file) ==
  IF Occurrences(file, BeginMark) = {}
  THEN [before |-> file, managed |-> <<>>, after |-> <<>>]
  ELSE LET b == Position(file, BeginMark)
       IN  [before |-> SubSeq(file, 1, b - 1),
            managed |-> Selected(file, {i \in b + 1..Len(file) : file[i] \notin {Blank, EndMark}}),
            after |-> <<>>]

Parse(file) ==
  IF Occurrences(file, BeginMark) = {}
  THEN [before |-> file, managed |-> <<>>, after |-> <<>>]
  ELSE LET b == Position(file, BeginMark)
           e == Position(file, EndMark)
       IN  [before |-> SubSeq(file, 1, b - 1),
            managed |-> Selected(file, {i \in b + 1..e - 1 : IsText(file[i])}),
            after |-> SubSeq(file, e + 1, Len(file))]

TrimmedEnd(lines) == SubSeq(lines, 1, SelectLastInSeq(lines, IsText))

(* Mutant: every write adds a separator.                                   *)
AlwaysSeparated(before) == Append(before, Blank)

(* One blank line ahead of the block; a lone blank line is not one yet.    *)
Separated(before) ==
  IF before = <<>> \/ (Len(before) > 1 /\ Last(before) = Blank)
  THEN before ELSE Append(before, Blank)

Render(before, managed, after) ==
  IF managed # <<>>
  THEN Separated(before) \o <<BeginMark>> \o managed \o <<EndMark>> \o after
  ELSE IF TrimmedEnd(before) = <<>> THEN <<Blank>> \o after
  ELSE TrimmedEnd(before) \o after

(* add_entries, remove_entries and update_entries for a set of entries:    *)
(* adding keeps duplicates that are there, replacing does not.             *)
Managing(op, set, managed) ==
  CASE op = "add"     -> SortedLines(managed \o SetToSeq(set \ ToSet(managed)))
    [] op = "remove"  -> Selected(managed, {i \in DOMAIN managed : managed[i] \notin set})
    [] op = "replace" -> SortedLines(SetToSeq(set))

Rewritten(op, set, file) ==
  LET parts == Parse(file)
  IN  Render(parts.before, Managing(op, set, parts.managed), parts.after)

(* What the file means, whatever Parse makes of it: the entries are the    *)
(* lines from one delimiter to the other, the rest is the user's.          *)
InBlock(file) ==
  {i \in DOMAIN file : WellFormed(file) /\ \E b \in Occurrences(file, BeginMark),
                                              e \in Occurrences(file, EndMark) : i \in b..e}

EntriesOf(file) == {file[i] : i \in InBlock(file)} \ {Blank, BeginMark, EndMark}

OwnLines(file) == Selected(file, {i \in DOMAIN file \ InBlock(file) : IsText(file[i])})
=============================================================================
