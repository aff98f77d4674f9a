----------------------------- MODULE ColoredText -----------------------------
(***************************************************************************)
(* Drawing text with {RRGGBB} tags (gui/colored_text.h): the two loops     *)
(* that walk over the bytes, one step a turn.  DrawColoredText draws lines *)
(* as rows of widgets, DrawColoredTextOnDrawList one line onto a list.     *)
(*                                                                         *)
(* A colour is the place of the tag that set it, 0 the base colour; alpha, *)
(* wrapping and pixel positions are left out.  A tag has TagHex digits, 6  *)
(* in the program.                                                         *)
(***************************************************************************)
EXTENDS Integers, Sequences, FiniteSets

CONSTANTS
  TagHex,        \* digits of a tag
  MaxLen         \* bound: length of the texts tried

ASSUME ColoredTextAssumption == TagHex \in Nat \ {0} /\ MaxLen \in Nat

VARIABLES
  text, mode,    \* the arguments
  p, lineEnd,    \* the next byte, and where its line ends
  cur,           \* the current colour
  first,         \* nothing has been emitted in this row yet
  drawn,         \* what was emitted: bytes with colour and row
  rows,          \* rows finished
  state

vars == <<text, mode, p, lineEnd, cur, first, drawn, rows, state>>

Chars == {"open", "close", "hex", "other", "newline"}     \* { } 0-F, any, \n
Texts == UNION {[1 .. n -> Chars] : n \in 0 .. MaxLen}
End == Len(text) + 1
At(i) == IF i \in 1 .. Len(text) THEN text[i] ELSE "nul"

(* ParseHexTag looks at the bytes from i on, whatever the line's end.      *)
TagLen == TagHex + 2
ParseHexTag(i) ==
  /\ At(i) = "open"
  /\ \A k \in 1 .. TagHex : At(i + k) = "hex"
  /\ At(i + TagHex + 1) = "close"

Begin ==
  /\ mode \in {"widgets", "list"}
  /\ p = 1 /\ lineEnd = 1 /\ cur = 0 /\ first = TRUE
  /\ drawn = {} /\ rows = 0 /\ state = "line"
ColoredTextInit == text \in Texts /\ Begin

-----------------------------------------------------------------------------
(* Rows end at a newline; a draw list knows none.                          *)
LineEnds(e) ==
  /\ e \in p .. End
  /\ e = End \/ (mode = "widgets" /\ At(e) = "newline")
  /\ \A i \in p .. e - 1 : mode = "list" \/ At(i) # "newline"

StartLine ==
  /\ state = "line" /\ state' = "walk"
  /\ \E e \in 1 .. End : LineEnds(e) /\ lineEnd' = e
  /\ first' = TRUE
  /\ UNCHANGED <<text, mode, p, cur, drawn, rows>>

(* The chunk from p to e, in the current colour.                           *)
Emit(e) ==
  /\ drawn' = drawn \cup {[at |-> i, colour |-> cur, row |-> rows] : i \in p .. e - 1}
  /\ first' = FALSE
  /\ UNCHANGED <<text, mode, lineEnd, cur, rows, state>>

Walking == state = "walk" /\ p < lineEnd

PastTagLong == p + TagLen + 1      \* mutant: one byte too far, as once
PastTag == p + TagLen

ConsumeTag ==
  /\ Walking /\ ParseHexTag(p)
  /\ cur' = p /\ p' = PastTag
  /\ UNCHANGED <<text, mode, lineEnd, first, drawn, rows, state>>

PastBraceNot == p                  \* mutant: the loop does not move on
PastBrace == p + 1

LoneBrace ==
  /\ Walking /\ At(p) = "open" /\ ~ ParseHexTag(p)
  /\ Emit(p + 1) /\ p' = PastBrace

NextBrace(e) ==
  /\ e \in p .. lineEnd
  /\ e = lineEnd \/ At(e) = "open"
  /\ \A i \in p .. e - 1 : At(i) # "open"

PlainRun ==
  /\ Walking /\ At(p) # "open"
  /\ \E e \in 1 .. End : NextBrace(e) /\ Emit(e) /\ p' = e

(* A row in which nothing was emitted is drawn as an empty one.            *)
RowsAfterIgnoringBlank == IF first THEN rows ELSE rows + 1     \* mutant
RowsAfter == rows + 1

ColourAfterReset == 0              \* mutant: a colour ends with its row
ColourAfter == cur

EndLine ==
  /\ state = "walk" /\ p >= lineEnd
  /\ rows' = IF mode = "widgets" THEN RowsAfter ELSE rows
  /\ \/ /\ mode = "widgets" /\ At(lineEnd) = "newline"
        /\ p' = lineEnd + 1 /\ cur' = ColourAfter /\ state' = "line"
     \/ ~ (mode = "widgets" /\ At(lineEnd) = "newline")
        /\ state' = "done" /\ UNCHANGED <<p, cur>>
  /\ UNCHANGED <<text, mode, lineEnd, first, drawn>>

ColoredTextNext == StartLine \/ ConsumeTag \/ LoneBrace \/ PlainRun \/ EndLine
Finished == state = "done" /\ UNCHANGED vars

ColoredTextSpec == ColoredTextInit /\ [][ColoredTextNext \/ Finished]_vars
FairColoredTextSpec == ColoredTextSpec /\ WF_vars(ColoredTextNext)

-----------------------------------------------------------------------------
(* What the user should see, from the text alone.                          *)

Tags == {i \in 1 .. Len(text) : ParseHexTag(i)}
InTag(j) == \E i \in Tags : i <= j /\ j < i + TagLen
Shown(j) == ~ InTag(j) /\ (mode = "list" \/ text[j] # "newline")
Governs(i, j) == i \in Tags /\ i < j /\ \A k \in Tags : k < j => k <= i
ColourAt(c, j) == Governs(c, j) \/ (c = 0 /\ \A k \in Tags : k >= j)

(* Every byte outside a tag is drawn, no byte of a tag is, and each in the *)
(* colour of the last tag before it, also across lines.  What is drawn     *)
(* next lies to the right of what has been.                                *)
DrawnRight ==
  /\ \A d \in drawn : d.at < p /\ Shown(d.at) /\ ColourAt(d.colour, d.at)
  /\ \A j \in 1 .. p - 1 : Shown(j) => \E d \in drawn : d.at = j
  /\ state = "done" => p = End

(* Each byte stands in the row of its line, and every line has a row, the  *)
(* empty ones too.                                                         *)
Newlines(n) == {i \in 1 .. n : text[i] = "newline"}
RowsRight ==
  mode = "widgets" =>
    /\ \A d \in drawn : d.row = Cardinality(Newlines(d.at))
    /\ state = "done" => rows = Cardinality(Newlines(Len(text))) + 1

(* The loops end.                                                          *)
Finishes == <>(state = "done")

(* The most turns that are left: two for a byte, the text's end included.  *)
TurnsLeft ==
  2 * (End - p) + (CASE state = "line" -> 2 [] state = "walk" -> 1 [] state = "done" -> 0)

(* Every turn of the loops gets nearer to the end of the text, also one    *)
(* that emits nothing.                                                     *)
EveryTurnCounts == [][TurnsLeft' < TurnsLeft]_vars
=============================================================================
