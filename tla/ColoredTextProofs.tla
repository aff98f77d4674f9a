-------------------------- MODULE ColoredTextProofs --------------------------
(***************************************************************************)
(* For every text and every length of a tag: what the drawing loops draw   *)
(* is the text without its tags, each byte in the colour of the last tag   *)
(* before it and in the row of its line.                                   *)
(***************************************************************************)
EXTENDS ColoredText, FiniteSetTheorems, TLAPS

(* The variables the argument is about, in their sets.                     *)
DrawnTypeOK == \A d \in drawn : d.at \in Int
WalkTypeOK ==
  /\ DrawnTypeOK
  /\ text \in Seq(Chars) /\ mode \in {"widgets", "list"}
  /\ p \in 1 .. End /\ lineEnd \in 1 .. End
  /\ state \in {"line", "walk", "done"}

(* While a row is walked over, it ends at a newline or with the text.      *)
InRow ==
  /\ state = "walk" =>
       /\ p <= lineEnd
       /\ lineEnd = End \/ (mode = "widgets" /\ At(lineEnd) = "newline")
       /\ \A i \in p .. lineEnd - 1 : mode = "list" \/ At(i) # "newline"
  /\ state = "done" => p = End

(* The walk never stands inside a tag, and knows the colour there.         *)
OutsideTags == \A i \in Tags : i < p => i + TagLen <= p
CurRight == ColourAt(cur, p)

DrawnOnlyRight == \A d \in drawn : d.at < p /\ Shown(d.at) /\ ColourAt(d.colour, d.at)
AllDrawn == \A j \in 1 .. p - 1 : Shown(j) => \E d \in drawn : d.at = j

WalkInv ==
  /\ WalkTypeOK /\ InRow /\ OutsideTags /\ CurRight /\ DrawnOnlyRight /\ AllDrawn

-----------------------------------------------------------------------------
(* A tag is all braces and digits: no other tag and no newline begins in   *)
(* it, and it lies within the text.                                        *)
LEMMA TagShape ==
  ASSUME text \in Seq(Chars), NEW i \in Int, ParseHexTag(i)
  PROVE  /\ i \in 1 .. Len(text) /\ i + TagLen <= End
         /\ \A j \in i + 1 .. i + TagLen - 1 : At(j) # "open"
         /\ \A j \in i .. i + TagLen - 1 : At(j) # "newline" /\ At(j) # "nul"
<1> USE ColoredTextAssumption
<1>1. Len(text) \in Nat
  OBVIOUS
<1>2. At(i) = "open" /\ At(i + TagHex + 1) = "close"
  BY DEF ParseHexTag
<1>3. \A j \in i + 1 .. i + TagHex : At(j) = "hex"
  <2>1. TAKE j \in i + 1 .. i + TagHex
  <2>2. j - i \in 1 .. TagHex /\ i + (j - i) = j
    OBVIOUS
  <2> QED BY <2>2 DEF ParseHexTag
<1>4. i \in 1 .. Len(text) /\ i + TagHex + 1 \in 1 .. Len(text)
  BY <1>2 DEF At
<1>5. \A j \in i .. i + TagLen - 1 :
        j = i \/ j = i + TagHex + 1 \/ j \in i + 1 .. i + TagHex
  BY DEF TagLen
<1>6. i + TagLen <= End
  BY <1>1, <1>4 DEF TagLen, End
<1>7. ASSUME NEW j \in i .. i + TagLen - 1
      PROVE  At(j) \in {"open", "hex", "close"} /\ (j # i => At(j) # "open")
  BY <1>2, <1>3, <1>5
<1> QED
  <2>1. \A j \in i + 1 .. i + TagLen - 1 : j \in i .. i + TagLen - 1 /\ j # i
    BY DEF TagLen
  <2> QED BY <1>4, <1>6, <1>7, <2>1

(* Where the walk stands outside tags, only a tag that begins there or     *)
(* later can hold the bytes ahead.                                         *)
LEMMA AheadIsShown ==
  ASSUME WalkInv, NEW e \in Int, NEW j \in p .. e - 1,
         \A i \in p .. e - 1 : ~ ParseHexTag(i),
         mode = "list" \/ text[j] # "newline"
  PROVE  Shown(j)
<1>1. p \in Int
  BY DEF WalkInv, WalkTypeOK, End
<1> SUFFICES ASSUME NEW i \in Tags, i <= j, j < i + TagLen PROVE FALSE
  BY DEF Shown, InTag
<1>2. i \in Int /\ ParseHexTag(i) /\ TagLen \in Int
  BY ColoredTextAssumption DEF Tags, TagLen
<1>3. i < p => i + TagLen <= p
  BY DEF WalkInv, OutsideTags
<1> QED BY <1>1, <1>2, <1>3

(* The colour stays the same over a stretch in which no tag begins.        *)
LEMMA ColourAhead ==
  ASSUME WalkInv, NEW e \in Int, NEW j \in p .. e,
         \A i \in p .. e - 1 : ~ ParseHexTag(i)
  PROVE  ColourAt(cur, j)
<1>1. p \in Int /\ ColourAt(cur, p)
  BY DEF WalkInv, WalkTypeOK, End, CurRight
<1>2. \A k \in Tags : k \in Int /\ (k < j => k < p)
  BY <1>1 DEF Tags
<1> QED BY <1>1, <1>2 DEF ColourAt, Governs, Tags

LEMMA TagsBegin ==
  ASSUME text \in Seq(Chars)
  PROVE  \A i \in Tags : i \in Int /\ i >= 1 /\ At(i) = "open"
<1> SUFFICES ASSUME NEW i \in Tags PROVE i \in Int /\ i >= 1 /\ At(i) = "open"
  OBVIOUS
<1>1. Len(text) \in Nat
  OBVIOUS
<1>2. i \in 1 .. Len(text)
  BY DEF Tags
<1>3. ParseHexTag(i)
  BY DEF Tags
<1>4. At(i) = "open"
  BY <1>3 DEF ParseHexTag
<1>5. i \in Int /\ i >= 1
  BY <1>1, <1>2
<1> QED BY <1>4, <1>5

(* What depends on the arguments alone does not change.                    *)
LEMMA ArgumentsStay ==
  ASSUME UNCHANGED <<text, mode>>
  PROVE  /\ End' = End /\ Tags' = Tags
         /\ \A i : At(i)' = At(i)
         /\ \A j : Shown(j)' = Shown(j)
         /\ \A c, j : ColourAt(c, j)' = ColourAt(c, j)
  BY DEF End, Tags, At, Shown, InTag, ColourAt, Governs, ParseHexTag

(* Emitting the stretch from p to e, where no tag and, in widgets, no      *)
(* newline begins, keeps what is drawn right.                              *)
LEMMA EmitKeeps ==
  ASSUME WalkInv, NEW e \in Int, p < e, e <= End, Emit(e), p' = e,
         \A i \in p .. e - 1 : ~ ParseHexTag(i),
         \A i \in p .. e - 1 : mode = "list" \/ text[i] # "newline"
  PROVE  OutsideTags' /\ CurRight' /\ DrawnTypeOK' /\ DrawnOnlyRight' /\ AllDrawn'
<1> DEFINE New == {[at |-> i, colour |-> cur, row |-> rows] : i \in p .. e - 1}
<1>1. p \in Int /\ UNCHANGED <<text, mode, cur>> /\ drawn' = drawn \cup New
  BY DEF WalkInv, WalkTypeOK, End, Emit
<1>2. /\ Tags' = Tags /\ TagLen' = TagLen
      /\ \A j : Shown(j)' = Shown(j)
      /\ \A c, j : ColourAt(c, j)' = ColourAt(c, j)
  BY <1>1, ArgumentsStay DEF TagLen
<1>3. \A j \in p .. e - 1 : Shown(j)
  BY AheadIsShown
<1>4. \A j \in p .. e : ColourAt(cur, j)
  BY ColourAhead
<1>5. OutsideTags'
  <2> SUFFICES ASSUME NEW i \in Tags, i < e PROVE i + TagLen <= e
    BY <1>1, <1>2 DEF OutsideTags
  <2>1. i \in Int /\ ParseHexTag(i) /\ TagLen \in Int
    BY ColoredTextAssumption DEF Tags, TagLen
  <2>2. i < p
    BY <1>1, <2>1
  <2>3. i + TagLen <= p
    BY <2>2 DEF WalkInv, OutsideTags
  <2> QED BY <1>1, <2>1, <2>3
<1>6. CurRight'
  <2>1. ColourAt(cur, e)
    BY <1>1, <1>4
  <2> QED BY <1>1, <1>2, <2>1 DEF CurRight
<1>7. DrawnOnlyRight'
  <2> SUFFICES ASSUME NEW d \in drawn \cup New
               PROVE  d.at < e /\ Shown(d.at) /\ ColourAt(d.colour, d.at)
    BY <1>1, <1>2 DEF DrawnOnlyRight
  <2>1. CASE d \in drawn
    <3>1. d.at < p /\ Shown(d.at) /\ ColourAt(d.colour, d.at)
      BY <2>1 DEF WalkInv, DrawnOnlyRight
    <3>2. d.at \in Int
      BY <2>1 DEF WalkInv, WalkTypeOK, DrawnTypeOK
    <3> QED BY <1>1, <3>1, <3>2
  <2>2. CASE d \in New
    <3>1. PICK i \in p .. e - 1 : d = [at |-> i, colour |-> cur, row |-> rows]
      BY <2>2
    <3>2. d.at = i /\ d.colour = cur /\ i \in p .. e
      BY <1>1, <3>1
    <3> QED BY <1>1, <1>3, <1>4, <3>2
  <2> QED BY <2>1, <2>2
<1>8. AllDrawn'
  <2> SUFFICES ASSUME NEW j \in 1 .. e - 1, Shown(j)
               PROVE  \E d \in drawn \cup New : d.at = j
    BY <1>1, <1>2 DEF AllDrawn
  <2>1. CASE j < p
    BY <1>1, <2>1 DEF WalkInv, AllDrawn
  <2>2. CASE j >= p
    <3>1. [at |-> j, colour |-> cur, row |-> rows] \in New
      BY <1>1, <2>2
    <3> HIDE DEF New
    <3>2. PICK d \in New : d = [at |-> j, colour |-> cur, row |-> rows]
      BY <3>1
    <3> QED BY <3>2
  <2> QED BY <1>1, <2>1, <2>2
<1>9. DrawnTypeOK'
  <2>1. \A d \in New : d.at \in Int
    BY <1>1
  <2> QED BY <1>1, <2>1 DEF WalkInv, WalkTypeOK, DrawnTypeOK
<1> QED BY <1>5, <1>6, <1>7, <1>8, <1>9

LEMMA WalkInvInit == ColoredTextInit => WalkInv
<1> SUFFICES ASSUME ColoredTextInit PROVE WalkInv
  OBVIOUS
<1>1. text \in Seq(Chars)
  BY ColoredTextAssumption DEF ColoredTextInit, Texts
<1>2. Len(text) \in Nat
  BY <1>1
<1>3. \A i \in Tags : i \in Int /\ i >= 1
  BY <1>2 DEF Tags
<1>4. WalkTypeOK /\ InRow
  BY <1>1, <1>2 DEF ColoredTextInit, Begin, WalkTypeOK, InRow, End, DrawnTypeOK
<1>5. OutsideTags /\ CurRight
  BY <1>3 DEF ColoredTextInit, Begin, OutsideTags, CurRight, ColourAt
<1>6. DrawnOnlyRight /\ AllDrawn
  BY DEF ColoredTextInit, Begin, DrawnOnlyRight, AllDrawn
<1> QED BY <1>4, <1>5, <1>6 DEF WalkInv

-----------------------------------------------------------------------------
(* One step of the walk at a time.                                         *)

LEMMA StartLineKeeps == WalkInv /\ StartLine => WalkInv'
<1> SUFFICES ASSUME WalkInv, StartLine PROVE WalkInv'
  OBVIOUS
<1>1. PICK e \in 1 .. End : LineEnds(e) /\ lineEnd' = e
  BY DEF StartLine
<1>2. state' = "walk" /\ UNCHANGED <<text, mode, p, cur, drawn>>
  BY DEF StartLine
<1>3. /\ End' = End /\ Tags' = Tags /\ TagLen' = TagLen
      /\ \A i : At(i)' = At(i)
      /\ \A j : Shown(j)' = Shown(j)
      /\ \A c, j : ColourAt(c, j)' = ColourAt(c, j)
  BY <1>2, ArgumentsStay DEF TagLen
<1>4. WalkTypeOK'
  BY <1>1, <1>2, <1>3 DEF WalkInv, WalkTypeOK, DrawnTypeOK
<1>5. InRow'
  <2>1. p <= e
    BY <1>1 DEF LineEnds, WalkInv, WalkTypeOK, End
  <2> QED BY <1>1, <1>2, <1>3, <2>1 DEF LineEnds, InRow
<1>6. OutsideTags' /\ CurRight' /\ DrawnOnlyRight' /\ AllDrawn'
  BY <1>2, <1>3 DEF WalkInv, OutsideTags, CurRight, DrawnOnlyRight, AllDrawn
<1> QED BY <1>4, <1>5, <1>6 DEF WalkInv

LEMMA ConsumeTagKeeps == WalkInv /\ ConsumeTag => WalkInv'
<1> SUFFICES ASSUME WalkInv, ConsumeTag PROVE WalkInv'
  OBVIOUS
<1>1. /\ state = "walk" /\ p < lineEnd /\ ParseHexTag(p)
      /\ cur' = p /\ p' = p + TagLen
      /\ UNCHANGED <<text, mode, lineEnd, drawn, state>>
  BY DEF ConsumeTag, Walking, PastTag
<1>2. /\ p \in Int /\ p >= 1 /\ lineEnd \in Int /\ lineEnd <= End /\ End \in Int
      /\ Len(text) \in Nat /\ text \in Seq(Chars) /\ TagLen \in Int /\ TagLen > 0
  BY ColoredTextAssumption DEF WalkInv, WalkTypeOK, End, TagLen
<1>3. /\ p \in 1 .. Len(text) /\ p + TagLen <= End
      /\ \A j \in p + 1 .. p + TagLen - 1 : At(j) # "open"
      /\ \A j \in p .. p + TagLen - 1 : At(j) # "newline" /\ At(j) # "nul"
  BY <1>1, <1>2, TagShape DEF WalkInv, WalkTypeOK
<1>4. /\ End' = End /\ Tags' = Tags /\ TagLen' = TagLen
      /\ \A i : At(i)' = At(i)
      /\ \A j : Shown(j)' = Shown(j)
      /\ \A c, j : ColourAt(c, j)' = ColourAt(c, j)
  BY <1>1, ArgumentsStay DEF TagLen
<1>5. p \in Tags
  BY <1>1, <1>3 DEF Tags
<1>6. \A i \in Tags : i \in Int /\ (i < p + TagLen => i <= p)
  <2> SUFFICES ASSUME NEW i \in Tags PROVE i \in Int /\ (i < p + TagLen => i <= p)
    OBVIOUS
  <2>1. i \in Int /\ At(i) = "open"
    BY <1>2, TagsBegin
  <2>2. i \notin p + 1 .. p + TagLen - 1
    BY <1>2, <1>3, <2>1
  <2>3. i > p => ~ (i < p + TagLen)
    BY <1>2, <2>1, <2>2
  <2> QED BY <1>2, <2>1, <2>3
<1>7. WalkTypeOK'
  <2>1. p + TagLen \in 1 .. End
    BY <1>2, <1>3
  <2>2. /\ DrawnTypeOK /\ text \in Seq(Chars) /\ mode \in {"widgets", "list"}
        /\ lineEnd \in 1 .. End /\ state \in {"line", "walk", "done"}
    BY DEF WalkInv, WalkTypeOK
  <2>3. DrawnTypeOK'
    BY <1>1, <2>2 DEF DrawnTypeOK
  <2> QED BY <1>1, <1>4, <2>1, <2>2, <2>3 DEF WalkTypeOK
<1>8. InRow'
  <2>0. lineEnd = End \/ At(lineEnd) = "newline"
    BY <1>1 DEF WalkInv, InRow
  <2>1. p + TagLen <= lineEnd
    <3>1. lineEnd = End \/ lineEnd \notin p .. p + TagLen - 1
      BY <1>3, <2>0
    <3>2. p < lineEnd /\ p + TagLen <= End
      BY <1>1, <1>3
    <3> QED BY <1>2, <3>1, <3>2
  <2>2. \A i \in p + TagLen .. lineEnd - 1 : i \in p .. lineEnd - 1
    BY <1>2
  <2>3. \A i \in p + TagLen .. lineEnd - 1 : mode = "list" \/ At(i) # "newline"
    BY <1>1, <2>2 DEF WalkInv, InRow
  <2>4. lineEnd = End \/ (mode = "widgets" /\ At(lineEnd) = "newline")
    BY <1>1 DEF WalkInv, InRow
  <2> QED BY <1>1, <1>4, <2>1, <2>3, <2>4 DEF InRow
<1>9. OutsideTags'
  <2> SUFFICES ASSUME NEW i \in Tags, i < p + TagLen PROVE i + TagLen <= p + TagLen
    BY <1>1, <1>4 DEF OutsideTags
  <2> QED BY <1>2, <1>6
<1>10. CurRight'
  <2>1. ColourAt(p, p + TagLen)
    BY <1>2, <1>5, <1>6 DEF ColourAt, Governs
  <2> QED BY <1>1, <1>4, <2>1 DEF CurRight
<1>11. DrawnOnlyRight'
  <2> SUFFICES ASSUME NEW d \in drawn
               PROVE  d.at < p + TagLen /\ Shown(d.at) /\ ColourAt(d.colour, d.at)
    BY <1>1, <1>4 DEF DrawnOnlyRight
  <2>1. d.at \in Int /\ d.at < p /\ Shown(d.at) /\ ColourAt(d.colour, d.at)
    BY DEF WalkInv, WalkTypeOK, DrawnTypeOK, DrawnOnlyRight
  <2> QED BY <1>2, <2>1
<1>12. AllDrawn'
  <2> SUFFICES ASSUME NEW j \in 1 .. p + TagLen - 1, Shown(j)
               PROVE  \E d \in drawn : d.at = j
    <3>1. p' = p + TagLen /\ drawn' = drawn
      BY <1>1
    <3> SUFFICES ASSUME NEW j \in (1 .. p - 1)', Shown(j)'
                 PROVE  (\E d \in drawn : d.at = j)'
      BY Zenon DEF AllDrawn
    <3>2. j \in 1 .. p + TagLen - 1
      BY <1>2, <3>1
    <3>3. Shown(j)' = Shown(j)
      BY <1>4, Zenon
    <3>4. Shown(j)
      BY <3>3
    <3> QED BY <3>1, <3>2, <3>4
  <2>1. j < p
    BY <1>2, <1>5 DEF Shown, InTag
  <2> QED BY <1>2, <2>1 DEF WalkInv, AllDrawn
<1> QED BY <1>7, <1>8, <1>9, <1>10, <1>11, <1>12 DEF WalkInv

(* A chunk of one row, from p to e, with no tag beginning in it.           *)
LEMMA ChunkKeeps ==
  ASSUME WalkInv, Walking, NEW e \in Int, p < e, e <= lineEnd, Emit(e), p' = e,
         \A i \in p .. e - 1 : ~ ParseHexTag(i)
  PROVE  WalkInv'
<1>1. /\ p \in Int /\ p >= 1 /\ lineEnd \in Int /\ End \in Int /\ Len(text) \in Nat
      /\ lineEnd <= End /\ End = Len(text) + 1
  BY DEF WalkInv, WalkTypeOK, End
<1>2. UNCHANGED <<text, mode, lineEnd, state>> /\ state = "walk"
  BY DEF Emit, Walking
<1>3. \A i \in p .. lineEnd - 1 : mode = "list" \/ At(i) # "newline"
  BY <1>2 DEF WalkInv, InRow
<1>4. \A i \in p .. e - 1 : mode = "list" \/ text[i] # "newline"
  BY <1>1, <1>3 DEF At
<1>5. OutsideTags' /\ CurRight' /\ DrawnTypeOK' /\ DrawnOnlyRight' /\ AllDrawn'
  BY <1>1, <1>4, EmitKeeps
<1>6. End' = End /\ \A i : At(i)' = At(i)
  BY <1>2, ArgumentsStay
<1>7. WalkTypeOK'
  BY <1>1, <1>2, <1>5, <1>6 DEF WalkInv, WalkTypeOK
<1>8. InRow'
  <2>1. \A i \in e .. lineEnd - 1 : mode = "list" \/ At(i) # "newline"
    BY <1>1, <1>3
  <2>2. lineEnd = End \/ (mode = "widgets" /\ At(lineEnd) = "newline")
    BY <1>2 DEF WalkInv, InRow
  <2> QED BY <1>1, <1>2, <1>6, <2>1, <2>2 DEF InRow
<1> QED BY <1>5, <1>7, <1>8 DEF WalkInv

LEMMA LoneBraceKeeps == WalkInv /\ LoneBrace => WalkInv'
<1> SUFFICES ASSUME WalkInv, LoneBrace PROVE WalkInv'
  OBVIOUS
<1>1. p \in Int /\ lineEnd \in Int
  BY DEF WalkInv, WalkTypeOK, End
<1>2. Walking /\ p < lineEnd /\ Emit(p + 1) /\ p' = p + 1 /\ ~ ParseHexTag(p)
  BY DEF LoneBrace, Walking, PastBrace
<1>3. \A i \in p .. (p + 1) - 1 : ~ ParseHexTag(i)
  BY <1>1, <1>2
<1> QED BY <1>1, <1>2, <1>3, ChunkKeeps

LEMMA PlainRunKeeps == WalkInv /\ PlainRun => WalkInv'
<1> SUFFICES ASSUME WalkInv, PlainRun PROVE WalkInv'
  OBVIOUS
<1>1. PICK e \in 1 .. End : NextBrace(e) /\ Emit(e) /\ p' = e
  BY DEF PlainRun
<1>2. p \in Int /\ lineEnd \in Int /\ e \in Int
  BY DEF WalkInv, WalkTypeOK, End
<1>3. Walking /\ p < lineEnd /\ At(p) # "open"
  BY DEF PlainRun, Walking
<1>4. e \in p .. lineEnd /\ e # p
  <2>1. e \in p .. lineEnd /\ (e = lineEnd \/ At(e) = "open")
    BY <1>1 DEF NextBrace
  <2>2. lineEnd # p
    BY <1>2, <1>3
  <2>3. e # p
    BY <1>3, <2>1, <2>2
  <2> QED BY <2>1, <2>3
<1>5. \A i \in p .. e - 1 : ~ ParseHexTag(i)
  BY <1>1 DEF NextBrace, ParseHexTag
<1>6. p < e /\ e <= lineEnd
  BY <1>2, <1>4
<1> QED BY <1>1, <1>2, <1>3, <1>5, <1>6, ChunkKeeps

LEMMA EndLineKeeps == WalkInv /\ EndLine => WalkInv'
<1> SUFFICES ASSUME WalkInv, EndLine PROVE WalkInv'
  OBVIOUS
<1>1. /\ p \in Int /\ p >= 1 /\ lineEnd \in Int /\ End \in Int /\ Len(text) \in Nat
      /\ lineEnd <= End /\ End = Len(text) + 1
  BY DEF WalkInv, WalkTypeOK, End
<1>2. /\ state = "walk" /\ p = lineEnd /\ UNCHANGED <<text, mode, lineEnd, drawn, cur>>
  BY <1>1 DEF EndLine, WalkInv, InRow, ColourAfter
<1>3. /\ End' = End /\ Tags' = Tags /\ TagLen' = TagLen
      /\ \A i : At(i)' = At(i)
      /\ \A j : Shown(j)' = Shown(j)
      /\ \A c, j : ColourAt(c, j)' = ColourAt(c, j)
  BY <1>2, ArgumentsStay DEF TagLen
<1>4. CASE mode = "widgets" /\ At(lineEnd) = "newline"
  <2>1. p' = p + 1 /\ state' = "line"
    BY <1>2, <1>4 DEF EndLine
  <2>2. p \in 1 .. Len(text) /\ text[p] = "newline"
    BY <1>1, <1>2, <1>4 DEF At
  <2>3. \A i \in Tags : i \in Int /\ i # p
    <3>1. \A i \in Tags : i \in Int /\ At(i) = "open"
      BY TagsBegin DEF WalkInv, WalkTypeOK
    <3> QED BY <1>2, <1>4, <3>1
  <2>4. ~ Shown(p)
    BY <1>4, <2>2 DEF Shown
  <2>5. WalkTypeOK' /\ InRow'
    BY <1>1, <1>2, <1>3, <2>1, <2>2 DEF WalkInv, WalkTypeOK, DrawnTypeOK, InRow
  <2>6. OutsideTags'
    <3> SUFFICES ASSUME NEW i \in Tags, i < p + 1 PROVE i + TagLen <= p + 1
      BY <1>3, <2>1 DEF OutsideTags
    <3>1. i + TagLen <= p /\ TagLen \in Int
      BY <1>1, <2>3, ColoredTextAssumption DEF WalkInv, OutsideTags, TagLen
    <3> QED BY <1>1, <2>3, <3>1
  <2>7. CurRight'
    <3>1. ColourAt(cur, p)
      BY DEF WalkInv, CurRight
    <3>2. ColourAt(cur, p + 1)
      BY <1>1, <2>3, <3>1 DEF ColourAt, Governs
    <3> QED BY <1>2, <1>3, <2>1, <3>2 DEF CurRight
  <2>8. DrawnOnlyRight'
    <3> SUFFICES ASSUME NEW d \in drawn
                 PROVE  d.at < p + 1 /\ Shown(d.at) /\ ColourAt(d.colour, d.at)
      BY <1>2, <1>3, <2>1 DEF DrawnOnlyRight
    <3>1. d.at \in Int /\ d.at < p /\ Shown(d.at) /\ ColourAt(d.colour, d.at)
      BY DEF WalkInv, WalkTypeOK, DrawnTypeOK, DrawnOnlyRight
    <3> QED BY <1>1, <3>1
  <2>9. AllDrawn'
    <3> SUFFICES ASSUME NEW j \in 1 .. p, Shown(j) PROVE \E d \in drawn : d.at = j
      BY <1>1, <1>2, <1>3, <2>1 DEF AllDrawn
    <3>1. j # p
      BY <2>4
    <3> QED BY <1>1, <3>1 DEF WalkInv, AllDrawn
  <2> QED BY <2>5, <2>6, <2>7, <2>8, <2>9 DEF WalkInv
<1>5. CASE ~ (mode = "widgets" /\ At(lineEnd) = "newline")
  <2>1. p' = p /\ state' = "done" /\ p = End
    BY <1>2, <1>5 DEF EndLine, WalkInv, InRow
  <2>2. WalkTypeOK' /\ InRow'
    BY <1>2, <1>3, <2>1 DEF WalkInv, WalkTypeOK, DrawnTypeOK, InRow
  <2> QED BY <1>2, <1>3, <2>1, <2>2
          DEF WalkInv, OutsideTags, CurRight, DrawnOnlyRight, AllDrawn
<1> QED BY <1>4, <1>5

LEMMA WalkInvNext == WalkInv /\ [ColoredTextNext \/ Finished]_vars => WalkInv'
<1> SUFFICES ASSUME WalkInv, UNCHANGED vars PROVE WalkInv'
  BY StartLineKeeps, ConsumeTagKeeps, LoneBraceKeeps, PlainRunKeeps, EndLineKeeps
     DEF ColoredTextNext, Finished
<1>1. /\ End' = End /\ Tags' = Tags /\ TagLen' = TagLen
      /\ \A i : At(i)' = At(i)
      /\ \A j : Shown(j)' = Shown(j)
      /\ \A c, j : ColourAt(c, j)' = ColourAt(c, j)
  BY ArgumentsStay DEF vars, TagLen
<1> QED
  BY <1>1 DEF vars, WalkInv, WalkTypeOK, DrawnTypeOK, InRow, OutsideTags, CurRight,
              DrawnOnlyRight, AllDrawn

(* For every text, at every moment of the walk, exactly the bytes outside  *)
(* tags have been drawn so far, in the colour of the last tag before them. *)
THEOREM DrawsTheText == ColoredTextSpec => []DrawnRight
<1>1. WalkInv => DrawnRight
  BY DEF WalkInv, InRow, DrawnOnlyRight, AllDrawn, DrawnRight
<1> QED BY <1>1, WalkInvInit, WalkInvNext, PTL DEF ColoredTextSpec

-----------------------------------------------------------------------------
(* Rows: those finished are as many as the newlines walked past.           *)

RowInv ==
  mode = "widgets" =>
    /\ state \in {"line", "walk"} => rows = Cardinality(Newlines(p - 1))
    /\ state = "done" => rows = Cardinality(Newlines(Len(text))) + 1
    /\ \A d \in drawn : d.row = Cardinality(Newlines(d.at))

LEMMA NoNewline ==
  ASSUME NEW a \in Nat, NEW b \in Nat, a <= b,
         \A i \in a + 1 .. b : text[i] # "newline"
  PROVE  Newlines(b) = Newlines(a)
<1>1. \A i \in 1 .. b : i \in 1 .. a \/ i \in a + 1 .. b
  OBVIOUS
<1>2. \A i \in 1 .. a : i \in 1 .. b
  OBVIOUS
<1> QED  BY <1>1, <1>2 DEF Newlines

LEMMA OneNewline ==
  ASSUME NEW n \in Nat \ {0}, text[n] = "newline"
  PROVE  Cardinality(Newlines(n)) = Cardinality(Newlines(n - 1)) + 1
<1>1. IsFiniteSet(1 .. n - 1)
  BY FS_Interval
<1>2. IsFiniteSet(Newlines(n - 1))
  BY <1>1, FS_Subset DEF Newlines
<1>3. Newlines(n) = Newlines(n - 1) \cup {n}
  <2>1. \A i \in 1 .. n : i \in 1 .. n - 1 \/ i = n
    OBVIOUS
  <2>2. \A i \in 1 .. n - 1 : i \in 1 .. n
    OBVIOUS
  <2>3. n \in 1 .. n
    OBVIOUS
  <2> QED  BY <2>1, <2>2, <2>3 DEF Newlines
<1>4. n \notin Newlines(n - 1)
  BY DEF Newlines
<1> QED  BY <1>2, <1>3, <1>4, FS_AddElement

LEMMA RowInvInit == ColoredTextInit => RowInv
<1> SUFFICES ASSUME ColoredTextInit PROVE RowInv
  OBVIOUS
<1>1. Newlines(p - 1) = {} /\ drawn = {} /\ rows = 0 /\ state = "line"
  BY DEF ColoredTextInit, Begin, Newlines
<1>2. Cardinality({}) = 0
  BY FS_EmptySet
<1> QED  BY <1>1, <1>2 DEF RowInv

LEMMA NewlinesStay == UNCHANGED text => \A n : Newlines(n)' = Newlines(n)
  BY DEF Newlines

(* A chunk of one row, with no newline in it.                              *)
LEMMA ChunkKeepsRows ==
  ASSUME WalkInv, RowInv, Walking, NEW e \in Int, p < e, e <= lineEnd, Emit(e), p' = e
  PROVE  RowInv'
<1> SUFFICES ASSUME mode = "widgets" PROVE RowInv'
  BY DEF RowInv, Emit
<1>1. /\ p \in Int /\ p >= 1 /\ lineEnd \in Int /\ Len(text) \in Nat /\ lineEnd <= Len(text) + 1
  BY DEF WalkInv, WalkTypeOK, End
<1>2. /\ UNCHANGED <<text, mode, rows, state>> /\ state = "walk"
      /\ drawn' = drawn \cup {[at |-> i, colour |-> cur, row |-> rows] : i \in p .. e - 1}
  BY DEF Emit, Walking
<1>3. \A i \in p .. e - 1 : text[i] # "newline"
  <2>1. \A i \in p .. lineEnd - 1 : At(i) # "newline"
    BY <1>2 DEF WalkInv, InRow
  <2> QED  BY <1>1, <2>1 DEF At
<1>4. \A i \in p - 1 .. e - 1 : Newlines(i) = Newlines(p - 1)
  <2> SUFFICES ASSUME NEW i \in p - 1 .. e - 1 PROVE Newlines(i) = Newlines(p - 1)
    OBVIOUS
  <2>1. p - 1 \in Nat /\ i \in Nat /\ p - 1 <= i /\ \A k \in (p - 1) + 1 .. i : k \in p .. e - 1
    BY <1>1
  <2> QED  BY <1>3, <2>1, NoNewline
<1>5. rows = Cardinality(Newlines(p - 1)) /\ \A d \in drawn : d.row = Cardinality(Newlines(d.at))
  BY <1>2 DEF RowInv
<1>6. \A n : Newlines(n)' = Newlines(n)
  BY <1>2, NewlinesStay
<1>7. rows = Cardinality(Newlines(e - 1))
  BY <1>1, <1>4, <1>5
<1>8. ASSUME NEW d \in drawn' PROVE d.row = Cardinality(Newlines(d.at))
  <2>1. CASE d \in drawn
    BY <1>5, <2>1
  <2>2. CASE d \notin drawn
    <3>1. PICK i \in p .. e - 1 : d = [at |-> i, colour |-> cur, row |-> rows]
      BY <1>2, <2>2
    <3>2. d.at = i /\ d.row = rows /\ i \in p - 1 .. e - 1
      BY <1>1, <3>1
    <3> QED  BY <1>4, <1>5, <3>2
  <2> QED  BY <2>1, <2>2
<1> QED  BY <1>2, <1>6, <1>7, <1>8 DEF RowInv

LEMMA TagKeepsRows == WalkInv /\ RowInv /\ ConsumeTag => RowInv'
<1> SUFFICES ASSUME WalkInv, RowInv, ConsumeTag, mode = "widgets" PROVE RowInv'
  BY DEF RowInv, ConsumeTag
<1>1. /\ p \in Int /\ p >= 1 /\ Len(text) \in Nat /\ TagLen \in Nat
  BY ColoredTextAssumption DEF WalkInv, WalkTypeOK, End, TagLen
<1>2. /\ state = "walk" /\ ParseHexTag(p) /\ p' = p + TagLen
      /\ UNCHANGED <<text, mode, rows, state, drawn>>
  BY DEF ConsumeTag, Walking, PastTag
<1>3. /\ p + TagLen <= End
      /\ \A j \in p .. p + TagLen - 1 : At(j) # "newline"
  BY <1>1, <1>2, TagShape DEF WalkInv, WalkTypeOK
<1>4. \A j \in p .. p + TagLen - 1 : text[j] # "newline"
  BY <1>1, <1>3 DEF At, End
<1>5. Newlines(p + TagLen - 1) = Newlines(p - 1)
  <2> DEFINE b == p + TagLen - 1
  <2>1. p - 1 \in Nat /\ b \in Nat /\ p - 1 <= b /\ (p - 1) + 1 = p
    BY <1>1
  <2>2. \A i \in (p - 1) + 1 .. b : text[i] # "newline"
    BY <1>4, <2>1
  <2> HIDE DEF b
  <2>3. Newlines(b) = Newlines(p - 1)
    BY <2>1, <2>2, NoNewline
  <2> QED  BY <2>3 DEF b
<1>6. \A n : Newlines(n)' = Newlines(n)
  BY <1>2, NewlinesStay
<1>7. p' - 1 = p + TagLen - 1
  BY <1>1, <1>2
<1> QED  BY <1>2, <1>5, <1>6, <1>7 DEF RowInv

LEMMA EndLineKeepsRows == WalkInv /\ RowInv /\ EndLine => RowInv'
<1> SUFFICES ASSUME WalkInv, RowInv, EndLine, mode = "widgets" PROVE RowInv'
  BY DEF RowInv, EndLine
<1>1. /\ p \in Int /\ p >= 1 /\ lineEnd \in Int /\ Len(text) \in Nat
      /\ p = lineEnd /\ state = "walk" /\ End = Len(text) + 1
  BY DEF WalkInv, WalkTypeOK, InRow, End, EndLine
<1>2. UNCHANGED <<text, mode, drawn>> /\ rows' = rows + 1
  BY DEF EndLine, RowsAfter
<1>3. rows = Cardinality(Newlines(p - 1))
  BY <1>1 DEF RowInv
<1>4. \A n : Newlines(n)' = Newlines(n)
  BY <1>2, NewlinesStay
<1>5. CASE At(lineEnd) = "newline"
  <2>1. p' = p + 1 /\ state' = "line"
    BY <1>1, <1>5 DEF EndLine
  <2>2. text[p] = "newline" /\ p \in Nat \ {0}
    BY <1>1, <1>5 DEF At
  <2>3. Cardinality(Newlines(p)) = Cardinality(Newlines(p - 1)) + 1
    BY <2>2, OneNewline
  <2>4. rows' = Cardinality(Newlines((p + 1) - 1))
    BY <1>1, <1>2, <1>3, <2>3
  <2> QED  BY <1>1, <1>2, <1>4, <2>1, <2>4 DEF RowInv
<1>6. CASE At(lineEnd) # "newline"
  <2>1. state' = "done" /\ p = End
    BY <1>1, <1>6 DEF EndLine, WalkInv, InRow
  <2>2. p - 1 = Len(text)
    BY <1>1, <2>1
  <2> QED  BY <1>1, <1>2, <1>3, <1>4, <2>1, <2>2 DEF RowInv
<1> QED  BY <1>5, <1>6

LEMMA RowInvNext == WalkInv /\ RowInv /\ [ColoredTextNext \/ Finished]_vars => RowInv'
<1> SUFFICES ASSUME WalkInv, RowInv, [ColoredTextNext \/ Finished]_vars PROVE RowInv'
  OBVIOUS
<1>1. p \in Int /\ lineEnd \in Int
  BY DEF WalkInv, WalkTypeOK, End
<1>2. CASE StartLine
  BY <1>2, NewlinesStay DEF StartLine, RowInv
<1>3. CASE LoneBrace
  <2>1. Walking /\ Emit(p + 1) /\ p' = p + 1 /\ p + 1 <= lineEnd
    BY <1>1, <1>3 DEF LoneBrace, Walking, PastBrace
  <2> QED  BY <1>1, <2>1, ChunkKeepsRows
<1>4. CASE PlainRun
  <2>1. PICK e \in 1 .. End : NextBrace(e) /\ Emit(e) /\ p' = e
    BY <1>4 DEF PlainRun
  <2>2. e \in Int /\ Walking /\ p < lineEnd /\ At(p) # "open" /\ e \in p .. lineEnd
        /\ (e = lineEnd \/ At(e) = "open")
    BY <1>4, <2>1 DEF PlainRun, Walking, NextBrace, WalkInv, WalkTypeOK, End
  <2>3. e # p
    BY <1>1, <2>2
  <2>4. p < e /\ e <= lineEnd
    BY <1>1, <2>2, <2>3
  <2> QED  BY <2>1, <2>2, <2>4, ChunkKeepsRows
<1>5. CASE Finished \/ UNCHANGED vars
  BY <1>5, NewlinesStay DEF Finished, vars, RowInv
<1> QED
  BY <1>2, <1>3, <1>4, <1>5, TagKeepsRows, EndLineKeepsRows DEF ColoredTextNext

(* For every text: every byte stands in the row of its line, and in the    *)
(* end there is a row for every line, also for the empty ones.             *)
THEOREM RowsAreLines == ColoredTextSpec => []RowsRight
<1>1. WalkInv /\ RowInv => RowsRight
  BY DEF RowInv, RowsRight
<1>2. ColoredTextInit => WalkInv /\ RowInv
  BY WalkInvInit, RowInvInit
<1>3. WalkInv /\ RowInv /\ [ColoredTextNext \/ Finished]_vars => (WalkInv /\ RowInv)'
  BY WalkInvNext, RowInvNext
<1> QED  BY <1>1, <1>2, <1>3, PTL DEF ColoredTextSpec

-----------------------------------------------------------------------------
(* The loops' variant.                                                     *)

(* The walk moves on within the row.                                       *)
LEMMA TurnsMoveOn ==
  ASSUME WalkInv, ConsumeTag \/ LoneBrace \/ PlainRun
  PROVE  p' > p /\ state = "walk" /\ UNCHANGED <<text, state>>
<1>1. p \in Int /\ lineEnd \in Int
  BY DEF WalkInv, WalkTypeOK, End
<1>2. state = "walk" /\ p < lineEnd
  BY DEF ConsumeTag, LoneBrace, PlainRun, Walking
<1>3. UNCHANGED <<text, state>>
  BY DEF ConsumeTag, LoneBrace, PlainRun, Emit
<1>4. ASSUME ConsumeTag PROVE p' > p
  BY <1>1, <1>4, ColoredTextAssumption DEF ConsumeTag, PastTag, TagLen
<1>5. ASSUME LoneBrace PROVE p' > p
  BY <1>1, <1>5 DEF LoneBrace, PastBrace
<1>6. ASSUME PlainRun PROVE p' > p
  <2>1. At(p) # "open" /\ \E e \in 1 .. End : NextBrace(e) /\ p' = e
    BY <1>6 DEF PlainRun
  <2>2. PICK e \in Int : NextBrace(e) /\ p' = e
    BY <2>1
  <2>3. e # p /\ e >= p
    BY <1>1, <1>2, <2>1, <2>2 DEF NextBrace
  <2> QED
    BY <1>1, <2>2, <2>3
<1> QED
  BY <1>2, <1>3, <1>4, <1>5, <1>6

LEMMA TurnsCount ==
  ASSUME WalkInv, WalkInv', ColoredTextNext
  PROVE  TurnsLeft' < TurnsLeft
<1> USE DEF WalkInv, WalkTypeOK
<1>1. UNCHANGED text
  BY DEF ColoredTextNext, StartLine, ConsumeTag, LoneBrace, PlainRun, EndLine, Emit
<1>2. End' = End /\ End \in Nat /\ p \in Int /\ p' \in Int /\ lineEnd \in Int
  BY <1>1 DEF End
<1>3. CASE StartLine
  BY <1>2, <1>3 DEF StartLine, TurnsLeft
<1>4. CASE ConsumeTag \/ LoneBrace \/ PlainRun
  BY <1>2, <1>4, TurnsMoveOn DEF TurnsLeft
<1>5. CASE EndLine /\ mode = "widgets" /\ At(lineEnd) = "newline"
  <2>1. p = lineEnd /\ state = "walk"
    BY <1>2, <1>5 DEF EndLine, InRow
  <2>2. p' = p + 1 /\ state' = "line"
    BY <1>5, <2>1 DEF EndLine
  <2> QED
    BY <1>2, <2>1, <2>2 DEF TurnsLeft
<1>6. CASE EndLine /\ ~ (mode = "widgets" /\ At(lineEnd) = "newline")
  BY <1>2, <1>6 DEF EndLine, TurnsLeft
<1> QED
  BY <1>3, <1>4, <1>5, <1>6 DEF ColoredTextNext

(* Both loops are through a text of any length in at most TurnsLeft turns, *)
(* a natural number: no text makes a frame hang.                           *)
THEOREM LoopsWindDown == ColoredTextSpec => [](TurnsLeft \in Nat) /\ EveryTurnCounts
<1>1. WalkInv => TurnsLeft \in Nat
  BY DEF WalkInv, WalkTypeOK, End, TurnsLeft
<1>2. WalkInv /\ WalkInv' /\ [ColoredTextNext \/ Finished]_vars
      => [TurnsLeft' < TurnsLeft]_vars
  BY TurnsCount DEF Finished
<1> QED
  BY <1>1, <1>2, WalkInvInit, WalkInvNext, PTL DEF ColoredTextSpec, EveryTurnCounts
=============================================================================
