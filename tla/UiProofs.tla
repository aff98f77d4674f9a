------------------------------- MODULE UiProofs -------------------------------
(***************************************************************************)
(* For any number of dialogs, rows and lines, however frames, keys, clicks *)
(* and the server's dialogs interleave: the row an answer names exists,    *)
(* every dialog is answered at most once and in its turn, and every chat   *)
(* line appears once and in order.                                         *)
(***************************************************************************)
EXTENDS Ui, SequenceTheorems, TLAPS

(* The dialog that is up is the last one shown, and has no answer yet.     *)
DialogInv ==
  /\ dialog.id = shows /\ (m_active => shows >= 1)
  /\ \A i \in DOMAIN answers : answers[i].id <= shows

(* The part of the state the dialogs make up.                              *)
DialogPart ==
  /\ dialog \in Dialogs /\ m_active \in BOOLEAN /\ shows \in 0 .. MaxShows
  /\ answers \in Seq(Answers)
  /\ RowExists /\ OneAnswerEach /\ DialogInv

(* The chat's input line, and its lines.                                   *)
ChatPart ==
  /\ chatActive \in BOOLEAN /\ chatWantFocus \in BOOLEAN /\ chatEdited \in BOOLEAN
  /\ focus \in {"none", "chat", "dialog"}
  /\ events \subseteq Keys

LinePart ==
  /\ m_lines \in Seq(1 .. MaxLines) /\ m_pending \in Seq(1 .. MaxLines)
  /\ pushed \in 0 .. MaxLines
  /\ LinesInOrder

UiInv == DialogPart /\ ChatPart /\ LinePart

LEMMA UiInvInit == UiInit => UiInv
<1> SUFFICES ASSUME UiInit PROVE UiInv
  OBVIOUS
<1> USE DEF UiInit
<1>1. dialog \in Dialogs /\ shows \in 0 .. MaxShows
  BY UiAssumption DEF Dialogs, Styles
<1>2. answers \in Seq(Answers) /\ DOMAIN answers = {}
  OBVIOUS
<1>3. RowExists /\ OneAnswerEach /\ DialogInv
  BY <1>2 DEF RowExists, ListStyles, OneAnswerEach, DialogInv
<1>4. ChatPart
  BY DEF ChatPart
<1>5. LinesInOrder
  <2>1. <<>> \o <<>> = <<>>
    BY ConcatEmptySeq
  <2>2. [i \in 1 .. 0 |-> i] = <<>>
    OBVIOUS
  <2> QED  BY <2>1, <2>2 DEF LinesInOrder
<1>6. LinePart
  BY <1>5, UiAssumption DEF LinePart
<1> QED  BY <1>1, <1>2, <1>3, <1>4, <1>6 DEF UiInv, DialogPart

LEMMA AnswersNumbered == answers \in Seq(Answers) => \A i \in DOMAIN answers : answers[i].id \in Int
<1>1. \A a \in Answers : a.id \in Int
  BY UiAssumption DEF Answers
<1>2. answers \in Seq(Answers) => \A i \in DOMAIN answers : answers[i] \in Answers
  OBVIOUS
<1> QED  BY <1>1, <1>2

-----------------------------------------------------------------------------
(* Lines.                                                                  *)

LEMMA DrawKeepsLines == LinePart /\ DrawChat => LinePart'
<1> SUFFICES ASSUME LinePart, DrawChat PROVE LinePart'
  OBVIOUS
<1>1. m_lines' = m_lines \o m_pending /\ m_pending' = <<>> /\ pushed' = pushed
  BY DEF DrawChat, MovePending
<1>2. m_lines' \in Seq(1 .. MaxLines) /\ m_pending' \in Seq(1 .. MaxLines)
  BY <1>1, ConcatProperties DEF LinePart
<1>3. m_lines' \o m_pending' = m_lines \o m_pending
  BY <1>1, <1>2, ConcatEmptySeq
<1> QED  BY <1>1, <1>2, <1>3 DEF LinePart, LinesInOrder

LEMMA PushKeepsLines == LinePart /\ PushLineAsync => LinePart'
<1> SUFFICES ASSUME LinePart, PushLineAsync PROVE LinePart'
  OBVIOUS
<1> DEFINE S == 1 .. MaxLines
           line == pushed + 1
<1>1. /\ pushed' = line /\ line \in S /\ pushed \in Nat
      /\ m_pending' = Append(m_pending, line) /\ m_lines' = m_lines
  BY UiAssumption DEF PushLineAsync, LinePart, dialogVars, chatVars
<1>2. m_lines \in Seq(S) /\ m_pending \in Seq(S) /\ m_pending' \in Seq(S)
  BY <1>1 DEF LinePart
<1>3. /\ m_lines \o m_pending \in Seq(S)
      /\ m_lines' \o m_pending' \in Seq(S)
      /\ Len(m_lines \o m_pending) = Len(m_lines) + Len(m_pending)
      /\ Len(m_lines' \o m_pending') = Len(m_lines) + Len(m_pending')
      /\ \A i \in 1 .. Len(m_lines) + Len(m_pending') :
           (m_lines' \o m_pending')[i] =
             IF i <= Len(m_lines) THEN m_lines[i] ELSE m_pending'[i - Len(m_lines)]
      /\ \A i \in 1 .. Len(m_lines) + Len(m_pending) :
           (m_lines \o m_pending)[i] =
             IF i <= Len(m_lines) THEN m_lines[i] ELSE m_pending[i - Len(m_lines)]
  BY <1>1, <1>2, ConcatProperties
<1>4. /\ Len(m_pending') = Len(m_pending) + 1 /\ Len(m_pending) \in Nat /\ Len(m_lines) \in Nat
      /\ \A i \in 1 .. Len(m_pending) : m_pending'[i] = m_pending[i]
      /\ m_pending'[Len(m_pending) + 1] = line
  BY <1>1, <1>2
<1>5. /\ Len(m_lines \o m_pending) = pushed
      /\ \A i \in 1 .. pushed : (m_lines \o m_pending)[i] = i
  <2>1. m_lines \o m_pending = [i \in 1 .. pushed |-> i]
    BY DEF LinePart, LinesInOrder
  <2> QED  BY <1>1, <1>3, <2>1
<1>6. Len(m_lines' \o m_pending') = line
  BY <1>3, <1>4, <1>5
<1>7. \A i \in 1 .. line : (m_lines' \o m_pending')[i] = i
  BY <1>1, <1>3, <1>4, <1>5
<1>8. m_lines' \o m_pending' = [i \in 1 .. line |-> i]
  <2>1. DOMAIN (m_lines' \o m_pending') = 1 .. line
    BY <1>3, <1>6, LenProperties
  <2>2. m_lines' \o m_pending' \in [1 .. line -> S]
    BY <1>3, <1>6, LenProperties
  <2> QED  BY <1>7, <2>2
<1>9. LinesInOrder'
  BY <1>1, <1>8 DEF LinesInOrder
<1>10. pushed' \in 0 .. MaxLines
  BY <1>1, UiAssumption
<1> HIDE DEF line
<1> QED  BY <1>1, <1>2, <1>9, <1>10 DEF LinePart

-----------------------------------------------------------------------------
(* The chat's input line.                                                  *)

LEMMA ChatSteps ==
  ASSUME ChatPart, (DrawChat /\ events' = {}) \/ \E key \in Keys : KeyDown(key)
  PROVE  ChatPart'
<1> USE DEF ChatPart
<1>1. CASE DrawChat /\ events' = {}
  <2>1. focus' \in {"none", "chat", "dialog"}
    BY <1>1 DEF DrawChat, SetChatInactive, FocusAfter, ChatFocus
  <2>2. EditedNow \in BOOLEAN
    BY DEF EditedNow
  <2>3. chatActive' \in BOOLEAN /\ chatWantFocus' \in BOOLEAN /\ chatEdited' \in BOOLEAN
    BY <1>1, <2>2 DEF DrawChat, SetChatInactive
  <2> QED  BY <1>1, <2>1, <2>3
<1>2. ASSUME NEW key \in Keys, KeyDown(key) PROVE ChatPart'
  BY <1>2 DEF KeyDown, SetChatActive, SetChatInactive, ToImGui, chatVars
<1> QED  BY <1>1, <1>2

-----------------------------------------------------------------------------
(* Dialogs.                                                                *)

LEMMA ShowKeepsDialogs == DialogPart /\ ServerShows => DialogPart'
<1> SUFFICES ASSUME DialogPart, NEW style \in Styles, NEW hasBtn2 \in BOOLEAN,
                    NEW rows \in 0 .. MaxRows, Show(style, rows, hasBtn2)
             PROVE  DialogPart'
  BY UiAssumption DEF ServerShows
<1> USE DEF DialogPart
<1> DEFINE sel == IF style \in ListStyles THEN InitialSelection(rows) ELSE -1
<1>1. /\ shows' = shows + 1 /\ shows' \in 1 .. MaxShows /\ m_active' = TRUE
      /\ dialog' = [id |-> shows + 1, style |-> style, rows |-> rows, hasBtn2 |-> hasBtn2,
                    selected |-> sel]
      /\ answers' = answers
  BY UiAssumption DEF Show
<1>2. sel \in -1 .. MaxRows - 1 /\ (style \in ListStyles => sel < rows)
  BY UiAssumption DEF InitialSelection
<1> HIDE DEF sel
<1>3. dialog' \in Dialogs
  BY <1>1, <1>2 DEF Dialogs
<1>4. dialog'.id = shows + 1 /\ dialog'.style = style /\ dialog'.rows = rows
      /\ dialog'.selected = sel
  BY <1>1
<1>5. RowExists'
  BY <1>1, <1>2, <1>4 DEF RowExists
<1>6. \A i \in DOMAIN answers : answers[i].id \in Int /\ answers[i].id <= shows
  BY AnswersNumbered DEF DialogInv
<1>7. OneAnswerEach' /\ DialogInv'
  BY <1>1, <1>4, <1>6 DEF OneAnswerEach, DialogInv
<1> QED  BY <1>1, <1>3, <1>5, <1>7

(* A drawn dialog's selection is its own or a row that was clicked.        *)
LEMMA DrawKeepsDialogs == DialogPart /\ DrawDialog => DialogPart'
<1> SUFFICES ASSUME DialogPart, DrawDialog PROVE DialogPart'
  OBVIOUS
<1> USE DEF DialogPart
<1>1. CASE UNCHANGED dialogVars
  BY <1>1 DEF dialogVars, RowExists, OneAnswerEach, DialogInv
<1>2. CASE m_active /\ ~ UNCHANGED dialogVars
  <2> DEFINE Drawn(click, row) ==
        LET d == [dialog EXCEPT !.selected = row]
            submitted == Submitted(d, click)
        IN  /\ dialog' = d
            /\ \/ 1 \in submitted /\ Respond(d, 1)
               \/ submitted = {0} /\ Respond(d, 0)
               \/ submitted = {} /\ UNCHANGED <<m_active, answers>>
  <2>1. PICK click \in Clicks(dialog) :
          \E row \in IF click \in {"row", "double"}
                     THEN FirstItem(dialog) .. LastItem(dialog) ELSE {dialog.selected} :
            Drawn(click, row)
    BY <1>2 DEF DrawDialog
  <2>10. PICK row \in IF click \in {"row", "double"}
                     THEN FirstItem(dialog) .. LastItem(dialog) ELSE {dialog.selected} :
           Drawn(click, row)
    BY <2>1
  <2> DEFINE d == [dialog EXCEPT !.selected = row]
  <2>2. UNCHANGED shows
    BY <1>2 DEF DrawDialog
  <2>3. /\ dialog.id \in 0 .. MaxShows /\ dialog.rows \in 0 .. MaxRows
        /\ dialog.selected \in -1 .. MaxRows - 1 /\ dialog.style \in Styles
        /\ dialog.hasBtn2 \in BOOLEAN
    BY DEF Dialogs
  <2>4. row \in -1 .. MaxRows - 1 /\ (dialog.style \in ListStyles => row < dialog.rows)
        /\ (dialog.style = "List" => row < dialog.rows)
    <3>1. CASE click \in {"row", "double"}
      <4>1. FirstItem(dialog) \in {0, 1} /\ LastItem(dialog) = dialog.rows - 1
        BY DEF FirstItem, LastItem
      <4> QED  BY <2>10, <2>3, <3>1, <4>1, UiAssumption
    <3>2. CASE click \notin {"row", "double"}
      BY <2>10, <2>3, <3>2 DEF RowExists, ListStyles
    <3> QED  BY <3>1, <3>2
  <2>5. d \in Dialogs /\ d.id = dialog.id /\ d.rows = dialog.rows /\ d.style = dialog.style
        /\ d.selected = row
    BY <2>3, <2>4 DEF Dialogs
  <2>6. dialog' = d
    BY <2>10
  <2> HIDE DEF d
  <2>7. CASE UNCHANGED <<m_active, answers>>
    <3>1. RowExists'
      BY <2>4, <2>5, <2>6, <2>7 DEF RowExists
    <3>2. OneAnswerEach' /\ DialogInv'
      BY <2>2, <2>5, <2>6, <2>7 DEF OneAnswerEach, DialogInv
    <3> QED  BY <2>2, <2>5, <2>6, <2>7, <3>1, <3>2
  <2>8. ASSUME NEW button \in {0, 1}, Respond(d, button) PROVE DialogPart'
    <3> DEFINE a == [id |-> d.id, rows |-> d.rows, button |-> button,
                     listItem |-> ItemOfListOnly(d)]
    <3>1. answers' = Append(answers, a) /\ m_active' = FALSE
      BY <2>8 DEF Respond
    <3>2. ItemOfListOnly(d) \in 0 .. NoItem
          /\ (ItemOfListOnly(d) # NoItem => ItemOfListOnly(d) < d.rows)
      <4>1. ItemOfListOnly(d) = IF dialog.style = "List" /\ row >= 0 THEN row ELSE NoItem
        BY <2>5, Zenon DEF ItemOfListOnly
      <4>2. MaxRows \in Nat /\ MaxRows <= NoItem /\ NoItem \in Nat
        BY UiAssumption DEF NoItem
      <4>3. row \in Int /\ row <= MaxRows - 1
        BY <2>4, <4>2
      <4>4. dialog.style = "List" => row < d.rows
        BY <2>4, <2>5
      <4>5. CASE dialog.style = "List" /\ row >= 0
        <5>1. ItemOfListOnly(d) = row
          BY <4>1, <4>5
        <5> QED  BY <4>2, <4>3, <4>4, <4>5, <5>1
      <4>6. CASE ~ (dialog.style = "List" /\ row >= 0)
        <5>1. ItemOfListOnly(d) = NoItem
          BY <4>1, <4>6
        <5> QED  BY <4>2, <5>1
      <4> QED  BY <4>5, <4>6
    <3>3. d.id = shows /\ d.id \in 1 .. MaxShows
      BY <1>2, <2>3, <2>5 DEF DialogInv
    <3>4. a \in Answers /\ a.id = shows /\ a.rows = d.rows /\ a.listItem = ItemOfListOnly(d)
      BY <2>3, <2>5, <3>2, <3>3 DEF Answers
    <3> HIDE DEF a
    <3>5. /\ answers' \in Seq(Answers) /\ Len(answers) \in Nat
          /\ DOMAIN answers = 1 .. Len(answers) /\ DOMAIN answers' = 1 .. Len(answers) + 1
          /\ \A i \in 1 .. Len(answers) : answers'[i] = answers[i]
          /\ answers'[Len(answers) + 1] = a
      BY <3>1, <3>4
    <3>6. \A i \in DOMAIN answers : answers[i].id \in Int /\ answers[i].id < shows
      BY <1>2, AnswersNumbered DEF OneAnswerEach, DialogInv
    <3>7. RowExists'
      BY <2>4, <2>5, <2>6, <3>2, <3>4, <3>5 DEF RowExists
    <3>8. OneAnswerEach'
      BY <3>1, <3>3, <3>4, <3>5, <3>6 DEF OneAnswerEach
    <3>9. DialogInv'
      BY <2>2, <2>5, <2>6, <3>1, <3>3, <3>4, <3>5, <3>6 DEF DialogInv
    <3> QED  BY <2>2, <2>5, <2>6, <3>1, <3>5, <3>7, <3>8, <3>9
  <2> QED  BY <2>10, <2>7, <2>8 DEF d
<1> QED  BY <1>1, <1>2 DEF DrawDialog

LEMMA HideKeepsDialogs == DialogPart /\ Hide => DialogPart'
  BY DEF DialogPart, Hide, RowExists, OneAnswerEach, DialogInv

LEMMA UiInvNext == UiInv /\ [UiNext]_uiVars => UiInv'
<1> SUFFICES ASSUME UiInv, [UiNext]_uiVars PROVE UiInv'
  OBVIOUS
<1> USE DEF UiInv
<1>1. UNCHANGED dialogVars => DialogPart'
  BY DEF dialogVars, DialogPart, RowExists, OneAnswerEach, DialogInv
<1>2. UNCHANGED <<chatVars, events>> => ChatPart'
  BY DEF chatVars, ChatPart
<1>3. UNCHANGED lineVars => LinePart'
  BY DEF lineVars, LinePart, LinesInOrder
<1>4. CASE UNCHANGED uiVars
  BY <1>1, <1>2, <1>3, <1>4 DEF uiVars
<1>5. CASE ServerShows
  BY <1>2, <1>3, <1>5, ShowKeepsDialogs DEF ServerShows, Show
<1>6. CASE Hide
  BY <1>2, <1>3, <1>6, HideKeepsDialogs DEF Hide
<1>7. CASE PushLineAsync
  BY <1>1, <1>2, <1>7, PushKeepsLines DEF PushLineAsync
<1>8. ASSUME NEW key \in Keys, KeyDown(key) PROVE UiInv'
  BY <1>1, <1>3, <1>8, ChatSteps DEF KeyDown
<1>9. CASE draw_ui
  BY <1>9, DrawKeepsDialogs, DrawKeepsLines, ChatSteps DEF draw_ui
<1> QED  BY <1>4, <1>5, <1>6, <1>7, <1>8, <1>9 DEF UiNext

LEMMA UiInvariant == UiSpec => []UiInv
  BY UiInvInit, UiInvNext, PTL DEF UiSpec

(* The state of the windows keeps its types.                               *)
THEOREM UiTypeCorrect == UiSpec => []UiTypeOK
<1>1. UiInv => UiTypeOK
  BY DEF UiInv, DialogPart, ChatPart, LinePart, UiTypeOK
<1> QED  BY <1>1, UiInvariant, PTL

(* The row an answer names exists.                                         *)
THEOREM RowsExist == UiSpec => []RowExists
<1>1. UiInv => RowExists
  BY DEF UiInv, DialogPart
<1> QED  BY <1>1, UiInvariant, PTL

(* A dialog is answered at most once, and in its turn.                     *)
THEOREM AnswersInTurn == UiSpec => []OneAnswerEach
<1>1. UiInv => OneAnswerEach
  BY DEF UiInv, DialogPart
<1> QED  BY <1>1, UiInvariant, PTL

(* Chat lines come into m_lines once and in the order they were pushed.    *)
THEOREM LinesStayInOrder == UiSpec => []LinesInOrder
<1>1. UiInv => LinesInOrder
  BY DEF UiInv, LinePart
<1> QED  BY <1>1, UiInvariant, PTL

-----------------------------------------------------------------------------
(* The dialog service.                                                     *)

(* What a drawn frame does to a dialog that is up: its selection may move, *)
(* and it may be answered, in the negative only where it has two buttons.  *)
LEMMA DialogIsDrawn ==
  ASSUME DialogPart, DrawDialog, m_active
  PROVE  /\ UNCHANGED <<shows, Offered>>
         /\ \/ UNCHANGED <<m_active, answers>>
            \/ Respond(dialog', 1)
            \/ Respond(dialog', 0) /\ dialog.hasBtn2
         /\ dialog' \in Dialogs
<1> DEFINE Drawn(click, row) ==
        LET d == [dialog EXCEPT !.selected = row]
            submitted == Submitted(d, click)
        IN  /\ dialog' = d
            /\ \/ 1 \in submitted /\ Respond(d, 1)
               \/ submitted = {0} /\ Respond(d, 0)
               \/ submitted = {} /\ UNCHANGED <<m_active, answers>>
<1>1. PICK click \in Clicks(dialog) :
        \E row \in IF click \in {"row", "double"}
                   THEN FirstItem(dialog) .. LastItem(dialog) ELSE {dialog.selected} :
          Drawn(click, row)
  BY DEF DrawDialog
<1>2. PICK row \in IF click \in {"row", "double"}
                   THEN FirstItem(dialog) .. LastItem(dialog) ELSE {dialog.selected} :
        Drawn(click, row)
  BY <1>1
<1> DEFINE d == [dialog EXCEPT !.selected = row]
<1>3. dialog' = d
  BY <1>2
<1>4. /\ d.id = dialog.id /\ d.rows = dialog.rows /\ d.style = dialog.style
      /\ d.hasBtn2 = dialog.hasBtn2
  BY DEF DialogPart, Dialogs
<1>5. \/ 1 \in Submitted(d, click) /\ Respond(d, 1)
      \/ Submitted(d, click) = {0} /\ Respond(d, 0)
      \/ UNCHANGED <<m_active, answers>>
  BY <1>2
<1>6. dialog' \in Dialogs
  BY DrawKeepsDialogs DEF DialogPart
<1> HIDE DEF d, Drawn
<1>7. Submitted(d, click) = {0} => dialog.hasBtn2
  <2> SUFFICES ASSUME 0 \in Submitted(d, click) PROVE dialog.hasBtn2
    OBVIOUS
  <2>1. CASE click = "btn2"
    BY <1>1, <2>1 DEF Clicks
  <2>2. CASE 0 \in EscapeButton(d)
    BY <1>4, <2>2 DEF EscapeButton
  <2> QED
    BY <2>1, <2>2 DEF Submitted
<1>8. UNCHANGED Offered
  BY <1>3, <1>4 DEF Offered
<1> QED
  BY <1>3, <1>5, <1>6, <1>7, <1>8 DEF DrawDialog

(* An answer is the service's.                                             *)
LEMMA AnswerOfService ==
  ASSUME DialogPart, m_active, UNCHANGED <<shows, Offered>>, dialog' \in Dialogs,
         (dialog').selected < (dialog').rows \/ dialog.style # "List",
         NEW button \in {0, 1}, button = 0 => dialog.hasBtn2, Respond(dialog', button)
  PROVE  Service!Answer(Offered) /\ ~ m_active'
<1> DEFINE item == ItemOfListOnly(dialog')
<1>1. /\ Offered.id = (dialog').id /\ Offered.rows = (dialog').rows
      /\ Offered.hasBtn2 = dialog.hasBtn2
      /\ Offered.isList <=> dialog.style = "List"
      /\ (dialog').style = "List" <=> dialog.style = "List"
  BY DEF Offered
<1>2. ~ m_active' /\ answers' = Append(answers, [id |-> Offered.id, rows |-> Offered.rows,
                                                button |-> button, listItem |-> item])
  BY <1>1 DEF Respond
<1>3. item \in Service!Rows(Offered) \cup {NoItem}
  <2>1. (dialog').rows \in Nat /\ (dialog').selected \in Int
    BY UiAssumption DEF Dialogs
  <2>2. CASE (dialog').style = "List" /\ (dialog').selected >= 0
    <3>1. item = (dialog').selected
      BY <2>2 DEF ItemOfListOnly
    <3>2. (dialog').selected \in 0 .. Offered.rows - 1
      BY <1>1, <2>1, <2>2
    <3> QED
      BY <1>1, <2>2, <3>1, <3>2 DEF Service!Rows
  <2>3. CASE ~ ((dialog').style = "List" /\ (dialog').selected >= 0)
    BY <2>3 DEF ItemOfListOnly
  <2> QED
    BY <2>2, <2>3
<1>4. button \in Service!Buttons(Offered)
  BY <1>1 DEF Service!Buttons
<1> HIDE DEF item
<1> QED
  BY <1>2, <1>3, <1>4 DEF Service!Answer

(* The part of a step that touches the dialogs is one of the service's.    *)
LEMMA ServiceSteps ==
  ASSUME UiInv, [UiNext]_uiVars
  PROVE  [Service!Next]_(Service!serviceVars)
<1> USE DEF Service!serviceVars
<1>1. CASE ServerShows
  <2>1. PICK style \in Styles, hasBtn2 \in BOOLEAN :
          \E rows \in IF style \in ListStyles THEN 0 .. MaxRows ELSE {0} :
            Show(style, rows, hasBtn2)
    BY <1>1 DEF ServerShows
  <2>2. PICK rows \in 0 .. MaxRows : Show(style, rows, hasBtn2)
    BY <2>1, UiAssumption
  <2>3. /\ shows < MaxShows /\ shows' = shows + 1 /\ m_active' = TRUE /\ UNCHANGED answers
        /\ (dialog').id = shows + 1 /\ (dialog').style = style /\ (dialog').rows = rows
        /\ (dialog').hasBtn2 = hasBtn2
    BY <2>2 DEF Show
  <2>4. Offered' = [id |-> shows + 1, isList |-> style = "List", rows |-> rows,
                    hasBtn2 |-> hasBtn2]
    BY <2>3 DEF Offered
  <2>5. shows + 1 \in 1 .. MaxShows
    BY <2>3, UiAssumption DEF UiInv, DialogPart
  <2>6. (style = "List") \in BOOLEAN
    OBVIOUS
  <2>7. Offered' \in Service!Offers
    BY <2>4, <2>5, <2>6 DEF Service!Offers
  <2>8. Service!Show(Offered')
    BY <2>3, <2>4 DEF Service!Show
  <2> QED
    BY <2>7, <2>8 DEF Service!Next
<1>2. CASE Hide
  <2>1. Service!Hide
    BY <1>2 DEF Hide, Service!Hide
  <2> QED
    BY <2>1 DEF Service!Next
<1>3. CASE draw_ui /\ m_active
  <2>0. DialogPart /\ DrawDialog /\ DialogPart'
    BY <1>3, DrawKeepsDialogs DEF UiInv, draw_ui
  <2>1. UNCHANGED <<shows, Offered>> /\ dialog' \in Dialogs
    BY <1>3, <2>0, DialogIsDrawn
  <2>2. CASE UNCHANGED <<m_active, answers>>
    BY <2>1, <2>2
  <2>3. ASSUME NEW button \in {0, 1}, button = 0 => dialog.hasBtn2, Respond(dialog', button)
        PROVE  Service!Next
    <3>1. (dialog').selected < (dialog').rows \/ (dialog').style # "List"
      BY <2>0 DEF DialogPart, RowExists, ListStyles
    <3>2. (dialog').style = "List" <=> dialog.style = "List"
      BY <2>1 DEF Offered
    <3>3. Service!Answer(Offered)
      BY <1>3, <2>0, <2>1, <2>3, <3>1, <3>2, AnswerOfService
    <3> QED
      BY <1>3, <3>3 DEF Service!Next
  <2>4. \/ UNCHANGED <<m_active, answers>>
        \/ Respond(dialog', 1)
        \/ Respond(dialog', 0) /\ dialog.hasBtn2
    BY <1>3, <2>0, DialogIsDrawn
  <2>5. CASE Respond(dialog', 1)
    BY <2>3, <2>5
  <2>6. CASE Respond(dialog', 0) /\ dialog.hasBtn2
    BY <2>3, <2>6
  <2> QED
    BY <2>2, <2>4, <2>5, <2>6
<1>4. CASE UNCHANGED dialogVars
  BY <1>4 DEF dialogVars, Offered
<1>5. UNCHANGED dialogVars \/ ServerShows \/ Hide \/ (draw_ui /\ m_active)
  BY DEF UiNext, uiVars, PushLineAsync, KeyDown, draw_ui, DrawDialog
<1> QED
  BY <1>1, <1>2, <1>3, <1>4, <1>5

(* However the user and the frames go about it, the server sees a dialog   *)
(* service: one dialog up, each answered at most once, with a button and a *)
(* row it has.                                                             *)
THEOREM ImplementsTheDialogService == UiSpec => ImplementsDialogs
<1>1. UiInit => Service!Init
  BY DEF UiInit, Service!Init
<1>2. UiInv /\ [UiNext]_uiVars => [Service!Next]_(Service!serviceVars)
  BY ServiceSteps
<1> QED
  BY <1>1, <1>2, UiInvariant, PTL DEF UiSpec, ImplementsDialogs, Service!Spec

-----------------------------------------------------------------------------
(* Escape.                                                                 *)

(* A frame that finds Escape in the queue closes the dialog, whatever else *)
(* was clicked or typed in it.                                             *)
LEMMA EscapeCloses ==
  ASSUME DialogPart, DrawDialog, m_active, "Esc" \in events
  PROVE  ~ m_active'
<1> DEFINE Drawn(click, row) ==
        LET d == [dialog EXCEPT !.selected = row]
            submitted == Submitted(d, click)
        IN  /\ dialog' = d
            /\ \/ 1 \in submitted /\ Respond(d, 1)
               \/ submitted = {0} /\ Respond(d, 0)
               \/ submitted = {} /\ UNCHANGED <<m_active, answers>>
<1>1. \E click, row : Drawn(click, row)
  BY DEF DrawDialog
<1>2. PICK click, row : Drawn(click, row)
  BY <1>1
<1> DEFINE d == [dialog EXCEPT !.selected = row]
<1>3. Submitted(d, click) # {}
  BY DEF Submitted, EscapeButton
<1> QED
  BY <1>2, <1>3 DEF Respond

(* An Escape closes the chat at once or the dialog with the next frame:    *)
(* NoModalTrap needs no more than that frames and key presses go on.       *)
THEOREM EscapesLeadOut == UiSpec => EscapeLeadsOut
<1>1. ASSUME KeyDown("Esc")
      PROVE  IF chatActive THEN ~ chatActive' ELSE "Esc" \in events'
  BY <1>1 DEF KeyDown, OpensChat, ClosesChat, ToImGui, SetChatInactive
<1>2. ASSUME UiInv, UiNext, "Esc" \in events, "Esc" \notin events'
      PROVE  ~ m_active'
  <2>1. draw_ui
    BY <1>2 DEF UiNext, ServerShows, Show, Hide, PushLineAsync, KeyDown, ToImGui
  <2>2. CASE m_active
    BY <1>2, <2>1, <2>2, EscapeCloses DEF UiInv, draw_ui
  <2>3. CASE ~ m_active
    BY <2>1, <2>3 DEF draw_ui, DrawDialog, dialogVars
  <2> QED
    BY <2>2, <2>3
<1>3. UiInv /\ [UiNext]_uiVars
      => [/\ KeyDown("Esc") => IF chatActive THEN ~ chatActive' ELSE "Esc" \in events'
          /\ "Esc" \in events /\ "Esc" \notin events' => ~ m_active']_uiVars
  BY <1>1, <1>2
<1> QED
  BY <1>3, UiInvariant, PTL DEF UiSpec, EscapeLeadsOut
=============================================================================
