--------------------------------- MODULE Ui ---------------------------------
(***************************************************************************)
(* What the user sees and types into (dialog.cpp, chat.cpp,                *)
(* imgui_manager.cpp, input_guard.cpp), once ImGui is set up.              *)
(*                                                                         *)
(* Everything but the pushing of chat lines happens on the game's thread,  *)
(* in three places of a frame: window messages (HookWndProc), the tick     *)
(* that may show or hide a dialog, and draw_ui.  What the user typed in    *)
(* between waits in ImGui's event queue for the next draw_ui.              *)
(*                                                                         *)
(* Layout, colours, texts and the mouse cursor are left out; a list's rows *)
(* are counted, a typed text is only edited or not.  Password dialogs are  *)
(* Input dialogs.                                                          *)
(***************************************************************************)
EXTENDS Integers, Sequences

CONSTANTS
  MaxShows,      \* bound: dialogs the server shows; they are numbered
  MaxRows,       \* bound: rows of a list
  MaxLines       \* bound: chat lines pushed

Styles == {"MsgBox", "Input", "List", "TabList", "TabListHeaders"}
ListStyles == {"List", "TabList", "TabListHeaders"}
Keys == {"T", "Esc", "Enter"}            \* T types a character, as any other key would
NoItem == 65535                          \* 0xFFFF

ASSUME UiAssumption ==
  {MaxShows, MaxRows, MaxLines} \subseteq Nat /\ MaxRows <= NoItem

VARIABLES
  dialog,        \* gui::Dialog: id, style, rows, hasBtn2, m_selectedItem
  m_active,      \* the dialog's
  shows,         \* dialogs shown so far
  answers,       \* every DialogResponse sent, with the dialog it was for
  chatActive, chatWantFocus, chatEdited,
  m_lines, m_pending, pushed,
  focus,         \* the widget ImGui gives the keyboard to
  events         \* keys in ImGui's queue since the last draw

dialogVars == <<dialog, m_active, shows, answers>>
chatVars == <<chatActive, chatWantFocus, chatEdited, focus>>
lineVars == <<m_lines, m_pending, pushed>>
uiVars == <<dialogVars, chatVars, lineVars, events>>

Dialogs == [id : 0 .. MaxShows, style : Styles, rows : 0 .. MaxRows,
            hasBtn2 : BOOLEAN, selected : -1 .. MaxRows - 1]
Answers == [id : 1 .. MaxShows, rows : 0 .. MaxRows,
            button : {0, 1}, listItem : 0 .. NoItem]

UiTypeOK ==
  /\ dialog \in Dialogs /\ m_active \in BOOLEAN
  /\ shows \in 0 .. MaxShows /\ answers \in Seq(Answers)
  /\ {chatActive, chatWantFocus, chatEdited} \subseteq BOOLEAN
  /\ focus \in {"none", "chat", "dialog"}
  /\ m_lines \in Seq(1 .. MaxLines) /\ m_pending \in Seq(1 .. MaxLines)
  /\ pushed \in 0 .. MaxLines
  /\ events \subseteq Keys

UiInit ==
  /\ dialog = [id |-> 0, style |-> "MsgBox", rows |-> 0, hasBtn2 |-> FALSE, selected |-> -1]
  /\ m_active = FALSE /\ shows = 0 /\ answers = <<>>
  /\ chatActive = FALSE /\ chatWantFocus = FALSE /\ chatEdited = FALSE
  /\ m_lines = <<>> /\ m_pending = <<>> /\ pushed = 0
  /\ focus = "none" /\ events = {}

ModalActive == m_active \/ chatActive

-----------------------------------------------------------------------------
(* The server's dialogs, from the tick.                                    *)

InitialSelectionKept(rows) == dialog.selected   \* mutant: the old row stays
InitialSelection(rows) == IF rows > 0 THEN 0 ELSE -1

Show(style, rows, hasBtn2) ==
  /\ shows < MaxShows /\ shows' = shows + 1
  /\ dialog' = [id |-> shows + 1, style |-> style, rows |-> rows, hasBtn2 |-> hasBtn2,
                selected |-> IF style \in ListStyles THEN InitialSelection(rows) ELSE -1]
  /\ m_active' = TRUE
  /\ UNCHANGED <<answers, chatVars, lineVars, events>>

(* Style 255, and the end of a session.                                    *)
Hide ==
  /\ m_active /\ m_active' = FALSE
  /\ UNCHANGED <<dialog, shows, answers, chatVars, lineVars, events>>

ServerShows ==
  \E style \in Styles, hasBtn2 \in BOOLEAN :
    \E rows \in IF style \in ListStyles THEN 0 .. MaxRows ELSE {0} :
      Show(style, rows, hasBtn2)

(* A chat line from any thread.                                            *)
PushLineAsync ==
  /\ pushed < MaxLines /\ pushed' = pushed + 1
  /\ m_pending' = Append(m_pending, pushed + 1)
  /\ UNCHANGED <<dialogVars, chatVars, m_lines, events>>

-----------------------------------------------------------------------------
(* HookWndProc.                                                            *)

OpensChat(key) == key = "T" /\ ~ m_active /\ ~ chatActive
ClosesChat(key) == key = "Esc" /\ chatActive

SetChatActive ==
  /\ chatActive' = TRUE /\ chatWantFocus' = TRUE
  /\ UNCHANGED <<chatEdited, focus>>

SetChatInactive ==
  /\ chatActive' = FALSE /\ chatWantFocus' = FALSE /\ chatEdited' = FALSE
  /\ focus' = "none"

(* Any other key goes to ImGui; the game sees it too unless ModalActive.   *)
ToImGui(key) == events' = events \cup {key}

KeyDown(key) ==
  /\ \/ OpensChat(key) /\ SetChatActive /\ UNCHANGED events
     \/ ClosesChat(key) /\ SetChatInactive /\ UNCHANGED events
     \/ ~ OpensChat(key) /\ ~ ClosesChat(key) /\ ToImGui(key) /\ UNCHANGED chatVars
  /\ UNCHANGED <<dialogVars, lineVars>>

-----------------------------------------------------------------------------
(* draw_ui: the chat, then the dialog.                                     *)

(* ImGuiChat::Draw moves the pending lines under the lock, then gives the  *)
(* input line the focus it asked for; Enter ends the input only where the  *)
(* text was edited.                                                        *)
MovePendingUnordered == m_pending \o m_lines     \* mutant: put in front
MovePending == m_lines \o m_pending

ChatFocus == IF chatActive /\ chatWantFocus THEN "chat" ELSE focus
EditedNow == chatEdited \/ (ChatFocus = "chat" /\ "T" \in events)
EnterInChat == chatActive /\ ChatFocus = "chat" /\ "Enter" \in events

(* An open dialog may take the keyboard; what it held is free once it is   *)
(* gone.                                                                   *)
FocusAfter ==
  IF m_active THEN {ChatFocus, "dialog", "none"}
  ELSE {IF ChatFocus = "dialog" THEN "none" ELSE ChatFocus}

DrawChat ==
  /\ m_lines' = MovePending /\ m_pending' = <<>> /\ UNCHANGED pushed
  /\ \/ EnterInChat /\ EditedNow /\ SetChatInactive
     \/ EnterInChat /\ ~ EditedNow          \* the widget is left, nothing sent
        /\ focus' = "none" /\ chatWantFocus' = FALSE
        /\ UNCHANGED <<chatActive, chatEdited>>
     \/ /\ ~ EnterInChat
        /\ focus' \in FocusAfter
        /\ chatWantFocus' = FALSE
        /\ chatEdited' = EditedNow /\ UNCHANGED chatActive

(* Dialog::Respond.                                                        *)
ItemOfAnyList(d) ==                  \* mutant: every style with rows answers one
  IF d.style \in ListStyles /\ d.selected >= 0 THEN d.selected ELSE NoItem
ItemOfListOnly(d) ==
  IF d.style = "List" /\ d.selected >= 0 THEN d.selected ELSE NoItem

RespondKeeping(d, button) ==         \* mutant: the dialog is not hidden
  /\ answers' = Append(answers, [id |-> d.id, rows |-> d.rows, button |-> button,
                                 listItem |-> ItemOfListOnly(d)])
  /\ UNCHANGED m_active
Respond(d, button) ==
  /\ answers' = Append(answers, [id |-> d.id, rows |-> d.rows, button |-> button,
                                 listItem |-> ItemOfListOnly(d)])
  /\ m_active' = FALSE

(* Escape presses the second button, or the only one.                      *)
EscapeNeedsTwo(d) == IF d.hasBtn2 THEN {0} ELSE {}     \* mutant
EscapeButton(d) == IF d.hasBtn2 THEN {0} ELSE {1}

LastItem(d) == d.rows - 1
FirstItem(d) == IF d.style = "TabListHeaders" THEN 1 ELSE 0

(* What this frame's clicks and keys submit: 1 for main, 0 for cancel.     *)
Submitted(d, click) ==
  (CASE click \in {"double", "btn1"} -> {1}
     [] click = "btn2" -> {0}
     [] OTHER -> {})
  \cup (IF d.style = "Input" /\ focus' = "dialog" /\ "Enter" \in events THEN {1} ELSE {})
  \cup (IF "Esc" \in events THEN EscapeButton(d) ELSE {})

Clicks(d) ==
  {"none", "btn1"} \cup (IF d.hasBtn2 THEN {"btn2"} ELSE {})
  \cup (IF d.style \in ListStyles /\ d.rows > FirstItem(d) THEN {"row", "double"} ELSE {})

DrawDialog ==
  \/ ~ m_active /\ UNCHANGED dialogVars
  \/ /\ m_active /\ UNCHANGED shows
     /\ \E click \in Clicks(dialog) :
          \E row \in IF click \in {"row", "double"}
                     THEN FirstItem(dialog) .. LastItem(dialog) ELSE {dialog.selected} :
            LET d == [dialog EXCEPT !.selected = row]
                submitted == Submitted(d, click)
            IN /\ dialog' = d
               /\ \/ 1 \in submitted /\ Respond(d, 1)
                  \/ submitted = {0} /\ Respond(d, 0)
                  \/ submitted = {} /\ UNCHANGED <<m_active, answers>>

draw_ui ==
  /\ DrawChat /\ DrawDialog
  /\ events' = {}

UiNext ==
  \/ ServerShows \/ Hide \/ PushLineAsync
  \/ \E key \in Keys : KeyDown(key)
  \/ draw_ui

UiSpec == UiInit /\ [][UiNext]_uiVars

(* Frames go on, and a user who wants out presses Escape again and again.  *)
UiFairness == WF_uiVars(draw_ui) /\ WF_uiVars(ModalActive /\ KeyDown("Esc"))
FairUiSpec == UiSpec /\ UiFairness

-----------------------------------------------------------------------------
(* The row a list answers with, m_listItems[m_selectedItem], exists, also  *)
(* when a shorter list has replaced a longer one the user was choosing in. *)
RowExists ==
  /\ dialog.style \in ListStyles => dialog.selected < dialog.rows
  /\ \A i \in DOMAIN answers :
       answers[i].listItem # NoItem => answers[i].listItem < answers[i].rows

(* The server gets at most one answer to each dialog, in the order it      *)
(* showed them, and none to a dialog that was replaced.                    *)
OneAnswerEach ==
  /\ \A i, j \in DOMAIN answers : i < j => answers[i].id < answers[j].id
  /\ m_active => \A i \in DOMAIN answers : answers[i].id < dialog.id

(* Chat lines come into m_lines, whose last rows the window displays, in   *)
(* the order they were pushed, none lost or twice.                         *)
LinesInOrder == m_lines \o m_pending = [i \in 1 .. pushed |-> i]

(* To the server, the windows are no more than a dialog service, whatever  *)
(* is drawn, clicked and typed in between.                                 *)
Offered ==
  [id |-> dialog.id, isList |-> dialog.style = "List", rows |-> dialog.rows,
   hasBtn2 |-> dialog.hasBtn2]
Service == INSTANCE DialogService WITH up <- IF m_active THEN {Offered} ELSE {}
ImplementsDialogs == Service!Spec

(* No Escape is lost: it closes the chat, or waits in ImGui's queue for    *)
(* the frame that takes it and closes whatever dialog is then up.          *)
EscapeLeadsOut ==
  [][/\ KeyDown("Esc") => IF chatActive THEN ~ chatActive' ELSE "Esc" \in events'
     /\ "Esc" \in events /\ "Esc" \notin events' => ~ m_active']_uiVars

(* Escape always leads out of whatever is modal.                           *)
NoModalTrap == ModalActive ~> ~ ModalActive
=============================================================================
