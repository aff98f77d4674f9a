---------------------------- MODULE DialogService ----------------------------
(***************************************************************************)
(* What the client promises a server that shows dialogs: one is up at a    *)
(* time, the last shown; it is withdrawn or answered once, and then it is  *)
(* gone; an answer names the dialog it is for, a row only where that is a  *)
(* list that has it, and the second button only where there is one.        *)
(*                                                                         *)
(* How the dialog is drawn, selected in and closed is no part of it: Ui    *)
(* says that, and implements this.                                         *)
(***************************************************************************)
EXTENDS Integers, Sequences

CONSTANTS
  MaxShows,      \* bound: dialogs the server shows; they are numbered
  MaxRows,       \* bound: rows of a list
  NoItem         \* the row of an answer that names none

VARIABLES
  shows,         \* dialogs shown so far
  up,            \* the dialog that is up, if any
  answers        \* every answer sent

serviceVars == <<shows, up, answers>>

Offers == [id : 1 .. MaxShows, isList : BOOLEAN, rows : 0 .. MaxRows, hasBtn2 : BOOLEAN]

Init == shows = 0 /\ up = {} /\ answers = <<>>

(* Whatever was up is replaced, and will have no answer.                   *)
Show(offer) ==
  /\ shows < MaxShows /\ offer.id = shows + 1
  /\ shows' = shows + 1 /\ up' = {offer}
  /\ UNCHANGED answers

Hide == up # {} /\ up' = {} /\ UNCHANGED <<shows, answers>>

Rows(offer) == IF offer.isList THEN 0 .. offer.rows - 1 ELSE {}
Buttons(offer) == IF offer.hasBtn2 THEN {0, 1} ELSE {1}

Answer(offer) ==
  /\ up' = {} /\ UNCHANGED shows
  /\ \E button \in Buttons(offer), item \in Rows(offer) \cup {NoItem} :
       answers' = Append(answers, [id |-> offer.id, rows |-> offer.rows,
                                   button |-> button, listItem |-> item])

Next ==
  \/ \E offer \in Offers : Show(offer)
  \/ Hide
  \/ \E offer \in up : Answer(offer)

Spec == Init /\ [][Next]_serviceVars
=============================================================================
