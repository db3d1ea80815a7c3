--------------------------------- MODULE Dialogs --------------------------------
(* The dialogs of the user interface.  The background asks a question with a   *)
(* message to the panel, which has one dialog for all of them, and the answer  *)
(* comes back under the number of a promise (generic_ui/scripts/               *)
(* background_ui.ts, generic_ui/polymer/state.ts and root.ts).  The panel,     *)
(* a popup, may be closed and opened again, and asks questions of its own.     *)
EXTENDS Naturals, Sequences

CONSTANTS
  Question,
  None,
  Later,        \* how many milliseconds may pass after a question: none, or some
  MaxTime,      \* bound on them
  MaxPanels     \* bound: how often the panel is opened

VARIABLES
  now, panels,
  asked,           \* by question, its promiseId; 0 if the panel asked it itself, or None
  promisesMap_,    \* of the background: by promiseId, the question
  result,          \* what a question's promise was settled with
  toPanel, toBackground,
  connected,       \* the panel is there
  dialogClickFn,   \* <<question, promiseId>> of the question to be answered, or None
  dialog,          \* the question that the dialog shows
  overlay,         \* open, closing, closed
  opening,         \* questions for which the dialog has still to be opened
  waiting,         \* those that wait until it is closed
  held,            \* the questions this panel was asked
  clicked          \* the affirmative answers the user gave, by what was shown

panelVars == <<dialogClickFn, dialog, overlay, opening, waiting, held>>
vars == <<now, panels, asked, promisesMap_, result, toPanel, toBackground, connected,
          panelVars, clicked>>

TypeOK ==
  /\ now \in 1..MaxTime /\ panels \in 0..MaxPanels
  /\ asked \in [Question -> 0..MaxTime \cup {None}]
  /\ promisesMap_ \in [1..MaxTime -> Question \cup {None}]
  /\ result \in [Question -> {"fulfilled", "rejected", None}]
  /\ connected \in BOOLEAN /\ dialog \in Question \cup {None}
  /\ overlay \in {"open", "closing", "closed"} /\ clicked \subseteq Question

Init ==
  /\ now = 1 /\ panels = 0 /\ asked = [q \in Question |-> None]
  /\ promisesMap_ = [id \in 1..MaxTime |-> None] /\ result = [q \in Question |-> None]
  /\ toPanel = <<>> /\ toBackground = <<>> /\ connected = FALSE /\ clicked = {}
  /\ dialogClickFn = None /\ dialog = None /\ overlay = "closed" /\ opening = 0 /\ waiting = 0
  /\ held = {}

Settle(q, how) == result' = [result EXCEPT ![q] = IF @ = None THEN how ELSE @]

(* What answers a question: the promise of one the panel asked itself, or a    *)
(* message, which wrapPromise_ sends.                                          *)
Answer(fn, how) ==
  IF fn[2] = 0
  THEN Settle(fn[1], how) /\ UNCHANGED toBackground
  ELSE /\ toBackground' = Append(toBackground, <<fn[2], how>>)
       /\ UNCHANGED result

(* BackgroundUi.openDialog, doInPanel_: promiseId is the time, so that two     *)
(* questions of one millisecond have the same one, and the later takes the     *)
(* place of the earlier; a panel that is not there is sent nothing.            *)
doInPanel_(q) ==
  /\ asked[q] = None
  /\ \E d \in Later : now + d <= MaxTime /\ now' = now + d
  /\ asked' = [asked EXCEPT ![q] = now]
  /\ promisesMap_' = [promisesMap_ EXCEPT ![now] = q]
  /\ toPanel' = IF connected THEN Append(toPanel, <<q, now>>) ELSE toPanel
  /\ UNCHANGED <<panels, result, toBackground, connected, panelVars, clicked>>

(* handlePromiseResponse_ *)
handlePromiseResponse_ ==
  /\ toBackground # <<>> /\ toBackground' = Tail(toBackground)
  /\ LET id == Head(toBackground)[1]
     IN  IF promisesMap_[id] = None THEN UNCHANGED <<promisesMap_, result>>
         ELSE /\ Settle(promisesMap_[id], Head(toBackground)[2])
              /\ promisesMap_' = [promisesMap_ EXCEPT ![id] = None]
  /\ UNCHANGED <<now, panels, asked, toPanel, connected, panelVars, clicked>>

(* openDialog of state.ts and of root.ts: a question that is still open is     *)
(* answered with no; the dialog shows the new one from now on, and is to be    *)
(* opened once it is closed.                                                   *)
openDialog(q, id) ==
  /\ IF dialogClickFn # None THEN Answer(dialogClickFn, "rejected")
     ELSE UNCHANGED <<result, toBackground>>
  /\ dialogClickFn' = <<q, id>> /\ dialog' = q /\ opening' = opening + 1
  /\ held' = held \cup {q} /\ UNCHANGED <<overlay, waiting>>

(* Background.handleMessage_ *)
handleMessage_ ==
  /\ connected /\ toPanel # <<>> /\ toPanel' = Tail(toPanel)
  /\ openDialog(Head(toPanel)[1], Head(toPanel)[2])
  /\ UNCHANGED <<now, panels, asked, promisesMap_, connected, clicked>>

PanelAsks(q) ==
  /\ connected /\ asked[q] = None /\ asked' = [asked EXCEPT ![q] = 0]
  /\ openDialog(q, 0)
  /\ UNCHANGED <<now, panels, promisesMap_, toPanel, connected, clicked>>

(* The async part of root.ts's openDialog. *)
OpenLater ==
  /\ opening > 0 /\ opening' = opening - 1
  /\ IF overlay = "closed" THEN overlay' = "open" /\ UNCHANGED waiting
     ELSE waiting' = waiting + 1 /\ UNCHANGED overlay
  /\ UNCHANGED <<now, panels, asked, promisesMap_, result, toPanel, toBackground, connected,
                 dialogClickFn, dialog, held, clicked>>

(* dialogButtonClick: without a question handleDialogClick throws, before the  *)
(* dialog is closed.                                                           *)
dialogButtonClick(how) ==
  /\ overlay = "open" /\ dialogClickFn # None
  /\ Answer(dialogClickFn, how) /\ dialogClickFn' = None /\ overlay' = "closing"
  /\ clicked' = IF how = "fulfilled" THEN clicked \cup {dialog} ELSE clicked
  /\ UNCHANGED <<now, panels, asked, promisesMap_, toPanel, connected, dialog, opening, waiting,
                 held>>

(* closeDialog, of the back button. *)
closeDialog ==
  /\ overlay = "open" /\ overlay' = "closing"
  /\ UNCHANGED <<now, panels, asked, promisesMap_, result, toPanel, toBackground, connected,
                 dialogClickFn, dialog, opening, waiting, held, clicked>>

(* reusableDialogClosed: what waited opens the dialog. *)
reusableDialogClosed ==
  /\ overlay = "closing" /\ overlay' = (IF waiting > 0 THEN "open" ELSE "closed") /\ waiting' = 0
  /\ UNCHANGED <<now, panels, asked, promisesMap_, result, toPanel, toBackground, connected,
                 dialogClickFn, dialog, opening, held, clicked>>

PanelOpens ==
  /\ ~connected /\ panels < MaxPanels /\ panels' = panels + 1 /\ connected' = TRUE
  /\ UNCHANGED <<now, asked, promisesMap_, result, toPanel, toBackground, panelVars, clicked>>

(* What the panel had sent still arrives. *)
PanelCloses ==
  /\ connected /\ connected' = FALSE /\ toPanel' = <<>>
  /\ dialogClickFn' = None /\ dialog' = None /\ overlay' = "closed" /\ opening' = 0
  /\ waiting' = 0 /\ held' = {}
  /\ UNCHANGED <<now, panels, asked, promisesMap_, result, toBackground, clicked>>

Next ==
  \/ handlePromiseResponse_ \/ handleMessage_ \/ OpenLater \/ closeDialog
  \/ reusableDialogClosed \/ PanelOpens \/ PanelCloses
  \/ \E q \in Question : doInPanel_(q) \/ PanelAsks(q)
  \/ \E how \in {"fulfilled", "rejected"} : dialogButtonClick(how)

Spec == Init /\ [][Next]_vars

UnderWay(q) == \E k \in DOMAIN toBackground : promisesMap_[toBackground[k][1]] = q

(* The questions that share a promiseId with q, which is itself one of them. *)
Numbered(q) == {r \in Question : asked[r] = asked[q] /\ (asked[q] = 0 => r = q)}

(* However questions, answers and the popup's life interleave, a question is   *)
(* answered yes only if the user said so to a question of its promiseId while  *)
(* that one was shown, and as long as the panel it came to is there, not all   *)
(* the questions of its promiseId are forgotten: one is settled, its answer is *)
(* under way, or it is what the dialog shows and a click answers.  That is the *)
(* question itself, unless two were asked in one millisecond (state.ts:36-59,  *)
(* root.ts:75-139, background_ui.ts:111-143).                                  *)
DialogsAnswered ==
  /\ \A q \in Question : result[q] = "fulfilled" => Numbered(q) \cap clicked # {}
  /\ \A q \in held : \E r \in Numbered(q) :
       \/ result[r] # None \/ UnderWay(r)
       \/ dialogClickFn # None /\ dialogClickFn[1] = r /\ dialog = r

(* "var promiseId = new Date().valueOf(); // approximately unique"             *)
(* (background_ui.ts:135): the promise of a question is settled with the       *)
(* answer to that question.  With two questions in one millisecond it is not:  *)
(* what the user says to the first settles the second.                         *)
AnsweredAsAsked == \A q \in Question : result[q] = "fulfilled" => q \in clicked

(* "Do not open the dialog until we are sure it is closed." (root.ts:109): a   *)
(* question that replaces an open one is shown and answered in the dialog that *)
(* is there, which then opens once more, with nothing to answer; its buttons   *)
(* throw, and do not close it.                                                 *)
OpenIsAsked == overlay = "open" => dialogClickFn # None
===============================================================================
