---------------------------- MODULE DriveControl ----------------------------
(***************************************************************************)
(* driveControl, cmd/ciborium-ui/main.go, and the QML that is bound to it: *)
(* the cached list of drives, refreshed by a goroutine per refresh, the    *)
(* four flags, the list on the screen and the one dialog that may be open. *)
(* QML runs on the GUI thread, and so do the methods it calls;             *)
(* qml.Changed makes any other goroutine wait for that thread.             *)
(***************************************************************************)
EXTENDS DriveRequests

VARIABLES ExternalDrives,   \* the list, a sequence of copies of drives
          listLen,          \* Len
          Formatting, FormatError, Unmounting, UnmountError,
          refreshes,        \* what the goroutines of Drives do next, a bag
          answers,          \* the lists they have yet to assign, a bag
          gui,              \* what the GUI thread is doing
          shown,            \* how many rows the list on the screen has
          dialog,           \* the open dialog, or None
          stale             \* history: was a newer list overwritten?

flags == <<Formatting, FormatError, Unmounting, UnmountError>>
listVars == <<ExternalDrives, listLen, refreshes, answers, shown, stale>>
dialogVars == <<flags, gui, dialog>>
controlVars == <<listVars, dialogVars>>

(* Component.onCompleted has called Watch, which is in Init. *)
ControlInit ==
  /\ ExternalDrives = <<>> /\ listLen = 0 /\ shown = 0
  /\ Formatting = FALSE /\ FormatError = FALSE
  /\ Unmounting = FALSE /\ UnmountError = FALSE
  /\ refreshes = EmptyBag /\ answers = EmptyBag
  /\ gui = "watching"
  /\ dialog = None
  /\ stale = FALSE

WatchReturns ==
  /\ gui = "watching"
  /\ at["init"] = Rest("init") /\ existing = <<>>
  /\ gui' = "idle"
  /\ UNCHANGED <<listVars, flags, dialog>>

-----------------------------------------------------------------------------
(* Drives and ExternalDrives *)

(* emitExistingDevices holds startLock from before its question to its end. *)
StartLockFree == gui # "watching" \/ at["init"].point = "getManagedObjects"

Listed(d) == drives[d].blockDevices # EmptyMap /\ FALSE \in SystemHints(drives[d])
Unlisted(d) == drives[d].blockDevices = EmptyMap \/ TRUE \in SystemHints(drives[d])

(* The lists ExternalDrives may return: the order is that of a map. *)
Listings ==
  UNION {SetToSeqs({CopyOf(d) : d \in ds}) :
           ds \in {s \in SUBSET DOMAIN drives : /\ \A d \in s : Listed(d)
                                                /\ \A d \in DOMAIN drives \ s : Unlisted(d)}}

StartRefresh == refreshes' = refreshes (+) One("query")

(* ExternalDrives has returned; a list that waits to be assigned is old now. *)
QueryDrives ==
  /\ BagIn("query", refreshes) /\ StartLockFree
  /\ \E list \in Listings :
       answers' = BagOfAll(LAMBDA a : [a EXCEPT !.old = TRUE], answers)
                  (+) One([list |-> list, old |-> FALSE])
  /\ refreshes' = refreshes (-) One("query")
  /\ UNCHANGED <<ExternalDrives, listLen, shown, stale>>

AssignDrives(a) ==
  /\ ExternalDrives' = a.list
  /\ stale' = a.old
  /\ answers' = answers (-) One(a)
  /\ refreshes' = refreshes (+) One("len")
  /\ UNCHANGED <<listLen, shown>>

(* Mutant of AssignLen: the length is not written. *)
AssignNoLen ==
  /\ BagIn("len", refreshes)
  /\ refreshes' = Move(refreshes, "len", "changed")
  /\ UNCHANGED <<ExternalDrives, listLen, answers, shown, stale>>

AssignLen ==
  /\ BagIn("len", refreshes)
  /\ listLen' = Len(ExternalDrives)
  /\ refreshes' = Move(refreshes, "len", "changed")
  /\ UNCHANGED <<ExternalDrives, answers, shown, stale>>

(* Changed(ExternalDrives) has nothing bound to it, and then Changed(Len)
   makes the view add or drop rows, and ask each new row for its model. *)
MissingRow == listLen > shown /\ listLen > Len(ExternalDrives)

LenChanged ==
  /\ BagIn("changed", refreshes) /\ gui = "idle" /\ ~ MissingRow
  /\ shown' = listLen
  /\ refreshes' = refreshes (-) One("changed")
  /\ UNCHANGED <<ExternalDrives, listLen, answers, stale>>

RefreshStep ==
  \/ QueryDrives \/ AssignLen \/ LenChanged
  \/ \E a \in BagToSet(answers) : AssignDrives(a)

DetachList(list, dropped) == [i \in DOMAIN list |-> Detach(list[i], dropped)]

DetachControl(dropped) ==
  /\ ExternalDrives' = DetachList(ExternalDrives, dropped)
  /\ answers' = BagOfAll(LAMBDA a : [a EXCEPT !.list = DetachList(@, dropped)], answers)
  /\ UNCHANGED <<listLen, refreshes, shown, stale>>

-----------------------------------------------------------------------------
(* The dialogs, FormatDialog.qml and SafeRemoval.qml *)

Dialogs == {"format", "removal"}

(* Mutant of Shows: the last state by the name the button knows it. *)
ShowsFinished(busy, error) ==
  IF error THEN "error" ELSE IF busy THEN "busy" ELSE "finished"

(* The state whose condition holds once the dialog is confirmed. *)
Shows(busy, error) == IF error THEN "error" ELSE IF busy THEN "busy" ELSE "finish"

(* The bindings of an open and confirmed dialog of this kind see the flags. *)
Rebound(kind, busy, error) ==
  IF dialog # None /\ dialog.kind = kind /\ dialog.state # "confirm"
  THEN [dialog EXCEPT !.state = Shows(busy, error)] ELSE dialog

(* The button of a row opens a dialog with its index left at 0: the
   properties go to Qt.resolvedUrl (main.qml:37, 41). *)
OpenDialog(kind) ==
  /\ gui = "idle" /\ dialog = None /\ shown > 0
  /\ dialog' = [kind |-> kind, state |-> "confirm"]
  /\ UNCHANGED <<flags, gui>>

CloseDialog ==
  /\ gui = "idle" /\ dialog # None /\ dialog.state # "busy"
  /\ dialog' = None
  /\ UNCHANGED <<flags, gui>>

Confirming(kind) == gui = "idle" /\ dialog = [kind |-> kind, state |-> "confirm"]

DriveFormat ==
  /\ Confirming("format")
  /\ ExternalDrives # <<>>
  /\ Formatting' = TRUE /\ FormatError' = FALSE /\ UnmountError' = FALSE
  /\ Format(ExternalDrives[1])
  /\ dialog' = [dialog EXCEPT !.state = Shows(TRUE, FALSE)]
  /\ UNCHANGED <<Unmounting, gui, umounts>>

(* UnmountError stays as it is.  A drive that is not known to be mounted
   makes the GUI thread itself send the error. *)
DriveUnmount ==
  /\ Confirming("removal")
  /\ ExternalDrives # <<>>
  /\ Unmounting' = TRUE
  /\ IF ExternalDrives[1].mounted
     THEN /\ Unmount(ExternalDrives[1])
          /\ dialog' = [dialog EXCEPT !.state = Shows(TRUE, UnmountError)]
          /\ UNCHANGED gui
     ELSE /\ gui' = "unmountErrors"
          /\ UNCHANGED <<umounts, dialog>>
  /\ UNCHANGED <<Formatting, FormatError, UnmountError, formatters>>

(* The error of a drive that is not mounted has been read: DriveUnmount
   returns while the reader is about to raise the flag. *)
SendNotMounted ==
  /\ gui = "unmountErrors"
  /\ gui' = "idle"
  /\ \E error \in {UnmountError, TRUE} :
       dialog' = [dialog EXCEPT !.state = Shows(Unmounting, error)]

(* The methods take the first of the drives, whether there is one or not. *)
NoDrive == \E kind \in Dialogs : Confirming(kind) /\ ExternalDrives = <<>>
=============================================================================
