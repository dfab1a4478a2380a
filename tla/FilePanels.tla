---------------------------- MODULE FilePanels ----------------------------
(***************************************************************************)
(* The three file panels of the web interface: the files of a storage      *)
(* (StorageFilesDialog), the SFTP files of a terminal session              *)
(* (SSHWorkspace) and the drive of a desktop session (the drive dialog of  *)
(* RDPWorkspace).                                                          *)
(*                                                                         *)
(* Every operation is a request whose continuation changes the panel when  *)
(* it is answered: the folder on display, the text editor, the copy and    *)
(* rename forms.  Requests overlap, and nothing orders their answers.      *)
(*                                                                         *)
(* Of a copy or rename the source and the overwrite box are modelled.  The *)
(* destination is a field the form proposes from the source.               *)
(***************************************************************************)
EXTENDS Naturals, FiniteSets

CONSTANTS Panel,         \* "storage", "ssh" or "drive"
          Files, Folders,
          Home,          \* the folder a panel opens with
          MaxRequests    \* bound on the requests of one behaviour

(* What the values of the constants satisfy. *)
ConstantsOK ==
  /\ Panel \in {"storage", "ssh", "drive"}
  /\ Home \in Folders /\ MaxRequests \in Nat \ {0}
  /\ {"none", "typed"} \cap (Files \cup Folders) = {}

VARIABLES
  path,        \* path, filePath or drivePath: the folder operations apply to
  shown,       \* the folder whose entries are listed, "none" while there are none
  byHand,      \* the storage dialog's path field was edited since it was set
  editor,      \* the text editor: the file it will write, where its text came from
  fetching,    \* textLoadingPath of the storage dialog
  saving,      \* savingFile of the SFTP panel
  action,      \* the copy and rename forms
  running,     \* fileActionRunning of the SFTP panel
  uploading,
  asking,      \* the file whose deletion the confirm dialog asks about
  reqs, issued,
  accepted, deleted    \* history: deletions confirmed, and deletions requested

place == <<path, shown, byHand>>
text == <<editor, fetching, saving>>
forms == <<action, running>>
counters == <<reqs, issued>>
history == <<accepted, deleted>>
vars == <<place, text, forms, uploading, asking, counters, history>>

Closed == [file |-> "none", from |-> "none", retyped |-> FALSE]
Modes == {"copy", "rename"}
Ops == {"list", "edit", "write", "mkdir", "upload", "delete"} \cup Modes

(* The storage dialog always shows a form to copy and one to rename; the   *)
(* SFTP panel has one form, shown while it has a mode; the drive has none. *)
Forms ==
  CASE Panel = "storage" -> Modes
    [] Panel = "ssh" -> {"sftp"}
    [] Panel = "drive" -> {}
FormOf(mode) == IF Panel = "storage" THEN mode ELSE "sftp"
NoAction(form) ==
  [mode |-> IF Panel = "storage" THEN form ELSE "none", src |-> "none",
   overwrite |-> FALSE, ticked |-> "none"]

TypeOK ==
  /\ path \in Folders /\ shown \in Folders \cup {"none"} /\ byHand \in BOOLEAN
  /\ editor \in [file : Files \cup {"none"}, from : Files \cup {"none", "typed"}, retyped : BOOLEAN]
  /\ fetching \in Files \cup {"none"} /\ saving \in BOOLEAN
  /\ action \in [Forms -> [mode : Modes \cup {"none"}, src : Files \cup {"none"},
                           overwrite : BOOLEAN, ticked : Files \cup {"none"}]]
  /\ running \in BOOLEAN /\ uploading \in BOOLEAN /\ asking \in Files \cup {"none"}
  /\ issued \in 0 .. MaxRequests
  /\ reqs \subseteq [n : 1 .. issued, op : Ops, file : Files \cup {"none"}, folder : Folders,
                     phase : {"sent", "reload"}]
  /\ accepted \subseteq Files /\ deleted \subseteq Files

(* The storage dialog loads its root when it mounts; the other panels      *)
(* query the folder when they are opened.                                  *)
Init ==
  /\ path = Home /\ shown = "none" /\ byHand = FALSE
  /\ editor = Closed /\ fetching = "none" /\ saving = FALSE
  /\ action = [form \in Forms |-> NoAction(form)] /\ running = FALSE /\ uploading = FALSE /\ asking = "none"
  /\ reqs = {[n |-> 1, op |-> "list", file |-> "none", folder |-> Home, phase |-> "sent"]}
  /\ issued = 1
  /\ accepted = {} /\ deleted = {}

Send(op, file, folder) ==
  /\ issued < MaxRequests /\ issued' = issued + 1
  /\ reqs' = reqs \cup {[n |-> issued + 1, op |-> op, file |-> file, folder |-> folder, phase |-> "sent"]}

To(r, phase) == (reqs \ {r}) \cup {[r EXCEPT !.phase = phase]}

(***************************************************************************)
(* Folders                                                                 *)
(***************************************************************************)

(* Mutant: the path is that of the folder asked for before it is listed. *)
OpenFolderAtOnce(folder) ==
  /\ Send("list", "none", folder) /\ path' = folder /\ byHand' = FALSE
  /\ UNCHANGED <<shown, text, forms, uploading, asking, history>>

(* A folder, its parent or a refresh is chosen.  load() leaves the storage *)
(* dialog as it is until the answer; the other panels change the key of    *)
(* their query, whose data is not there until it is fetched or cached.     *)
OpenFolder(folder) ==
  /\ Send("list", "none", folder)
  /\ IF Panel = "storage" THEN UNCHANGED place
     ELSE /\ path' = folder /\ byHand' = FALSE
          /\ shown' \in {folder, IF folder = path THEN shown ELSE "none"}
  /\ UNCHANGED <<text, forms, uploading, asking, history>>

(* The path field of the storage dialog. *)
TypePath(folder) ==
  /\ Panel = "storage" /\ folder # path
  /\ path' = folder /\ byHand' = TRUE
  /\ UNCHANGED <<shown, text, forms, uploading, asking, counters, history>>

(* A list arrives; answers come in any order.  The storage dialog takes the folder from the answer;   *)
(* a query's answer is only shown under its own key.                       *)
Listed(r) ==
  /\ r.op = "list" /\ r.phase = "sent"
  /\ reqs' = reqs \ {r}
  /\ IF Panel = "storage" THEN path' = r.folder /\ shown' = r.folder /\ byHand' = FALSE
     ELSE shown' = (IF path = r.folder THEN r.folder ELSE shown) /\ UNCHANGED <<path, byHand>>
  /\ UNCHANGED <<text, forms, uploading, asking, issued, history>>

(***************************************************************************)
(* The text editor                                                         *)
(***************************************************************************)

HasEditor == Panel # "drive"

(* editTextEntry and editEntry ask for the file's text. *)
EditEntry(f) ==
  /\ HasEditor /\ fetching # f
  /\ Send("edit", f, path)
  /\ fetching' = (IF Panel = "storage" THEN f ELSE "none")
  /\ UNCHANGED <<place, editor, saving, forms, uploading, asking, history>>

(* Mutant: only the text is taken from the answer; the file is the one     *)
(* that was asked for last.                                                *)
OpenedInPlace(r) ==
  [file |-> IF fetching = "none" THEN r.file ELSE fetching, from |-> r.file, retyped |-> FALSE]

(* Path and text are set together, from the entry that was asked for. *)
Opened(r) == [file |-> r.file, from |-> r.file, retyped |-> FALSE]

(* Mutant: the copy and rename form stays open. *)
OtherFormKept == action

(* The SFTP panel shows the editor or the copy and rename form. *)
OtherForm == IF Panel = "ssh" THEN [action EXCEPT !["sftp"].mode = "none"] ELSE action

TextArrives(r) ==
  /\ r.op = "edit" /\ r.phase = "sent"
  /\ editor' = Opened(r) /\ fetching' = "none" /\ action' = OtherForm
  /\ reqs' = reqs \ {r}
  /\ UNCHANGED <<place, saving, running, uploading, asking, issued, history>>

(* beginNewTextFile, or a path typed into the storage dialog. *)
NameFile(f) ==
  /\ HasEditor
  /\ IF Panel = "ssh" THEN editor' = [file |-> f, from |-> "typed", retyped |-> FALSE]
     ELSE editor' = [editor EXCEPT !.file = f, !.retyped = TRUE]
  /\ action' = OtherForm
  /\ UNCHANGED <<place, fetching, saving, running, uploading, asking, counters, history>>

ClearEditor ==
  /\ editor # Closed /\ editor' = Closed
  /\ UNCHANGED <<place, fetching, saving, forms, uploading, asking, counters, history>>

(* writeFile and saveEditedFile: the storage dialog has no busy flag. *)
WriteFile ==
  /\ editor.file # "none" /\ ~saving
  /\ Send("write", editor.file, path)
  /\ saving' = (Panel = "ssh")
  /\ UNCHANGED <<place, editor, fetching, forms, uploading, asking, history>>

(***************************************************************************)
(* Copy, rename, upload, new folder, delete                                *)
(***************************************************************************)

(* Mutant: the overwrite box stays as it was. *)
BegunKeepingBox(mode, f) ==
  [action EXCEPT ![FormOf(mode)] = [@ EXCEPT !.mode = mode, !.src = f]]

(* prefillCopyEntry, prefillRenameEntry and beginFileAction fill the form  *)
(* from an entry and clear the box.                                        *)
Begun(mode, f) ==
  [action EXCEPT ![FormOf(mode)] = [mode |-> mode, src |-> f, overwrite |-> FALSE, ticked |-> "none"]]

BeginAction(mode, f) ==
  /\ HasEditor
  /\ action' = Begun(mode, f)
  /\ editor' = (IF Panel = "ssh" THEN Closed ELSE editor)
  /\ UNCHANGED <<place, fetching, saving, running, uploading, asking, counters, history>>

(* The box can be ticked and cleared while the source is empty, too.       *)
TickOverwrite(form) ==
  /\ action[form].mode # "none"
  /\ action' = [action EXCEPT ![form].overwrite = ~@,
                              ![form].ticked = IF action[form].overwrite THEN "none" ELSE action[form].src]
  /\ UNCHANGED <<place, text, running, uploading, asking, counters, history>>

(* The source is a field the user can edit or empty.  The box stays as it  *)
(* is: what was ticked for one file is now on display for another.         *)
TypeSource(form, f) ==
  /\ action[form].mode # "none" /\ f # action[form].src
  /\ action' = [action EXCEPT ![form].src = f,
                              ![form].ticked = IF action[form].overwrite THEN f ELSE "none"]
  /\ UNCHANGED <<place, text, running, uploading, asking, counters, history>>

(* Cancel hides the SFTP panel's form and keeps its fields. *)
CancelAction(form) ==
  /\ Panel = "ssh" /\ action[form].mode # "none"
  /\ action' = [action EXCEPT ![form].mode = "none"]
  /\ UNCHANGED <<place, text, running, uploading, asking, counters, history>>

(* copyEntry, renameEntry, runFileAction: without a source the button is   *)
(* disabled; the storage dialog has no busy flag.                          *)
RunAction(form) ==
  /\ action[form].mode # "none" /\ action[form].src # "none" /\ ~running
  /\ Send(action[form].mode, action[form].src, path)
  /\ running' = (Panel = "ssh")
  /\ UNCHANGED <<place, text, action, uploading, asking, history>>

(* The session panels disable the upload button while one runs; the        *)
(* toolbar's upload event does not look at the flag.                       *)
UploadFile ==
  /\ Panel # "drive" \/ ~uploading
  /\ Send("upload", "none", path)
  /\ uploading' = (Panel # "storage")
  /\ UNCHANGED <<place, text, forms, asking, history>>

CreateFolder ==
  /\ HasEditor
  /\ Send("mkdir", "none", path)
  /\ UNCHANGED <<place, text, forms, uploading, asking, history>>

(* deleteEntry asks first; an open question is answered with false. *)
AskDelete(f) ==
  /\ HasEditor
  /\ asking' = f
  /\ UNCHANGED <<place, text, forms, uploading, counters, history>>

Decline ==
  /\ asking # "none" /\ asking' = "none"
  /\ UNCHANGED <<place, text, forms, uploading, counters, history>>

(* Mutant: the file in the editor is deleted. *)
ConfirmedFileOfEditor == IF editor.file = "none" THEN asking ELSE editor.file

ConfirmedFile == asking

Accept ==
  /\ asking # "none" /\ asking' = "none"
  /\ Send("delete", ConfirmedFile, path)
  /\ accepted' = accepted \cup {asking} /\ deleted' = deleted \cup {ConfirmedFile}
  /\ UNCHANGED <<place, text, forms, uploading>>

(* deleteDriveEntry does not ask. *)
DeleteDriveEntry(f) ==
  /\ Panel = "drive"
  /\ Send("delete", f, path)
  /\ deleted' = deleted \cup {f}
  /\ UNCHANGED <<place, text, forms, uploading, asking, accepted>>

(***************************************************************************)
(* Answers                                                                 *)
(***************************************************************************)

(* An operation succeeded: its form is cleared and closed, whatever it     *)
(* holds by now, and the list is loaded again.  The storage dialog loads   *)
(* the folder its closure held; a query loads the one on display.          *)
Succeeded(r) ==
  /\ r.op \notin {"list", "edit"} /\ r.phase = "sent"
  /\ editor' = (IF r.op = "write" THEN Closed ELSE editor)
  /\ action' = [form \in Forms |-> IF r.op \in Modes /\ form = FormOf(r.op) THEN NoAction(form) ELSE action[form]]
  /\ reqs' = To(r, "reload")
  /\ UNCHANGED <<place, fetching, saving, running, uploading, asking, issued, history>>

(* The list is answered, or fails: the handler ends. *)
Reloaded(r) ==
  /\ r.phase = "reload"
  /\ reqs' = reqs \ {r}
  /\ saving' = (saving /\ r.op # "write") /\ running' = (running /\ r.op \notin Modes)
  /\ uploading' = (uploading /\ r.op # "upload")
  /\ \/ UNCHANGED place
     \/ /\ Panel = "storage" /\ path' = r.folder /\ shown' = r.folder /\ byHand' = FALSE
     \/ /\ Panel # "storage" /\ shown' = path /\ UNCHANGED <<path, byHand>>
  /\ UNCHANGED <<editor, fetching, action, asking, issued, history>>

Failed(r) ==
  /\ r.phase = "sent"
  /\ reqs' = reqs \ {r}
  /\ fetching' = (IF r.op = "edit" THEN "none" ELSE fetching)
  /\ saving' = (saving /\ r.op # "write") /\ running' = (running /\ r.op \notin Modes)
  /\ uploading' = (uploading /\ r.op # "upload")
  /\ UNCHANGED <<place, editor, action, asking, issued, history>>

Next ==
  \/ ClearEditor \/ WriteFile \/ UploadFile \/ CreateFolder \/ Decline \/ Accept
  \/ \E folder \in Folders : OpenFolder(folder) \/ TypePath(folder)
  \/ \E f \in Files : \/ EditEntry(f) \/ NameFile(f) \/ AskDelete(f) \/ DeleteDriveEntry(f)
                      \/ \E mode \in Modes : BeginAction(mode, f)
  \/ \E form \in Forms : \/ TickOverwrite(form) \/ CancelAction(form) \/ RunAction(form)
                        \/ \E f \in Files \cup {"none"} : TypeSource(form, f)
  \/ \E r \in reqs : Listed(r) \/ TextArrives(r) \/ Succeeded(r) \/ Reloaded(r) \/ Failed(r)

Spec == Init /\ [][Next]_vars

(***************************************************************************)
(* Properties                                                              *)
(***************************************************************************)

(* What the editor would write over a file is text that was loaded from    *)
(* that file, or that the user typed or named a file for: answers that     *)
(* overtake each other never put one file's text under another's name.     *)
TextOfItsFile == editor.from \in Files /\ ~editor.retyped => editor.from = editor.file

(* A folder's entries are listed only while operations apply to that       *)
(* folder, unless the user typed another path: an upload or a new folder   *)
(* goes where the user looks, also after a load that failed.               *)
OperatesWhereShown == shown # "none" /\ ~byHand => shown = path

(* The program never carries a tick to overwrite over to another file: the *)
(* user made it for the source in the form, or typed that source under it. *)
(* A form filled from an entry, or cleared by a late answer, has no tick   *)
(* left in it (prefillCopyEntry, prefillRenameEntry, beginFileAction).     *)
(* Editing the source does keep the tick, which the form shows.            *)
OverwriteWasTicked ==
  \A form \in Forms : action[form].overwrite => action[form].ticked = action[form].src

(* The SFTP panel's editor and its copy and rename form are never open     *)
(* together, so a save cannot be taken for a copy.                         *)
OneFormAtATime == Panel = "ssh" /\ editor # Closed => action["sftp"].mode = "none"

(* The storage dialog and the SFTP panel delete only files whose deletion  *)
(* the user confirmed (deleteEntry).  The drive panel asks nothing.        *)
DeletedWereConfirmed == Panel # "drive" => deleted \subseteq accepted
=============================================================================
