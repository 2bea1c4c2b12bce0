---------------------------- MODULE InstanceFiles ----------------------------
(***************************************************************************)
(* The page of the files of the instance: a searched list, the preview of  *)
(* what is selected, an editor, and the commands that write, create and    *)
(* delete files (frontend/src/components/InstanceFilesPage.tsx and         *)
(* instance-files-page/, api/instanceClient.ts, app/api/instances.py).     *)
(*                                                                         *)
(* What a text says is left out: a text is named after the file or         *)
(* document it was read from or typed for, so that a preview is the        *)
(* resource whose content it holds.  The effects of the page have run      *)
(* before anything else happens.  A list and a preview are read when they  *)
(* are answered.  A folder is one level deep.  Messages are left out.      *)
(***************************************************************************)
EXTENDS FiniteSets, Integers

CONSTANTS
  File,        \* paths of the shared directory
  Doc,         \* documents of the agents
  Binary,      \* files that are no text
  Registered,  \* files that are the output of a task, and listed though
               \* missing
  Group, Root, \* folders and agents, and the shared directory itself
  Place,       \* where a file or document stands
  Keyword,     \* what can be searched for
  Matches,     \* what a keyword finds
  None, Empty, \* nothing, and the text that is empty
  MaxStep      \* bound: searches, selections, edits, commands, folds,
               \* writes by agents and faults

Resource == File \cup Doc

ASSUME FilesAssumption ==
  /\ File \cap Doc = {} /\ Binary \subseteq File /\ Registered \subseteq File
  /\ {None, Empty} \cap (Resource \cup Group \cup {Root}) = {} /\ None # Empty
  /\ Root \notin Group /\ Place \in [Resource -> Group \cup {Root}]
  /\ Matches \in [Keyword -> SUBSET Resource] /\ MaxStep \in Nat

Command == [kind : {"save", "delete", "create"}, file : File, text : Resource \cup {Empty},
            key : Keyword, stage : {"sent", "served", "failed", "load", "preview"}]

VARIABLES
  disk,      \* the files there are
  ready,     \* currentInstance
  keyword,
  due,       \* the timer of the search is armed
  loads,     \* the keywords of the lists on their way
  listing,   \* taskItems, with what exists, and agentDocs
  selected,  \* selectedResource
  preview,
  asked,     \* the preview that is waited for
  editing,   \* isEditingTaskFile
  text,      \* editorContent
  fresh,     \* ghost: no other file was shown when editing began
  form,      \* the create dialog and its createTargetKey
  created,   \* pendingSelectTaskFile
  command,   \* isSavingTaskFile, isDeletingTaskFile or isCreatingTaskFile
  folded,    \* collapsedTreeFolderIds, collapsedAgentGroupIds
  left       \* what is left of the bound

lists == <<ready, keyword, due, loads>>
page == <<listing, selected, preview, asked, editing, text, form, created, folded>>
vars == <<disk, lists, page, fresh, command, left>>

Spend == left > 0 /\ left' = left - 1

-----------------------------------------------------------------------------
(* What the server answers: files that exist or are registered.            *)
FilesFound(k) ==
  [f \in {g \in Matches[k] \cap File : g \in disk \cup Registered} |-> f \in disk]
DocsFound(k) == Matches[k] \cap Doc
List(k) == [files |-> FilesFound(k), docs |-> DocsFound(k)]
Readable(r) == r \in disk \cup Doc
Written(f) == disk \cup {f}
Erased(f) == disk \ {f}

(* Where the tree shows a file or document, and where a file is created.   *)
ShownIn(r) == Place[r]
DirectoryOf(f) == Place[f]

Listed(l) == DOMAIN l.files \cup l.docs
Folders(l) == {ShownIn(f) : f \in DOMAIN l.files} \ {Root}
AgentGroups(l) == {ShownIn(d) : d \in l.docs} \ {Root}
Groups(l) == Folders(l) \cup AgentGroups(l)
Options(l) == {Root} \cup {DirectoryOf(f) : f \in DOMAIN l.files}

Missing(l, r) == r \in DOMAIN l.files /\ ~l.files[r]
Textual(r) == r # None /\ r \notin Binary
CanEdit ==
  /\ selected \in DOMAIN listing.files
  /\ Missing(listing, selected) \/ Textual(preview)

-----------------------------------------------------------------------------
(* The effects of one rendering, in their order.  p is the page before,    *)
(* q the page as a handler left it, and again holds when the list or the   *)
(* selection is a new object, equal to the old one or not.                 *)

Page == [listing |-> listing, selected |-> selected, preview |-> preview, asked |-> asked,
         editing |-> editing, text |-> text, form |-> form, created |-> created, folded |-> folded]

AskPreview(q, again) ==
  IF ~again THEN q
  ELSE IF q.selected \in Listed(q.listing) THEN [q EXCEPT !.asked = q.selected]
  ELSE [q EXCEPT !.asked = None, !.preview = None]

ResetEdit(p, q) ==
  IF p.selected = q.selected THEN q
  ELSE [q EXCEPT !.editing = FALSE, !.text = Empty, !.form = None]

(* The effect sees the page as it was drawn, q, and changes r.             *)
FillEditor(p, q, r, again) ==
  IF /\ again \/ p.editing # q.editing \/ p.preview # q.preview
     /\ q.editing /\ q.selected \in DOMAIN q.listing.files
     /\ ~Missing(q.listing, q.selected) /\ Textual(q.preview)
  THEN [r EXCEPT !.text = q.preview] ELSE r

Fallbacks(l) ==
  IF DOMAIN l.files # {} THEN DOMAIN l.files ELSE IF l.docs # {} THEN l.docs ELSE {None}

(* The selection stays where it is: a mutant.                              *)
KeepSelection(q, first) == q
FallBack(q, first) ==
  IF q.selected \in Listed(q.listing) THEN q ELSE [q EXCEPT !.selected = first]
Reselect(q, first) == FallBack(q, first)

SelectCreated(q) ==
  IF q.created \in DOMAIN q.listing.files THEN [q EXCEPT !.selected = q.created, !.created = None] ELSE q

Unfold(q) == [q EXCEPT !.folded = @ \cap Groups(q.listing)]

Pass(p, q, again, first) ==
  LET r == FillEditor(p, q, ResetEdit(p, AskPreview(q, again)), again)
  IN SelectCreated(Reselect(Unfold(r), first))

(* A selection that the effects have changed is drawn once more.           *)
Rendered(p, q, again, first) ==
  LET r == Pass(p, q, again, first)
  IN IF r.selected = q.selected THEN r ELSE Pass(q, r, TRUE, first)

Draw(q, again) ==
  \E first \in Fallbacks(q.listing) :
    LET r == Rendered(Page, q, again, first)
    IN /\ listing' = r.listing /\ selected' = r.selected /\ preview' = r.preview /\ asked' = r.asked
       /\ editing' = r.editing /\ text' = r.text /\ form' = r.form /\ created' = r.created
       /\ folded' = r.folded

-----------------------------------------------------------------------------
Init ==
  /\ disk \in SUBSET File /\ ready = FALSE /\ keyword \in Keyword
  /\ due = FALSE /\ loads = {} /\ listing = [files |-> <<>>, docs |-> {}]
  /\ selected = None /\ preview = None /\ asked = None
  /\ editing = FALSE /\ text = Empty /\ fresh = FALSE
  /\ form = None /\ created = None /\ command = None /\ folded = {} /\ left = MaxStep

(* With no instance or several the page stays as it is.                    *)
Resolve ==
  /\ ~ready /\ ready' = TRUE /\ due' = TRUE
  /\ UNCHANGED <<disk, keyword, loads, page, fresh, command, left>>

Search ==
  /\ form = None /\ Spend /\ keyword' \in Keyword \ {keyword} /\ due' = ready
  /\ UNCHANGED <<disk, ready, loads, page, fresh, command>>

SearchTimer ==
  /\ due /\ due' = FALSE /\ loads' = loads \cup {keyword}
  /\ UNCHANGED <<disk, ready, keyword, page, fresh, command, left>>

(* In whatever order the lists are answered.                               *)
LoadAnswered(k) ==
  /\ k \in loads /\ loads' = loads \ {k}
  /\ Draw([Page EXCEPT !.listing = List(k)], TRUE)
  /\ UNCHANGED <<disk, ready, keyword, due, fresh, command, left>>

LoadFails(k) ==
  /\ k \in loads /\ Spend /\ loads' = loads \ {k}
  /\ UNCHANGED <<disk, ready, keyword, due, page, fresh, command>>

(* A preview that was asked for before is no longer waited for.            *)
PreviewAnswered ==
  /\ asked # None
  /\ \/ Readable(asked) /\ Draw([Page EXCEPT !.preview = asked, !.asked = None], FALSE) /\ UNCHANGED left
     \/ ~Readable(asked) /\ Draw([Page EXCEPT !.preview = None, !.asked = None], FALSE) /\ UNCHANGED left
     \/ Spend /\ Draw([Page EXCEPT !.preview = None, !.asked = None], FALSE)
  /\ UNCHANGED <<disk, lists, fresh, command>>

(* Nothing keeps the user from it while the editor is open or a command    *)
(* runs.                                                                   *)
Select(r) ==
  /\ form = None /\ r \in Listed(listing) /\ Spend
  /\ Draw([Page EXCEPT !.selected = r], TRUE)
  /\ UNCHANGED <<disk, lists, fresh, command>>

Fold(g) ==
  /\ form = None /\ g \in Groups(listing) /\ Spend
  /\ folded' = IF g \in folded THEN folded \ {g} ELSE folded \cup {g}
  /\ UNCHANGED <<disk, lists, listing, selected, preview, asked, editing, text, form, created, fresh, command>>

-----------------------------------------------------------------------------
(* The editor.                                                             *)

(* While a command runs, too: a mutant.                                    *)
StartsAnyTime == form = None /\ CanEdit /\ ~editing
StartsWhenIdle == StartsAnyTime /\ command = None
CanStartEdit == StartsWhenIdle

StartEdit ==
  /\ CanStartEdit /\ Spend
  /\ Draw([Page EXCEPT !.editing = TRUE,
                       !.text = IF Missing(listing, selected) THEN Empty ELSE preview], FALSE)
  /\ fresh' = (preview \in {selected, None})
  /\ UNCHANGED <<disk, lists, command>>

Type ==
  /\ editing /\ text' = selected
  /\ UNCHANGED <<disk, lists, listing, selected, preview, asked, editing, form, created, folded, fresh, command, left>>

Saving == command # None /\ command.kind = "save"

Cancel ==
  /\ editing /\ ~Saving /\ Draw([Page EXCEPT !.editing = FALSE], FALSE)
  /\ UNCHANGED <<disk, lists, fresh, command, left>>

-----------------------------------------------------------------------------
(* The commands.  A click holds the file, the text and the keyword of its  *)
(* moment.                                                                 *)

Send(kind, f, t) ==
  /\ Spend
  /\ command' = [kind |-> kind, file |-> f, text |-> t, key |-> keyword, stage |-> "sent"]

Save ==
  /\ editing /\ ~Saving /\ CanEdit /\ Send("save", selected, text)
  /\ UNCHANGED <<disk, lists, page, fresh>>

(* Documents, too: a mutant.                                               *)
DeletableIfListed(r) == r \in Listed(listing) /\ ~Missing(listing, r)
Deletable(r) == r \in DOMAIN listing.files /\ ~Missing(listing, r)

Delete ==
  /\ form = None /\ command = None /\ ~editing /\ Deletable(selected)
  /\ Send("delete", selected, Empty)
  /\ UNCHANGED <<disk, lists, page, fresh>>

OpenCreate ==
  /\ form = None /\ command = None /\ ~editing /\ Spend
  /\ form' = IF selected \in DOMAIN listing.files THEN DirectoryOf(selected) ELSE Root
  /\ UNCHANGED <<disk, lists, listing, selected, preview, asked, editing, text, created, folded, fresh, command>>

ChooseTarget ==
  /\ form # None /\ command = None /\ form' \in Options(listing) \ {form}
  /\ UNCHANGED <<disk, lists, listing, selected, preview, asked, editing, text, created, folded, fresh, command, left>>

CloseCreate ==
  /\ form # None /\ command = None /\ form' = None
  /\ UNCHANGED <<disk, lists, listing, selected, preview, asked, editing, text, created, folded, fresh, command, left>>

(* A name is refused when it is listed; it may be taken all the same.      *)
Create ==
  /\ form \in Options(listing) /\ ready /\ command = None
  /\ \E f \in File \ DOMAIN listing.files : DirectoryOf(f) = form /\ Send("create", f, Empty)
  /\ UNCHANGED <<disk, lists, page, fresh>>

At(stage) == command # None /\ command.stage = stage
Moves(stage) == command' = [command EXCEPT !.stage = stage]

Serve ==
  /\ At("sent")
  /\ \/ /\ Moves("served") /\ UNCHANGED left
        /\ disk' = IF command.kind = "delete" THEN Erased(command.file) ELSE Written(command.file)
     \/ Moves("failed") /\ Spend /\ UNCHANGED disk
  /\ UNCHANGED <<lists, page, fresh>>

Answered ==
  /\ At("served") /\ Moves("load")
  /\ Draw(CASE command.kind = "save" -> [Page EXCEPT !.editing = FALSE]
            [] command.kind = "delete" -> [Page EXCEPT !.editing = FALSE, !.text = Empty]
            [] command.kind = "create" -> [Page EXCEPT !.form = None, !.created = command.file], FALSE)
  /\ UNCHANGED <<disk, lists, fresh, left>>

Failed ==
  /\ At("failed") /\ command' = None
  /\ UNCHANGED <<disk, lists, page, fresh, left>>

(* The list of a command is asked for with the keyword of its click; an    *)
(* error is swallowed.  A deletion then clears the preview, whatever is    *)
(* selected by now.                                                        *)
Reloaded ==
  /\ At("load")
  /\ LET after(q) == IF command.kind = "delete" THEN [q EXCEPT !.preview = None] ELSE q
     IN \/ Draw(after([Page EXCEPT !.listing = List(command.key)]), TRUE) /\ UNCHANGED left
        \/ Draw(after(Page), FALSE) /\ Spend
  /\ IF command.kind = "save" THEN Moves("preview") ELSE command' = None
  /\ UNCHANGED <<disk, lists, fresh>>

(* The preview of what was saved, whatever is selected by now.             *)
Refreshed ==
  /\ At("preview") /\ command' = None
  /\ \/ /\ command.file \in disk /\ UNCHANGED left
        /\ Draw([Page EXCEPT !.preview = command.file], FALSE)
     \/ command.file \notin disk /\ UNCHANGED <<page, left>>
     \/ Spend /\ UNCHANGED page
  /\ UNCHANGED <<disk, lists, fresh>>

(* Tasks that run write and remove files.                                  *)
AgentActs(f) ==
  /\ Spend /\ disk' = IF f \in disk THEN disk \ {f} ELSE disk \cup {f}
  /\ UNCHANGED <<lists, page, fresh, command>>

-----------------------------------------------------------------------------
Next ==
  \/ Resolve \/ Search \/ SearchTimer
  \/ \E k \in Keyword : LoadAnswered(k) \/ LoadFails(k)
  \/ PreviewAnswered \/ \E r \in Resource : Select(r)
  \/ \E g \in Group : Fold(g)
  \/ StartEdit \/ Type \/ Cancel \/ Save \/ Delete
  \/ OpenCreate \/ ChooseTarget \/ CloseCreate \/ Create
  \/ Serve \/ Answered \/ Failed \/ Reloaded \/ Refreshed
  \/ \E f \in File : AgentActs(f)

Spec == Init /\ [][Next]_vars

-----------------------------------------------------------------------------
(* Types: in particular only files are written (docs/architecture.md:97:   *)
(* the documents of agents are read-only).                                 *)
TypeOK ==
  /\ disk \subseteq File /\ ready \in BOOLEAN /\ keyword \in Keyword
  /\ due \in BOOLEAN /\ loads \subseteq Keyword
  /\ DOMAIN listing.files \subseteq File /\ listing.docs \subseteq Doc
  /\ listing.files \in [DOMAIN listing.files -> BOOLEAN]
  /\ {selected, preview, asked} \subseteq Resource \cup {None}
  /\ editing \in BOOLEAN /\ text \in Resource \cup {Empty} /\ fresh \in BOOLEAN
  /\ form \in Group \cup {Root, None} /\ created \in File \cup {None}
  /\ command \in Command \cup {None} /\ folded \subseteq Group /\ left \in 0 .. MaxStep

(* Whatever a list no longer holds is neither selected nor waited for nor  *)
(* edited nor folded, in whatever order lists and commands are answered    *)
(* (the effects of InstanceFilesPage.tsx:403-455).                         *)
PageFollowsList ==
  /\ selected \in Listed(listing) \cup {None}
  /\ selected = None => Listed(listing) = {}
  /\ asked \in {selected, None} /\ folded \subseteq Groups(listing)
  /\ editing => selected \in DOMAIN listing.files

(* As long as the editor was opened on the preview of its own file, no     *)
(* late preview, list or command puts the text of another file into it, so *)
(* that it is never saved there (handleStartEditTaskFile, the effect at    *)
(* InstanceFilesPage.tsx:260, handleSaveTaskFile).                         *)
EditorKeepsToFile == editing /\ fresh => text \in {selected, Empty}
==============================================================================
