------------------------------ MODULE FileManager ------------------------------
(***************************************************************************)
(* The file browser of a volume (FilesTab, FileEditorTabs, api/files.ts)     *)
(* against the handlers of FilesService: a tree of listings loaded on          *)
(* demand, editor tabs, and operations that are chains of requests.              *)
(*                                                                               *)
(* A path is a sequence of names, <<>> the root; a text stands for a content,      *)
(* "" for the empty one.  Every handler runs inside one helper container; what       *)
(* it does there is one step (module VolumeHelper has the containers).  Modes,        *)
(* owners and binary files are left out.                                               *)
(***************************************************************************)
EXTENDS Naturals, SequencesExt

CONSTANTS
  Names,   \* names of files and folders
  Texts,   \* contents, "" among them
  Start,   \* the volume at the beginning
  Slots,   \* requests in flight at the same time
  MaxOps   \* bound: things the user does

VARIABLES
  volume,  \* what is in the volume: a folder or a text at each path there is
  tree,    \* treeData: the listing of every folder loaded so far
  tabs,    \* openFiles: content, original, loading, error
  op,      \* per slot, the chain under way
  saved,   \* per open tab, the text the volume is known to have (no variable of the code)
  ops,     \* things done so far
  careless \* what the user did that the panel is known not to withstand

vars == <<volume, tree, tabs, op, saved, ops, careless>>

Paths == {<<n>> : n \in Names} \cup {<<m, n>> : m \in Names, n \in Names}
dirOf(path) == Front(path)
baseOf(path) == Last(path)
joinPath(dir, name) == Append(dir, name)
isMoveInvalid(source, destDir) == IsPrefix(source, destDir)

Nodes == {"<dir>"} \cup Texts
IsDir(path) == path = <<>> \/ (path \in DOMAIN volume /\ volume[path] = "<dir>")
IsFile(path) == path \in DOMAIN volume /\ volume[path] /= "<dir>"
Exists(path) == IsDir(path) \/ IsFile(path)
Listing(dir) == {baseOf(p) : p \in {q \in DOMAIN volume : dirOf(q) = dir}}
Inside(path) == {p \in DOMAIN volume : IsPrefix(path, p)}

NoOp == [kind |-> "none", path |-> <<>>, to |-> <<>>, text |-> "", dirs |-> {}, at |-> "idle", ok |-> TRUE]
Kinds == {"read", "load", "refresh", "save", "newFile", "newFolder", "rename", "check",
          "move", "replace", "delete", "upload"}

TypeOK ==
  /\ DOMAIN volume \subseteq Paths /\ \A p \in DOMAIN volume : volume[p] \in Nodes
  /\ \A d \in DOMAIN tree : tree[d] \subseteq Names
  /\ \A p \in DOMAIN tabs : tabs[p] \in [content : Texts, original : Texts, loading : BOOLEAN, error : BOOLEAN]
  /\ DOMAIN saved = DOMAIN tabs
  /\ \A s \in Slots : op[s].kind \in Kinds \cup {"none"}
  /\ ops \in 0..MaxOps

Init ==
  /\ volume = Start
  /\ tree = [d \in {<<>>} |-> {n \in Names : <<n>> \in DOMAIN Start}]
  /\ tabs = [p \in {} |-> NoOp] /\ saved = [p \in {} |-> ""]
  /\ op = [s \in Slots |-> NoOp]
  /\ ops = 0 /\ careless = {}

Without(f, S) == [x \in DOMAIN f \ S |-> f[x]]
Over(g, f) == [x \in DOMAIN g \cup DOMAIN f |-> IF x \in DOMAIN g THEN g[x] ELSE f[x]]
With(f, x, v) == Over([y \in {x} |-> v], f)

-----------------------------------------------------------------------------
(* FilesService: what a request leaves in the volume, or the volume as it is  *)
(* when the request is refused.                                              *)

(* write and upload: the folder must be there, and no folder may have the     *)
(* name.                                                                     *)
CanPut(path) == IsDir(dirOf(path)) /\ ~IsDir(path)
Put(path, text) == With(volume, path, text)

(* mkdir -p also makes the parent, and is content with a folder that exists.  *)
CanMkdir(path) == ~IsFile(path) /\ ~IsFile(dirOf(path))
Mkdir(path) == Over([p \in {path, dirOf(path)} \ {<<>>} |-> "<dir>"], volume)

(* mv: onto a folder means into it; a file is overwritten by a file, and the  *)
(* subtree keeps its shape.                                                  *)
Target(from, to) == IF IsDir(to) THEN joinPath(to, baseOf(from)) ELSE to
Carried(p, from, target) == target \o SubSeq(p, Len(from) + 1, Len(p))
CanMove(from, to) ==
  LET target == Target(from, to) IN
  /\ Exists(from) /\ from /= <<>> /\ target /= from
  /\ IsDir(dirOf(target)) /\ ~IsPrefix(from, target)
  /\ IF IsDir(from) THEN ~Exists(target) ELSE ~IsDir(target)
  /\ \A p \in Inside(from) : Carried(p, from, target) \in Paths
Move(from, to) ==
  LET new(p) == Carried(p, from, Target(from, to)) IN
  Over([q \in {new(p) : p \in Inside(from)} |-> volume[CHOOSE p \in Inside(from) : new(p) = q]],
       Without(volume, Inside(from)))

Removed(path) == Without(volume, Inside(path))

-----------------------------------------------------------------------------
(* Beginning a chain.  reloadLoaded will list the folders that are loaded     *)
(* now: the callback belongs to the render that was on the screen.            *)
Free == {s \in Slots : op[s] = NoOp}
Overlaps == IF Free = Slots THEN {} ELSE {"overlap"}

Begin(kind, path, to, text) ==
  /\ ops < MaxOps /\ ops' = ops + 1
  /\ Free /= {}
  /\ op' = [op EXCEPT ![CHOOSE s \in Free : TRUE] =
              [kind |-> kind, path |-> path, to |-> to, text |-> text,
               dirs |-> DOMAIN tree, at |-> "sent", ok |-> TRUE]]

(* Tabs whose file is replaced or carried away under them stay as they are.   *)
Loses(paths) == IF paths \cap DOMAIN tabs = {} THEN {} ELSE {"open"}

LoadDir(dir) ==
  /\ IsDir(dir) /\ Begin("load", dir, <<>>, "")
  /\ careless' = careless \cup Overlaps
  /\ UNCHANGED <<volume, tree, tabs, saved>>

Refresh ==
  /\ Begin("refresh", <<>>, <<>>, "")
  /\ careless' = careless \cup Overlaps
  /\ UNCHANGED <<volume, tree, tabs, saved>>

Loading == [content |-> "", original |-> "", loading |-> TRUE, error |-> FALSE]

(* openFile: a file that is open already is only shown.                      *)
OpenFile(path) ==
  /\ path \notin DOMAIN tabs
  /\ dirOf(path) \in DOMAIN tree /\ baseOf(path) \in tree[dirOf(path)] /\ ~IsDir(path)
  /\ Begin("read", path, <<>>, "")
  /\ tabs' = With(tabs, path, Loading) /\ saved' = With(saved, path, "")
  /\ careless' = careless \cup Overlaps
  /\ UNCHANGED <<volume, tree>>

Close(paths) == tabs' = Without(tabs, paths) /\ saved' = Without(saved, paths)

CloseFile(path) ==
  /\ path \in DOMAIN tabs /\ ops < MaxOps /\ ops' = ops + 1
  /\ Close({path})
  /\ UNCHANGED <<volume, tree, op, careless>>

Busy(path) == \E s \in Slots : op[s].kind = "save" /\ op[s].path = path /\ op[s].at \in {"sent", "done"}

ChangeFile(path, text) ==
  /\ path \in DOMAIN tabs /\ ~tabs[path].loading /\ ~tabs[path].error /\ tabs[path].content /= text
  /\ ops < MaxOps /\ ops' = ops + 1
  /\ tabs' = [tabs EXCEPT ![path].content = text]
  /\ careless' = careless \cup (IF Busy(path) THEN {"typing"} ELSE {})
  /\ UNCHANGED <<volume, tree, op, saved>>

(* The Save button waits for the text; Ctrl+S saves whatever the tab has.     *)
SaveFile(path) ==
  /\ path \in DOMAIN tabs
  /\ Begin("save", path, <<>>, tabs[path].content)
  /\ careless' = careless \cup Overlaps
                   \cup (IF tabs[path].loading \/ tabs[path].error THEN {"unread"} ELSE {})
  /\ UNCHANGED <<volume, tree, tabs, saved>>

PromptNewFile(dir, name) ==
  /\ IsDir(dir) /\ joinPath(dir, name) \in Paths
  /\ Begin("newFile", joinPath(dir, name), <<>>, "")
  /\ careless' = careless \cup Overlaps \cup Loses({joinPath(dir, name)})
  /\ UNCHANGED <<volume, tree, tabs, saved>>

PromptNewFolder(dir, name) ==
  /\ IsDir(dir) /\ joinPath(dir, name) \in Paths
  /\ Begin("newFolder", joinPath(dir, name), <<>>, "")
  /\ careless' = careless \cup Overlaps \cup (IF IsDir(joinPath(dir, name)) THEN {"existing"} ELSE {})
  /\ UNCHANGED <<volume, tree, tabs, saved>>

PromptRename(path, name) ==
  /\ path \in DOMAIN volume
  /\ Begin("rename", path, joinPath(dirOf(path), name), "")
  /\ careless' = careless \cup Overlaps \cup Loses((Inside(path) \ {path}) \cup {Target(path, joinPath(dirOf(path), name))})
  /\ UNCHANGED <<volume, tree, tabs, saved>>

(* onMoveInto, and the dialog of the menu: attemptMove looks for a clash.     *)
AttemptMove(source, destDir) ==
  /\ source \in DOMAIN volume /\ IsDir(destDir) /\ destDir /= dirOf(source)
  /\ ~isMoveInvalid(source, destDir)
  /\ Begin("check", source, destDir, "")
  /\ careless' = careless \cup Overlaps \cup Loses(Inside(source) \ {source})
  /\ UNCHANGED <<volume, tree, tabs, saved>>

DeleteEntry(path) ==
  /\ path \in DOMAIN volume
  /\ Begin("delete", path, <<>>, "")
  /\ careless' = careless \cup Overlaps \cup Loses(Inside(path) \ {path})
  /\ UNCHANGED <<volume, tree, tabs, saved>>

SubmitUpload(dir, name, text) ==
  /\ IsDir(dir) /\ joinPath(dir, name) \in Paths
  /\ Begin("upload", joinPath(dir, name), <<>>, text)
  /\ careless' = careless \cup Overlaps \cup Loses({joinPath(dir, name)})
  /\ UNCHANGED <<volume, tree, tabs, saved>>

(* Someone else, or the application, changes a file.                         *)
OtherWrites(path, text) ==
  /\ ops < MaxOps /\ ops' = ops + 1
  /\ CanPut(path) /\ volume' = Put(path, text)
  /\ careless' = careless \cup {"other"}
  /\ UNCHANGED <<tree, tabs, op, saved>>

-----------------------------------------------------------------------------
(* A request of a chain reaches the backend.                                 *)
Goes(s, can, left) ==
  /\ op[s].at = "sent"
  /\ volume' = IF can THEN left ELSE volume
  /\ op' = [op EXCEPT ![s].at = "done", ![s].ok = can]
  /\ UNCHANGED <<tree, tabs, saved, ops, careless>>

Writes(s) ==
  LET o == op[s] IN
  \/ /\ o.kind \in {"save", "newFile", "upload"}
     /\ Goes(s, CanPut(o.path), Put(o.path, o.text))
  \/ /\ o.kind = "newFolder"
     /\ Goes(s, CanMkdir(o.path), Mkdir(o.path))
  \/ /\ o.kind \in {"rename", "move"}
     /\ Goes(s, CanMove(o.path, o.to), Move(o.path, o.to))
  \/ /\ o.kind \in {"delete", "replace"}
     /\ LET path == IF o.kind = "delete" THEN o.path ELSE o.to
        IN Goes(s, path \in DOMAIN volume, Removed(path))

(* A read, a listing or the check of a move is answered with what is there.   *)
Reads(s) ==
  LET o == op[s] IN
  /\ o.at = "sent"
  /\ \/ /\ o.kind = "read"
        /\ op' = [op EXCEPT ![s].at = "done", ![s].ok = IsFile(o.path),
                            ![s].text = IF IsFile(o.path) THEN volume[o.path] ELSE ""]
     \/ /\ o.kind = "load"
        /\ op' = [op EXCEPT ![s].at = "reloaded", ![s].dirs =
                    IF IsDir(o.path) THEN {<<o.path, Listing(o.path)>>} ELSE {}]
     \/ /\ o.kind = "refresh" /\ op' = [op EXCEPT ![s].at = "reload"]
     \/ /\ o.kind = "check"
        /\ op' = [op EXCEPT ![s].at = "done", ![s].ok = IsDir(o.to),
                            ![s].text = IF baseOf(o.path) \in Listing(o.to) THEN "clash" ELSE ""]
  /\ UNCHANGED <<volume, tree, tabs, saved, ops, careless>>

(* Mutant: only the folder of the entry is listed again. *)
ReloadedParent(o) == {dirOf(o.path)}
(* reloadLoaded: listings of the folders known when the chain began; one that *)
(* fails is skipped.                                                         *)
Reloaded(o) == o.dirs
Lists(s) ==
  /\ op[s].at = "reload"
  /\ op' = [op EXCEPT ![s].at = "reloaded",
                      ![s].dirs = {<<d, Listing(d)>> : d \in {e \in Reloaded(op[s]) : IsDir(e)}}]
  /\ UNCHANGED <<volume, tree, tabs, saved, ops, careless>>

-----------------------------------------------------------------------------
(* The answers.                                                              *)
Ends(s) == op' = [op EXCEPT ![s] = NoOp]
Reload(s) == op' = [op EXCEPT ![s].at = "reload"]

(* A refused request ends its chain with a message, also when it is the move    *)
(* of a replacement whose target is gone by now; a refused read leaves its        *)
(* message in the tab.                                                            *)
Refused(s) ==
  /\ op[s].at = "done" /\ ~op[s].ok /\ Ends(s)
  /\ careless' = careless \cup (IF op[s].kind = "move" /\ op[s].text = "clash" THEN {"partial"} ELSE {})
  /\ tabs' = IF op[s].kind = "read" /\ op[s].path \in DOMAIN tabs
             THEN [tabs EXCEPT ![op[s].path].loading = FALSE, ![op[s].path].error = TRUE] ELSE tabs
  /\ UNCHANGED <<volume, tree, saved, ops>>

Answered(s, kind) == op[s].at = "done" /\ op[s].ok /\ op[s].kind = kind

ReadAnswered(s) ==
  /\ Answered(s, "read") /\ Ends(s)
  /\ IF op[s].path \in DOMAIN tabs
     THEN /\ tabs' = [tabs EXCEPT ![op[s].path] = [content |-> op[s].text, original |-> op[s].text,
                                                   loading |-> FALSE, error |-> FALSE]]
          /\ saved' = [saved EXCEPT ![op[s].path] = op[s].text]
     ELSE UNCHANGED <<tabs, saved>>
  /\ UNCHANGED <<volume, tree, ops, careless>>

(* saveFile marks the text the tab has by now as the saved one.              *)
SaveAnswered(s) ==
  /\ Answered(s, "save") /\ Reload(s)
  /\ IF op[s].path \in DOMAIN tabs
     THEN /\ tabs' = [tabs EXCEPT ![op[s].path].original = tabs[op[s].path].content]
          /\ saved' = [saved EXCEPT ![op[s].path] = op[s].text]
     ELSE UNCHANGED <<tabs, saved>>
  /\ UNCHANGED <<volume, tree, ops, careless>>

(* renaming, moving and deleting close the tab of the entry itself.           *)
ClosedBy(o) == IF o.kind = "move" /\ o.text = "clash" THEN {o.path, o.to} ELSE {o.path}
EntryAnswered(s) ==
  /\ \E kind \in {"rename", "move", "delete"} : Answered(s, kind)
  /\ Reload(s) /\ Close(ClosedBy(op[s]))
  /\ UNCHANGED <<volume, tree, ops, careless>>

CreateAnswered(s) ==
  /\ \E kind \in {"newFile", "newFolder", "upload"} : Answered(s, kind)
  /\ Reload(s)
  /\ UNCHANGED <<volume, tree, tabs, saved, ops, careless>>

(* No clash: the move itself.  A clash opens a dialog: cancel, keep both under *)
(* another name (suggestCopyName), or replace, which deletes first.            *)
CheckAnswered(s) ==
  LET o == op[s] IN
  /\ Answered(s, "check")
  /\ \/ o.text /= "clash" /\ op' = [op EXCEPT ![s].kind = "move", ![s].at = "sent",
                                              ![s].to = joinPath(o.to, baseOf(o.path))]
     \/ o.text = "clash" /\ Ends(s)
     \/ \E name \in Names \ Listing(o.to) :
          /\ o.text = "clash"
          /\ op' = [op EXCEPT ![s].kind = "move", ![s].at = "sent", ![s].text = "",
                              ![s].to = joinPath(o.to, name)]
     \/ o.text = "clash" /\ op' = [op EXCEPT ![s].kind = "replace", ![s].at = "sent",
                                             ![s].to = joinPath(o.to, baseOf(o.path))]
  /\ UNCHANGED <<volume, tree, tabs, saved, ops, careless>>

ReplaceAnswered(s) ==
  /\ Answered(s, "replace")
  /\ op' = [op EXCEPT ![s].kind = "move", ![s].at = "sent"]
  /\ careless' = careless \cup Loses({p \in DOMAIN tabs : IsPrefix(op[s].to, p)} \ {op[s].to})
  /\ UNCHANGED <<volume, tree, tabs, saved, ops>>

(* The listings replace the ones shown; a new folder is marked empty, and a    *)
(* new file is opened.                                                        *)
ListsAnswered(s) ==
  LET o == op[s]
      listed == [d \in {pair[1] : pair \in o.dirs} |-> (CHOOSE pair \in o.dirs : pair[1] = d)[2]]
  IN
  /\ o.at = "reloaded"
  /\ tree' = IF o.kind = "newFolder" THEN With(Over(listed, tree), o.path, {}) ELSE Over(listed, tree)
  /\ IF o.kind = "newFile" /\ o.path \notin DOMAIN tabs
     THEN /\ tabs' = With(tabs, o.path, Loading) /\ saved' = With(saved, o.path, "")
          /\ op' = [op EXCEPT ![s] = [NoOp EXCEPT !.kind = "read", !.path = o.path, !.at = "sent"]]
     ELSE Ends(s) /\ UNCHANGED <<tabs, saved>>
  /\ UNCHANGED <<volume, ops, careless>>

UserActs ==
  \/ Refresh
  \/ \E d \in {<<>>} \cup {p \in Paths : Len(p) = 1} : LoadDir(d)
  \/ \E d \in {<<>>} \cup {p \in Paths : Len(p) = 1}, n \in Names :
       PromptNewFile(d, n) \/ PromptNewFolder(d, n) \/ \E t \in Texts : SubmitUpload(d, n, t)
  \/ \E p \in Paths :
       \/ OpenFile(p) \/ CloseFile(p) \/ SaveFile(p) \/ DeleteEntry(p)
       \/ \E t \in Texts : ChangeFile(p, t) \/ OtherWrites(p, t)
       \/ \E n \in Names : PromptRename(p, n)
       \/ \E d \in {<<>>} \cup {q \in Paths : Len(q) = 1} : AttemptMove(p, d)

Next ==
  \/ UserActs
  \/ \E s \in Slots :
       \/ Writes(s) \/ Reads(s) \/ Lists(s) \/ Refused(s) \/ ReadAnswered(s) \/ SaveAnswered(s)
       \/ EntryAnswered(s) \/ CreateAnswered(s) \/ CheckAnswered(s) \/ ReplaceAnswered(s) \/ ListsAnswered(s)

Spec == Init /\ [][Next]_vars

-----------------------------------------------------------------------------
Settled == Free = Slots
Clean(path) == ~tabs[path].loading /\ ~tabs[path].error /\ tabs[path].content = tabs[path].original

(* When every chain has ended, the listings that are shown are those of the    *)
(* volume and a tab without a mark has the text that is in its file, whatever   *)
(* was created, moved, replaced, uploaded and deleted before.  Known not to      *)
(* hold, and left aside: after chains that overlapped, or others' writes; a       *)
(* text typed while it is saved; a tab saved before it was read; a "new"           *)
(* folder that exists; an entry replaced or carried away under an open tab; a         *)
(* replacement whose move failed after the target was deleted.                          *)
ShowsTheVolume ==
  Settled /\ careless = {} =>
    /\ \A d \in DOMAIN tree : IsDir(d) => tree[d] = Listing(d)
    /\ \A p \in DOMAIN tabs : Clean(p) => IsFile(p) /\ volume[p] = tabs[p].original

(* types.ts: original is the last-saved text.  Violated: the answer of a save   *)
(* takes the text the tab has by then, so what was typed meanwhile looks saved.  *)
OriginalIsSaved == \A p \in DOMAIN tabs : ~tabs[p].loading => tabs[p].original = saved[p]

(* attemptMove asks "instead of silently overwriting or failing": whatever is    *)
(* replaced, what is moved is not lost.  Violated: a folder that holds the         *)
(* source and has its name is deleted with it, and the move then fails.             *)
ReplaceKeepsSource ==
  [][\A s \in Slots : op[s].kind = "replace" /\ op[s].path \in DOMAIN volume
                       /\ volume' /= volume /\ op'[s].at = "done" => op[s].path \in DOMAIN volume']_vars

FilesInv == TypeOK /\ ShowsTheVolume
=============================================================================
