----------------------------- MODULE ConfigTree ------------------------------
(***************************************************************************)
(* The configuration of tmh as internal/config sees it: the YAML tree that *)
(* is kept for writing, edits of it by dotted path, and what a tree means: *)
(* which sessions are declared, their windows and where those are.         *)
(*                                                                         *)
(* Keys are strings; texts of scalars are sequences of strings: a path's   *)
(* segments, absolute ones after "/", and a single string for a name.      *)
(* Profiles, templates, layouts, panes, hooks and environments do not bear *)
(* on where windows are written and are left out; of the groups of a       *)
(* session, a list, it matters that a list is no scalar.                   *)
(***************************************************************************)
EXTENDS Integers, SequencesExt, TLC

CONSTANT Dotted   \* names that have dots, and their parts

Scalar(text) == [text |-> text]
Mapping(entries) == [map |-> entries]
IsMap(n) == "map" \in DOMAIN n
List == Mapping(<< >>)     \* what is in it does not matter here

Missing == [kind |-> "missing"]   \* no such file
Failed == [kind |-> "failed"]     \* the edit is an error
Garbled == Scalar(<< "?" >>)      \* a file that does not parse
Fresh == Mapping("version" :> Scalar(<< "1" >>))

Keys(n) == IF IsMap(n) THEN DOMAIN n.map ELSE {}
Sub(n, key) == IF key \in Keys(n) THEN n.map[key] ELSE Mapping(<< >>)
Text(n, key) == IF key \in Keys(n) THEN n.map[key].text ELSE << >>
Put(n, key, value) == Mapping((key :> value) @@ n.map)

-----------------------------------------------------------------------------
(* Edits.  A path is joined with dots and split at them: a name that has   *)
(* dots is several keys.                                                   *)
Split(name) == IF name \in DOMAIN Dotted THEN Dotted[name] ELSE << name >>
Path(names) == FlattenSeq([i \in DOMAIN names |-> Split(names[i])])

Set(names, text) == [op |-> "set", path |-> Path(names), text |-> text]
Delete(names) == [op |-> "delete", path |-> Path(names)]

RECURSIVE PathSet(_, _, _)
PathSet(n, path, text) ==
    LET key == Head(path)
        value == IF Len(path) > 1 THEN PathSet(Sub(n, key), Tail(path), text)
                 ELSE IF IsMap(Sub(n, key)) /\ key \in Keys(n) THEN Failed
                 ELSE Scalar(text)
    IN IF ~IsMap(n) \/ value = Failed THEN Failed ELSE Put(n, key, value)

RECURSIVE PathDelete(_, _)
PathDelete(n, path) ==
    LET key == Head(path)
        value == PathDelete(n.map[key], Tail(path))
    IN CASE key \notin Keys(n) -> Failed
         [] Len(path) = 1 ->
              Mapping([k \in Keys(n) \ {key} |-> n.map[k]])
         [] OTHER -> IF value = Failed THEN Failed ELSE Put(n, key, value)

(* The first edit that fails ends the command; nothing is written then.    *)
Edited(tree, edits) ==
    FoldLeft(LAMBDA t, e :
                 CASE t = Failed -> Failed
                   [] e.op = "set" -> PathSet(t, e.path, e.text)
                   [] OTHER -> PathDelete(t, e.path),
             tree, edits)

-----------------------------------------------------------------------------
(* What a tree means.                                                      *)
WindowFields == {"dir", "root", "path", "command"}

Sess(tree, s) == Sub(Sub(tree, "sessions"), s)
Declares(tree) == Keys(Sub(tree, "sessions"))
WindowNodes(tree, s) == Sub(Sess(tree, s), "windows")
WindowNames(tree, s) == Keys(WindowNodes(tree, s))
Root(tree, name) == Text(Sub(tree, "roots"), name)
RootNames(tree) == Keys(Sub(tree, "roots"))

(* Window.UnmarshalYAML: a scalar is the directory; unknown keys of a      *)
(* mapping are ignored.                                                    *)
Window(tree, s, w) ==
    LET n == WindowNodes(tree, s).map[w] IN
    [f \in WindowFields |->
        IF IsMap(n) THEN Text(n, f) ELSE IF f = "dir" THEN n.text ELSE << >>]

Scalars(n, keys) == \A k \in keys \cap Keys(n) : ~IsMap(n.map[k])
ListOrNone(n, key) == key \in Keys(n) => IsMap(n.map[key])

(* Load decodes the tree into the types of types.go: what is a scalar where*)
(* a list is wanted is an error.                                           *)
Readable(tree) ==
    /\ IsMap(tree) /\ IsMap(Sub(tree, "roots")) /\ IsMap(Sub(tree, "sessions"))
    /\ Scalars(Sub(tree, "roots"), RootNames(tree))
    /\ \A s \in Declares(tree) :
         /\ IsMap(Sess(tree, s)) /\ IsMap(WindowNodes(tree, s))
         /\ Scalars(Sess(tree, s), {"root", "path"})
         /\ ListOrNone(Sess(tree, s), "group")
         /\ \A w \in WindowNames(tree, s) :
              Scalars(WindowNodes(tree, s).map[w], WindowFields)

(* Every root that is referred to is declared.                             *)
Knows(tree, name) == name = << >> \/ name[1] \in RootNames(tree)
Validate(tree) ==
    \A s \in Declares(tree) :
        /\ Knows(tree, Text(Sess(tree, s), "root"))
        /\ \A w \in WindowNames(tree, s) : Knows(tree, Window(tree, s, w).root)

Usable(tree) == tree # Missing /\ Readable(tree) /\ Validate(tree)

IsAbs(dir) == dir # << >> /\ Head(dir) = "/"
JoinClean(base, rel) == IF rel \in {<< >>, << "." >>} THEN base ELSE base \o rel

SessionDir(tree, s) ==
    LET root == Text(Sess(tree, s), "root")
        path == Text(Sess(tree, s), "path")
    IN IF root = << >> THEN path ELSE JoinClean(Root(tree, root[1]), path)

(* resolveWindow: where a window is; << >> when nothing says so.           *)
WindowDir(tree, s, w) ==
    LET win == Window(tree, s, w)
        parent == SessionDir(tree, s)
    IN CASE IsAbs(win.dir) -> win.dir
         [] ~IsAbs(win.dir) /\ win.root # << >> ->
              JoinClean(Root(tree, win.root[1]),
                        IF win.path = << >> THEN win.dir ELSE win.path)
         [] OTHER -> IF parent # << >> THEN JoinClean(parent, win.dir) ELSE win.dir
=============================================================================
