----------------------------- MODULE MCConfigs ------------------------------
(***************************************************************************)
(* Where executions of ConfigSync start and what happens in them.          *)
(***************************************************************************)
EXTENDS Integers, Sequences, SequencesExt, TLC

Dotted == "b.c" :> << "b", "c" >> @@ ".d" :> << "", "d" >>

Tree == INSTANCE ConfigTree

H == << "/", "h" >>
X == H \o << "x" >>
XZ == X \o << "z" >>
Y == H \o << "y" >>
D == H \o << ".d" >>
O == << "/", "o" >>

Win(name, dir) == [name |-> name, dir |-> dir, command |-> << "sh" >>]
Running(name, dir, command) == [Win(name, dir) EXCEPT !.command = << command >>]

Shorthand(dir) == Tree!Scalar(dir)
Fields(root, path, command) ==
    Tree!Mapping([f \in {"root", "path", "command"} |->
        Tree!Scalar(CASE f = "root" -> << root >> [] f = "path" -> path
                      [] OTHER -> command)])
Under(root, path) ==
    Tree!Mapping([f \in {"root", "path"} |->
        Tree!Scalar(IF f = "root" THEN << root >> ELSE path)])

(* A file of roots, the session s of these windows, and t without any.     *)
File(roots, fields, windows) ==
    Tree!Mapping([k \in {"roots", "sessions"} |->
        IF k = "roots" THEN Tree!Mapping(roots)
        ELSE Tree!Mapping("s" :> Tree!Mapping(
                 fields @@ ("windows" :> Tree!Mapping(windows))))])

NoFields == << >>
Roots == "x" :> Tree!Scalar(X)
Simple == File(Roots, NoFields, "a" :> Shorthand(X))
Rooted == File(Roots @@ "h" :> Tree!Scalar(Y), NoFields, "a" :> Shorthand(Y) @@ "b" :> Under("x", << "z" >>))
Inherited ==
    File(Roots, "root" :> Tree!Scalar(<< "x" >>),
         "a" :> Shorthand(<< "z" >>) @@ "b" :> Fields("x", << "." >>, << "vim" >>))
Grouped == File(Roots, "group" :> Tree!List, "a" :> Shorthand(X))
Imported == File(<< >>, NoFields, "a" :> Shorthand(O))

Only(wins) == "s" :> wins @@ "t" :> << >>
Both(ss, ts) == "s" :> ss @@ "t" :> ts

Scene(file, tmux, ops, overlap, opens, moves, many, acts) ==
    [file |-> file, tmux |-> tmux, ops |-> ops, overlap |-> overlap, opens |-> opens, moves |-> moves,
     many |-> many, acts |-> acts]

Mirroring == {"pull", "pullall", "freeze"}

Scenes == {
    Scene(Simple, Only(<< Win("a", X) >>), Mirroring, FALSE,
          {Win("b", Y)}, {Y}, 2, 2),
    Scene(Rooted, Both(<< Win("a", Y), Win("b", XZ) >>, << Win("a", O) >>),
          Mirroring, FALSE, {Win("a", X), Win("c", Y)}, {XZ}, 2, 1),
    Scene(Inherited, Only(<< Win("a", XZ), Running("b", X, "vim") >>),
          Mirroring \cup {"bootstrap", "settings"}, FALSE, {}, {X}, 2, 1),
    Scene(Tree!Missing, Both(<< Win("a", X), Win("b", XZ) >>, << Win("a", Y) >>),
          {"bootstrap", "freeze", "pullall"}, FALSE, {Win("a", H)}, {O}, 2, 1),
    Scene(Simple, Only(<< Win("a", X) >>),
          {"pull", "save", "savelayout", "settings"}, TRUE, {Win("b", Y)}, {}, 2, 1),
    Scene(Tree!Garbled, Only(<< Win("a", X) >>),
          {"pull", "save", "settings", "merge", "replace", "freeze"}, FALSE, {}, {}, 3, 0),
    Scene(Simple, Both(<< Win("a", D), Win("b.c", Y) >>, << Win("a", X) >>),
          {"freeze", "bootstrap", "pullall", "pull"}, FALSE, {}, {}, 3, 0),
    Scene(Grouped, Only(<< Win("a", X) >>),
          {"savegroup", "save", "pull", "settings"}, FALSE, {}, {}, 3, 0)}
=============================================================================
