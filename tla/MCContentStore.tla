-------------------------- MODULE MCContentStore ---------------------------
(***************************************************************************)
(* A repository with a readme, a document in a directory below docs/, code *)
(* files of three languages, a lockfile, a file that may not be read, and  *)
(* the exclusion marker.                                                   *)
(***************************************************************************)
EXTENDS ContentStore

CONSTANTS title, usage, install, key, import, define, body, blank

P(dir, name, ext) == [dir |-> dir, name |-> name, ext |-> ext]

readme  == P("root", "README.md", "md")
profile == P("github", "README", "none")
nested == P("nested", "other", "md")
module == P("src", "other", "py")
script == P("src", "other", "sql")
widget == P("src", "other", "js")
lock   == P("root", "lockfile", "none")
env    == P("root", "secret", "none")
marker == P("root", "other", "none")

MCPaths == {readme, profile, nested, module, widget, script, lock, env, marker}

\* GitHub prefers a README in .github.
MCPreferred == [S \in SUBSET {readme, profile} |-> IF profile \in S THEN profile ELSE readme]

MCRulesIn == [l \in Lines |-> IF l = key THEN {"Secret Keyword"} ELSE {}]

Text(lines) == [oversize |-> FALSE, parses |-> TRUE, lines |-> lines, nodes |-> <<>>]

Node_(type, name, from, to, members) ==
    [type |-> type, name |-> name, from |-> from, to |-> to, members |-> members]

Method(name, from, to) == [type |-> "function", name |-> name, from |-> from, to |-> to]

Plain  == Text(<<install>>)
Guide  == Text(<<title, usage, install>>)
Leaky  == Text(<<title, key, install>>)
Short  == Text(<<title, install>>)

OneFunction   == [Text(<<import, define, body>>) EXCEPT
                     !.nodes = <<Node_("other", "", 1, 1, <<>>),
                                 Node_("function", "f", 2, 3, <<>>)>>]
MovedFunction == [Text(<<define, body, import>>) EXCEPT
                     !.nodes = <<Node_("function", "f", 1, 2, <<>>),
                                 Node_("other", "", 3, 3, <<>>)>>]
LeakyClass    == [Text(<<import, define, key, body>>) EXCEPT
                     !.nodes = <<Node_("class", "C", 1, 4,
                                       <<Method("m", 2, 3), Method("n", 4, 4)>>)>>]

Broken == [LeakyClass EXCEPT !.parses = FALSE]

Huge == [Guide EXCEPT !.oversize = TRUE]

\* A class, two functions of one declaration, and an exported function.
Widget == [Text(<<define, body, usage, install>>) EXCEPT
              !.nodes = <<Node_("class", "W", 1, 2, <<Method("m", 2, 2)>>),
                          Node_("declaration", "", 3, 3,
                                <<Method("g", 3, 3), Method("h", 3, 3)>>),
                          Node_("other", "", 4, 4, <<>>)>>]

\* Two blocks, the second one blank.
Script == Text(<<define, body, blank>>)

One(p, c) == [q \in {p} |-> c]

MCFirstPush == [q \in {readme, module, widget} |->
                   CASE q = readme -> Guide [] q = module -> OneFunction [] q = widget -> Widget]

\* Chunks that appear, move, shrink and become flagged; commits of white space,
\* of a lockfile and a secret file only, and with a lockfile among other files.
MCPushKinds ==
    {[q \in {readme, nested, script} |->
         CASE q = readme -> Leaky [] q = nested -> Plain [] q = script -> Script],
     [q \in {profile, module} |-> IF q = profile THEN Plain ELSE MovedFunction],
     [q \in {readme, module} |-> IF q = readme THEN Huge ELSE Broken],
     [q \in {readme, module, lock} |-> IF q = readme THEN Short
                                       ELSE IF q = module THEN LeakyClass ELSE Plain],
     [q \in {lock, env} |-> Leaky],
     One(marker, Text(<<>>)),
     [q \in {marker, module, readme} |-> Absent]}

\* One message holds the secret, and one diff holds it too far down to be read.
MCMessages == [k \in MCPushKinds \cup {MCFirstPush} |->
                  IF profile \in DOMAIN k THEN key ELSE usage]

MCBeyond == [k \in MCPushKinds \cup {MCFirstPush} |->
                IF Cardinality(DOMAIN k) = 3 /\ lock \in DOMAIN k THEN {key} ELSE {}]
=============================================================================
