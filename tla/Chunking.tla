------------------------------ MODULE Chunking ------------------------------
(***************************************************************************)
(* What becomes of a file's text before it is stored: which layers its     *)
(* path belongs to, the chunks it is cut into, and what the secret scanner *)
(* says of a chunk.                                                        *)
(*                                                                         *)
(* A file is its sequence of lines; in markdown a line is a heading or a   *)
(* whole paragraph.  What a parser reports of a code file is given with it *)
(* (nodes).  What the scanner reports of a text is what it reports of its  *)
(* lines.                                                                  *)
(***************************************************************************)
EXTENDS Naturals, SequencesExt

CONSTANTS
    Lines,       \* lines of text, equal up to leading and trailing space
    Headings,    \* those that are markdown headings of level 1 or 2
    BlankLines,  \* those of white space only
    Rules,       \* rules of the secret scanner
    RulesIn,     \* RulesIn[l]: the rules that match in line l
    BlockLines   \* HEURISTIC_CHUNK_LINES

ASSUME ChunkingAssumption ==
    /\ Headings \subseteq Lines /\ BlankLines \subseteq Lines
    /\ RulesIn \in [Lines -> SUBSET Rules]
    /\ BlockLines \in Nat \ {0}

-----------------------------------------------------------------------------
(* Paths.  dir is the directory, "nested" one below docs/ and "github" the *)
(* directory .github; name is "README" for a README of another form than   *)
(* README.md, "package" for a package manifest, "secret" for a name that   *)
(* may not be read at all; ext is the extension.                           *)

Path == [dir: {"root", "github", "docs", "nested", "src", "vendored"},
         name: {"README.md", "README", "project.yaml", "package", "lockfile", "secret", "other"},
         ext: {"md", "py", "js", "sql", "none"}]

IsExcludedPath(path) == path.name = "secret"

IsL1DocumentPath(path) ==
    \/ path.dir = "root" /\ path.name = "README.md"
    \/ path.dir \in {"docs", "nested"} /\ path.ext = "md"

IsCandidateCodeFile(path) ==
    /\ path.name # "lockfile" /\ path.dir # "vendored"
    /\ path.ext \in {"py", "js", "sql"}

AffectedLayers(path) ==
    {layer \in {"graph", "documents", "code", "commits"} :
        CASE layer = "graph"     -> path.name \in {"project.yaml", "package"}
          [] layer = "documents" -> IsL1DocumentPath(path)
          [] OTHER               -> IsCandidateCodeFile(path)}

\* list_docs_files lists docs/ one level deep.
IsListedDocument(path) == path.dir = "docs" /\ path.ext = "md"

\* What get_readme may return: GitHub looks for a README of any form here.
IsReadme(path) ==
    path.name \in {"README.md", "README"} /\ path.dir \in {"github", "root", "docs"}

-----------------------------------------------------------------------------
(* Files.  A node is a top-level definition: a function, a class with its  *)
(* members, a declaration whose members are its declarators, or anything   *)
(* else, an exported definition included.                                  *)

Symbols == STRING

Member == [type: {"function", "other"}, name: Symbols, from: Nat, to: Nat]

Node == [type: {"function", "class", "declaration", "other"}, name: Symbols,
         from: Nat, to: Nat, members: Seq(Member)]

File == [oversize: BOOLEAN, parses: BOOLEAN, lines: Seq(Lines), nodes: Seq(Node)]

InFile(file, definition) == 1 <= definition.from /\ definition.to <= Len(file.lines)

\* The lines a parser reports are lines of the file.
Content == {file \in File : \A n \in DOMAIN file.nodes :
               LET node == file.nodes[n]
               IN  /\ InFile(file, node)
                   /\ \A m \in DOMAIN node.members : InFile(file, node.members[m])}

\* A chunk's key is what its row is found by: the index of a document's chunk,
\* the symbol and start line of a code chunk.
Chunk == [key: Seq(Symbols) \X Nat, text: Seq(Lines)]

LineSet(text) == {text[i] : i \in DOMAIN text}

ScanForSecrets(text) == UNION {RulesIn[l] : l \in LineSet(text)}

\* Numbers in ascending order: SetToSortSeq, in a form that can be reasoned about.
InOrder(numbers) ==
    CHOOSE f \in [1..Cardinality(numbers) -> numbers] :
        \A m, n \in DOMAIN f : m < n => f[m] < f[n]

-----------------------------------------------------------------------------
(* chunk_markdown.                                                         *)

Boundaries(lines) == {i \in DOMAIN lines : i = 1 \/ lines[i] \in Headings}

\* The section that starts at boundary b ends where the next one starts.
SectionAt(lines, b) ==
    LET later == {c \in Boundaries(lines) : c > b}
    IN  SubSeq(lines, b, IF later = {} THEN Len(lines) ELSE Min(later) - 1)

\* MUTANT of SplitSection: a section is one chunk.
KeepSection(section) == <<section>>

\* Every paragraph of a section is a chunk, under the section's heading.
SplitSection(section) ==
    CASE section[1] \notin Headings -> [i \in DOMAIN section |-> <<section[i]>>]
      [] section[1] \in Headings /\ Len(section) = 1 -> <<section>>
      [] section[1] \in Headings /\ Len(section) > 1 ->
            [i \in 1..(Len(section) - 1) |-> <<section[1], section[i + 1]>>]

MarkdownTexts(lines) ==
    LET starts == InOrder(Boundaries(lines))
    IN  FlattenSeq([k \in DOMAIN starts |-> SplitSection(SectionAt(lines, starts[k]))])

\* MUTANT of ChunkMarkdown: the index is off by one.
ChunkMarkdownOffByOne(content) ==
    LET texts == MarkdownTexts(content.lines)
    IN  [i \in DOMAIN texts |-> [key |-> <<<<>>, i - 2>>, text |-> texts[i]]]

ChunkMarkdown(content) ==
    IF content.oversize THEN <<>>
    ELSE LET texts == MarkdownTexts(content.lines)
         IN  [i \in DOMAIN texts |-> [key |-> <<<<>>, i - 1>>, text |-> texts[i]]]

-----------------------------------------------------------------------------
(* chunk_code_file.                                                        *)

ChunkFromNode(content, node, symbol) ==
    [key |-> <<symbol, node.from>>, text |-> SubSeq(content.lines, node.from, node.to)]

FunctionsIn(node) ==
    LET order == InOrder({m \in DOMAIN node.members : node.members[m].type = "function"})
    IN  [n \in DOMAIN order |-> node.members[order[n]]]

\* A class is a chunk and so is each of its methods; each function a declaration
\* binds is a chunk, of the whole declaration.
ChunksOfNode(content, node) ==
    LET functions == FunctionsIn(node)
    IN  CASE node.type = "function" ->
                <<ChunkFromNode(content, node, <<node.name>>)>>
          [] node.type = "class" ->
                <<ChunkFromNode(content, node, <<node.name>>)>> \o
                [i \in DOMAIN functions |->
                    ChunkFromNode(content, functions[i], <<node.name, functions[i].name>>)]
          [] node.type = "declaration" ->
                [i \in DOMAIN functions |->
                    ChunkFromNode(content, node, <<functions[i].name>>)]
          [] node.type = "other" -> <<>>

ChunkTreesitter(content) ==
    FlattenSeq([i \in DOMAIN content.nodes |-> ChunksOfNode(content, content.nodes[i])])

\* No two of its definitions have one name and start on one line.
HasDistinctKeys(content) ==
    LET chunks == ChunkTreesitter(content)
    IN  \A m, n \in DOMAIN chunks : chunks[m].key = chunks[n].key => m = n

ChunkPython(content) == IF content.parses THEN ChunkTreesitter(content) ELSE <<>>

\* Blocks of BlockLines lines, but for the blank ones.
ChunkHeuristic(content) ==
    LET lines    == content.lines
        Block(s) == SubSeq(lines, s, Min({s + BlockLines - 1, Len(lines)}))
        starts   == {s \in DOMAIN lines : /\ (s - 1) % BlockLines = 0
                                          /\ ~ LineSet(Block(s)) \subseteq BlankLines}
        ordered  == InOrder(starts)
    IN  [i \in DOMAIN ordered |-> [key |-> <<<<>>, ordered[i]>>, text |-> Block(ordered[i])]]

ChunkCodeFile(path, content) ==
    IF ~ IsCandidateCodeFile(path) \/ content.oversize THEN <<>>
    ELSE CASE path.ext = "py" -> ChunkPython(content)
           [] path.ext = "js" -> ChunkTreesitter(content)
           [] OTHER           -> ChunkHeuristic(content)
=============================================================================
