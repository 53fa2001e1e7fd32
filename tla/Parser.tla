------------------------------- MODULE Parser -------------------------------
(***************************************************************************)
(* How parser.rs reads definitions, imports and exports out of a syntax    *)
(* tree.  Each extractor of the source is a recursive match on the kind of *)
(* a node's children; here it is a table - what it records for a kind,     *)
(* where it does not descend, where another extractor takes over - and one *)
(* step of a walk visits one node.                                         *)
(*                                                                         *)
(* The tree is tree-sitter's.  Nodes are numbered in document order, node  *)
(* 1 is the root.  A body (block, class_body, declaration_list ...) is     *)
(* merged into the node it belongs to.  What a match reads from a node's   *)
(* own fields is its form: "named" if the name field is there, the shape   *)
(* of the declarator in C, of the clause in an import.                     *)
(***************************************************************************)
EXTENDS Integers, Sequences

CONSTANTS
  Grammars,   \* by name: a file extension and a fragment of its grammar,
              \* [ext, kinds : kind -> [forms, params, holds, most]]
  MaxNodes    \* bound: nodes below the root

Kinds == UNION {DOMAIN Grammars[g].kinds : g \in DOMAIN Grammars}

Languages == {"TypeScript", "Rust", "Python", "Go", "Bash", "Java", "C", "Ruby", "Cpp"}

DetectLanguage ==
  [ts |-> "TypeScript", tsx |-> "TypeScript", mts |-> "TypeScript", cts |-> "TypeScript",
   rs |-> "Rust", py |-> "Python", go |-> "Go", bash |-> "Bash", sh |-> "Bash",
   java |-> "Java", c |-> "C", h |-> "C", rb |-> "Ruby", cpp |-> "Cpp", cc |-> "Cpp",
   cxx |-> "Cpp", hpp |-> "Cpp", hxx |-> "Cpp", hh |-> "Cpp"]

LanguageOf(g) == DetectLanguage[Grammars[g].ext]

Parameter == [kind : STRING, pattern : STRING, name : STRING]

ASSUME NodesAssumption == MaxNodes \in Nat

ASSUME GrammarsAssumption ==
  \A g \in DOMAIN Grammars :
    LET kinds == Grammars[g].kinds IN
    /\ Grammars[g].ext \in DOMAIN DetectLanguage
    /\ "program" \in DOMAIN kinds
    /\ \A k \in DOMAIN kinds :
         /\ k \in STRING
         /\ kinds[k].forms \subseteq STRING
         /\ kinds[k].params \subseteq Seq(Parameter)
         /\ kinds[k].holds \subseteq DOMAIN kinds

------------------------------------------------------------------------------
(* What an extractor may say of a kind.  A row of records gives the entries  *)
(* for each form of the node; a form without a row gives none.               *)

SymbolKind ==
  {"function", "struct", "enum", "trait", "class", "interface", "type", "module"}

ImportKind == {"Named", "Default", "Namespace", "SideEffect", "Require"}

ExportKind == {"Named", "Default", "ReExport", "ReExportAll"}

Named(what)  == [named |-> <<what>>]
Functions    == Named("function")
Nothing      == [none |-> <<>>]

Each(kinds, rows) == [k \in kinds |-> rows]

(* The rows of f, and those of g that f has not.                             *)
Merge(f, g) ==
  [k \in DOMAIN f \cup DOMAIN g |-> IF k \in DOMAIN f THEN f[k] ELSE g[k]]

(* records: entries by kind and form.  closed: kinds whose children are not  *)
(* looked at.  turns: kinds whose children go to another extractor.          *)
Extractor(records, closed, turns) ==
  [records |-> records, closed |-> closed, leaves |-> {}, turns |-> turns, only |-> Kinds]

(* Leaves a node when it was recorded, and only then.                        *)
LeavesRecorded(x, kinds) == [x EXCEPT !.leaves = kinds]

(* Looks at these kinds, and drops every other node.                         *)
Only(x, kinds) == [x EXCEPT !.only = kinds]

NoTurns == Each({}, "")

------------------------------------------------------------------------------
(* Definitions: parse_source and parse_source_spans.                         *)

TypescriptLeaves ==
  {"function_declaration", "function_signature", "method_definition", "method_signature",
   "abstract_method_signature", "call_signature", "construct_signature"}

\* A call signature is __call whatever its fields.
TypescriptFunctionRows ==
  Merge(Each(TypescriptLeaves \ {"call_signature"}, Functions),
        [call_signature |-> [named |-> <<"function">>, anonymous |-> <<"function">>]])

TypescriptFunctions ==
  Extractor(TypescriptFunctionRows, TypescriptLeaves \cup {"type_alias_declaration"},
            [export_statement |-> "typescript_exported_function"])

TypescriptExportedFunction ==
  Only(Extractor([function_declaration |-> Functions], {"function_declaration"}, NoTurns),
       {"function_declaration"})

TypescriptTypeKind ==
  [class_declaration |-> "class", interface_declaration |-> "interface",
   type_alias_declaration |-> "type", enum_declaration |-> "enum"]

TypescriptTypeRows ==
  [k \in DOMAIN TypescriptTypeKind |-> Named(TypescriptTypeKind[k])]

TypescriptSpans ==
  Extractor(Merge(TypescriptFunctionRows, TypescriptTypeRows),
            TypescriptLeaves \cup {"type_alias_declaration"},
            [export_statement |-> "typescript_declaration_span"])

\* A declaration that is none of these is dropped with all it holds.
TypescriptDeclarationSpan ==
  Only(Extractor(Merge(Each({"function_declaration", "function_signature"}, Functions),
                       TypescriptTypeRows),
                 {"function_declaration", "function_signature", "type_alias_declaration"},
                 Each(DOMAIN TypescriptTypeKind, "typescript_spans")),
       {"function_declaration", "function_signature"} \cup DOMAIN TypescriptTypeKind)

RustLeaves == {"function_item", "associated_function"}

RustFunctions ==
  Extractor(Each(RustLeaves, Functions), RustLeaves, [trait_item |-> "rust_trait_methods"])

RustTraitMethods ==
  LET leaves == RustLeaves \cup {"function_signature_item"}
  IN  Extractor(Each(leaves, Functions), leaves, NoTurns)

RustTypeRows ==
  [struct_item |-> Named("struct"), union_item |-> Named("struct"), enum_item |-> Named("enum"),
   type_item |-> Named("type"), trait_item |-> Named("trait")]

RustSpans ==
  Extractor(Merge(Each(RustLeaves, Functions), RustTypeRows),
            RustLeaves \cup {"struct_item", "union_item", "enum_item", "type_item"},
            [trait_item |-> "rust_trait_method_spans"])

RustTraitMethodSpans == RustTraitMethods

(* A slip: the body of a function is not looked at. *)
PythonFunctionsOutermost ==
  Extractor([function_definition |-> Functions], {"function_definition"}, NoTurns)

PythonFunctions == Extractor([function_definition |-> Functions], {}, NoTurns)

PythonSpans ==
  Extractor([function_definition |-> Functions, class_definition |-> Named("class")], {}, NoTurns)

GoLeaves == {"function_declaration", "method_declaration"}

GoFunctions == Extractor(Each(GoLeaves, Functions), GoLeaves, NoTurns)

GoSpans ==
  Extractor(Each(GoLeaves, Functions), GoLeaves, [type_declaration |-> "go_type_specs"])

GoTypeSpecKind ==
  [struct |-> <<"struct">>, interface |-> <<"interface">>, other |-> <<"type">>]

GoTypeSpecs ==
  Only(Extractor([type_spec |-> GoTypeSpecKind], {"type_spec"}, NoTurns), {"type_spec"})

BashFunctions == Extractor([function_definition |-> Functions], {}, NoTurns)
BashSpans     == Extractor([function_definition |-> Functions], {}, NoTurns)

JavaTypeRows ==
  [class_declaration |-> Named("class"), interface_declaration |-> Named("interface"),
   enum_declaration |-> Named("enum"), record_declaration |-> Named("class")]

JavaLeaves == {"method_declaration", "constructor_declaration"}

\* The body is asked for by its kind; the grammar has it under the field "body".
JavaFunctions ==
  Extractor(Merge(Each(JavaLeaves, Functions), JavaTypeRows),
            JavaLeaves \cup DOMAIN JavaTypeRows, NoTurns)

JavaSpans == Extractor(Merge(Each(JavaLeaves, Functions), JavaTypeRows), JavaLeaves, NoTurns)

\* The declarator itself must hold the name: not behind a pointer, a reference,
\* a qualification or the word operator.
CFunction == [identifier |-> <<"function">>, field_identifier |-> <<"function">>]

CFunctions == Extractor([function_definition |-> CFunction], {}, NoTurns)
CSpans     == Extractor([function_definition |-> CFunction], {}, NoTurns)

RubyTypeRows == [class |-> Named("class"), module |-> Named("module")]
RubyLeaves   == {"method", "singleton_method"}

RubyFunctions == Extractor(Merge(Each(RubyLeaves, Functions), RubyTypeRows), RubyLeaves, NoTurns)
RubySpans     == Extractor(Merge(Each(RubyLeaves, Functions), RubyTypeRows), RubyLeaves, NoTurns)

CppTypeRows == [class_specifier |-> Named("class"), struct_specifier |-> Named("struct")]

CppFunctions == Extractor(Merge([function_definition |-> CFunction], CppTypeRows), {}, NoTurns)

(* A slip: a namespace is taken for a type, and not descended into. *)
CppSpansOutsideNamespaces ==
  Extractor(Merge([function_definition |-> CFunction], CppTypeRows),
            {"namespace_definition"}, NoTurns)

CppSpans == Extractor(Merge([function_definition |-> CFunction], CppTypeRows), {}, NoTurns)

------------------------------------------------------------------------------
(* Parameters.  A parameter is its kind and the name found in its name or    *)
(* pattern field; the reader of a language keeps a name, or drops it.        *)

NoName  == "none"
Dropped == "dropped"

TypescriptParam(p) ==
  IF p.kind \in {"required_parameter", "optional_parameter", "identifier"} THEN p.name ELSE Dropped

(* A pattern has the name of an identifier only; the receiver written as      *)
(* `self: Box<Self>` is a parameter whose pattern is none.                   *)
ExtractPatternName(p) == IF p.pattern = "identifier" THEN p.name ELSE "_"

RustParam(p) ==
  CASE p.kind = "self_parameter" -> "self"
    [] p.kind = "parameter"      -> ExtractPatternName(p)
    [] p.kind = "identifier"     -> p.name
    [] OTHER                     -> Dropped

PythonParam(p) ==
  IF p.kind \in {"identifier", "typed_parameter", "default_parameter", "typed_default_parameter",
                 "list_splat_pattern", "dictionary_splat_pattern"}
  THEN p.name ELSE Dropped

(* A slip: a parameter without a name keeps having none. *)
GoParamUnnamed(p) == IF p.kind = "parameter_declaration" THEN p.name ELSE Dropped

GoParam(p) ==
  CASE p.kind # "parameter_declaration" -> Dropped
    [] p.name = NoName                  -> "_"
    [] OTHER                            -> p.name

JavaParam(p) == IF p.kind = "formal_parameter" THEN p.name ELSE Dropped

CParam(p) == IF p.kind = "parameter_declaration" /\ p.name # NoName THEN p.name ELSE Dropped

RubyParam(p) ==
  IF /\ p.kind \in {"identifier", "optional_parameter", "splat_parameter", "keyword_parameter",
                    "block_parameter", "hash_keyword_parameter"}
     /\ p.name # NoName
  THEN p.name ELSE Dropped

(* A parameter without a name is one behind a pattern in Rust, one of Go, C or *)
(* C++ that has none, or an anonymous * or & of Ruby.                         *)
Unnamed == {"parameter", "parameter_declaration", "splat_parameter", "block_parameter"}

ASSUME ParametersAssumption ==
  \A g \in DOMAIN Grammars : \A k \in DOMAIN Grammars[g].kinds :
    \A ps \in Grammars[g].kinds[k].params : \A i \in DOMAIN ps :
      /\ ps[i].name # Dropped
      /\ ps[i].name = NoName => ps[i].kind \in Unnamed /\ ps[i].pattern # "identifier"

Param(language, p) ==
  CASE language = "TypeScript" -> TypescriptParam(p)
    [] language = "Rust"       -> RustParam(p)
    [] language = "Python"     -> PythonParam(p)
    [] language = "Go"         -> GoParam(p)
    [] language = "Java"       -> JavaParam(p)
    [] language \in {"C", "Cpp"} -> CParam(p)
    [] language = "Ruby"       -> RubyParam(p)
    [] language = "Bash"       -> Dropped

(* What the loop over the parameters has kept after each of them.            *)
Params(language, ps) ==
  LET kept[i \in 0..Len(ps)] ==
        IF i = 0 THEN <<>>
        ELSE IF Param(language, ps[i]) = Dropped THEN kept[i - 1]
        ELSE Append(kept[i - 1], Param(language, ps[i]))
  IN  kept[Len(ps)]

(* A slip: the receiver of a Go method is not put first. *)
GoSignatureParams(node) == Params("Go", node.params)

(* The receiver of a Go method becomes a first parameter named self. *)
GoParams(node) ==
  (IF node.kind = "method_declaration" THEN <<"self">> ELSE <<>>) \o Params("Go", node.params)

Signature(language, node) ==
  IF language = "Go" THEN GoParams(node) ELSE Params(language, node.params)

IsMethod(params) == params # <<>> /\ Head(params) = "self"

------------------------------------------------------------------------------
(* Imports and exports: parse_source_imports_exports.                        *)

\* A namespace wins over a default, a default over the names beside it; an
\* `import x = require()` has no string of its own.
TypescriptImportClause ==
  [default |-> <<"Default">>, default_namespace |-> <<"Namespace">>, namespace |-> <<"Namespace">>,
   default_named |-> <<"Default">>, named |-> <<"Named">>, empty |-> <<"SideEffect">>]

TypescriptRequire == [require |-> <<"Require">>]

TypescriptImports ==
  LeavesRecorded(
    Extractor([import_statement |-> Merge(TypescriptImportClause, [bare |-> <<"SideEffect">>]),
               call_expression  |-> TypescriptRequire],
              {"import_statement"}, NoTurns),
    {"call_expression"})

TypescriptExport ==
  [re_export |-> <<"ReExport">>, re_export_all |-> <<"ReExportAll">>,
   declaration |-> <<"Default">>, clause |-> <<"Named">>]

TypescriptExports ==
  Extractor([export_statement |-> TypescriptExport], {"export_statement"}, NoTurns)

\* A path only: a group, a glob and a renaming are kinds of their own that the
\* match does not know.
RustUse == [path |-> <<"Default">>, pub_path |-> <<"Default">>]
RustMod == [named |-> <<"Namespace">>]

RustImports ==
  Extractor([use_declaration |-> RustUse, mod_item |-> RustMod],
            {"use_declaration", "mod_item"}, NoTurns)

RustExport == [pub_path |-> <<"Named">>]

RustExports == Extractor([use_declaration |-> RustExport], {"use_declaration"}, NoTurns)

PythonImports ==
  Extractor([import_statement      |-> [name  |-> <<"SideEffect">>, alias |-> <<"Namespace">>,
                                        names |-> <<"SideEffect", "SideEffect">>],
             import_from_statement |-> [names |-> <<"Named">>, star |-> <<"SideEffect">>]],
            {"import_statement", "import_from_statement"}, NoTurns)

GoImports ==
  Extractor([import_spec |-> [plain |-> <<"SideEffect">>, alias |-> <<"Namespace">>]],
            {"import_spec"}, NoTurns)

BashImports == Extractor([command |-> [source |-> <<"Require">>]], {}, NoTurns)

\* export, declare, local and readonly are one kind of node.
BashExports ==
  Extractor([declaration_command |-> [one |-> <<"Named">>, two |-> <<"Named", "Named">>]],
            {}, NoTurns)

JavaImports == Extractor([import_declaration |-> [path |-> <<"Named">>]], {}, NoTurns)

(* A slip: an include is recorded, and then again for its file name. *)
CImportsTwice ==
  Extractor([preproc_include |-> [system |-> <<"Require">>, local |-> <<"Require", "Require">>]],
            {}, NoTurns)

CImports ==
  Extractor([preproc_include |-> [system |-> <<"Require">>, local |-> <<"Require">>]], {}, NoTurns)

CppImports == CImports

RubyImports == Extractor([call |-> [require |-> <<"Require">>]], {}, NoTurns)

None == Only(Extractor(Each({}, Nothing), {}, NoTurns), {})

------------------------------------------------------------------------------
(* The walks.                                                                *)

Extractors ==
  [typescript_functions |-> TypescriptFunctions, typescript_spans |-> TypescriptSpans,
   typescript_exported_function |-> TypescriptExportedFunction,
   typescript_declaration_span |-> TypescriptDeclarationSpan,
   typescript_imports |-> TypescriptImports, typescript_exports |-> TypescriptExports,
   rust_functions |-> RustFunctions, rust_trait_methods |-> RustTraitMethods,
   rust_spans |-> RustSpans, rust_trait_method_spans |-> RustTraitMethodSpans,
   rust_imports |-> RustImports, rust_exports |-> RustExports,
   python_functions |-> PythonFunctions, python_spans |-> PythonSpans,
   python_imports |-> PythonImports,
   go_functions |-> GoFunctions, go_spans |-> GoSpans, go_type_specs |-> GoTypeSpecs,
   go_imports |-> GoImports,
   bash_functions |-> BashFunctions, bash_spans |-> BashSpans,
   bash_imports |-> BashImports, bash_exports |-> BashExports,
   java_functions |-> JavaFunctions, java_spans |-> JavaSpans, java_imports |-> JavaImports,
   c_functions |-> CFunctions, c_spans |-> CSpans, c_imports |-> CImports,
   ruby_functions |-> RubyFunctions, ruby_spans |-> RubySpans, ruby_imports |-> RubyImports,
   cpp_functions |-> CppFunctions, cpp_spans |-> CppSpans, cpp_imports |-> CppImports,
   none |-> None]

ParseSource ==
  [TypeScript |-> "typescript_functions", Rust |-> "rust_functions", Python |-> "python_functions",
   Go |-> "go_functions", Bash |-> "bash_functions", Java |-> "java_functions",
   C |-> "c_functions", Ruby |-> "ruby_functions", Cpp |-> "cpp_functions"]

ParseSourceSpans ==
  [TypeScript |-> "typescript_spans", Rust |-> "rust_spans", Python |-> "python_spans",
   Go |-> "go_spans", Bash |-> "bash_spans", Java |-> "java_spans",
   C |-> "c_spans", Ruby |-> "ruby_spans", Cpp |-> "cpp_spans"]

ParseSourceImports ==
  [TypeScript |-> "typescript_imports", Rust |-> "rust_imports", Python |-> "python_imports",
   Go |-> "go_imports", Bash |-> "bash_imports", Java |-> "java_imports",
   C |-> "c_imports", Ruby |-> "ruby_imports", Cpp |-> "cpp_imports"]

ParseSourceExports ==
  Merge([TypeScript |-> "typescript_exports", Rust |-> "rust_exports", Bash |-> "bash_exports"],
        Each(Languages, "none"))

Walks == <<"functions", "spans", "imports", "exports">>

FirstExtractor ==
  [functions |-> ParseSource, spans |-> ParseSourceSpans,
   imports |-> ParseSourceImports, exports |-> ParseSourceExports]

VARIABLES
  grammar,   \* the fragment the file is written in
  tree,      \* its nodes: [kind, form, params, up, kids]
  walk,      \* 0 while the tree grows, then the walk it is in
  todo,      \* the nodes to visit, each with the extractor that does
  found      \* what each walk has recorded: [node, what, params]

vars == <<grammar, tree, walk, todo, found>>

Language == LanguageOf(grammar)
Root     == 1
Nodes    == 1..Len(tree)

Init ==
  /\ grammar \in DOMAIN Grammars
  /\ tree = <<[kind |-> "program", form |-> "none", params |-> <<>>, up |-> 0, kids |-> <<>>]>>
  /\ walk = 0
  /\ todo = <<>>
  /\ found = [w \in DOMAIN FirstExtractor |-> <<>>]

(* The next node in document order hangs off the path to the last one.       *)
RightmostPath == {p \in Nodes : \A n \in Nodes : n > p => tree[n].up >= p}

Grow ==
  /\ walk = 0
  /\ Len(tree) <= MaxNodes
  /\ \E p \in RightmostPath :
       LET at == Grammars[grammar].kinds[tree[p].kind] IN
       /\ Len(tree[p].kids) < at.most
       /\ \E k \in at.holds :
          \E form \in Grammars[grammar].kinds[k].forms, ps \in Grammars[grammar].kinds[k].params :
            tree' = Append([tree EXCEPT ![p].kids = Append(@, Len(tree) + 1)],
                           [kind |-> k, form |-> form, params |-> ps, up |-> p, kids |-> <<>>])
  /\ UNCHANGED <<grammar, walk, todo, found>>

(* The next walk starts at the root.                                         *)
Begin ==
  /\ todo = <<>>
  /\ walk < Len(Walks)
  /\ walk' = walk + 1
  /\ todo' = <<[by |-> FirstExtractor[Walks[walk + 1]][Language], node |-> Root]>>
  /\ UNCHANGED <<grammar, tree, found>>

Entries(x, n) ==
  LET node == tree[n]
      what == IF /\ node.kind \in x.only
                 /\ node.kind \in DOMAIN x.records
                 /\ node.form \in DOMAIN x.records[node.kind]
              THEN x.records[node.kind][node.form] ELSE <<>>
  IN  [i \in 1..Len(what) |-> [node |-> n, what |-> what[i], params |-> Signature(Language, node)]]

Descends(x, n) ==
  /\ tree[n].kind \in x.only \ x.closed
  /\ ~ (tree[n].kind \in x.leaves /\ Entries(x, n) # <<>>)

Turn(by, n) ==
  LET turns == Extractors[by].turns IN
  IF tree[n].kind \in DOMAIN turns THEN turns[tree[n].kind] ELSE by

(* A slip: the children come after what is left to do. *)
VisitLater ==
  /\ todo # <<>>
  /\ LET by == Head(todo).by
         n  == Head(todo).node
         x  == Extractors[by]
         kids == IF Descends(x, n) THEN tree[n].kids ELSE <<>>
     IN  /\ found' = [found EXCEPT ![Walks[walk]] = @ \o Entries(x, n)]
         /\ todo' = Tail(todo) \o [i \in 1..Len(kids) |-> [by |-> Turn(by, n), node |-> kids[i]]]
  /\ UNCHANGED <<grammar, tree, walk>>

(* One node: its entries, then its children before what is left to do.       *)
Visit ==
  /\ todo # <<>>
  /\ LET by == Head(todo).by
         n  == Head(todo).node
         x  == Extractors[by]
         kids == IF Descends(x, n) THEN tree[n].kids ELSE <<>>
     IN  /\ found' = [found EXCEPT ![Walks[walk]] = @ \o Entries(x, n)]
         /\ todo' = [i \in 1..Len(kids) |-> [by |-> Turn(by, n), node |-> kids[i]]] \o Tail(todo)
  /\ UNCHANGED <<grammar, tree, walk>>

Next == Grow \/ Begin \/ Visit

Spec == Init /\ [][Next]_vars

------------------------------------------------------------------------------
(* Properties.                                                               *)

\* (That a literal is in STRING is beyond the provers.)
Node  == [kind : Kinds, form : STRING \cup {"none"}, params : Seq(Parameter),
          up : Nat, kids : Seq(Nat)]

Name == (STRING \cup {"self", "_"}) \ {NoName, Dropped}

Entry(kinds) == [node : Nat, what : kinds, params : Seq(Name)]

ParseResult ==
  [functions : Seq(Entry(SymbolKind)), spans : Seq(Entry(SymbolKind)),
   imports : Seq(Entry(ImportKind)), exports : Seq(Entry(ExportKind))]

TypeOK ==
  /\ grammar \in DOMAIN Grammars
  /\ tree \in Seq(Node) /\ tree # <<>>
  /\ walk \in 0..Len(Walks)
  /\ todo \in Seq([by : DOMAIN Extractors, node : Nodes])
  /\ found \in ParseResult

Done(w)     == todo = <<>> /\ \E i \in 1..walk : Walks[i] = w
EntrySet(w) == {found[w][i] : i \in 1..Len(found[w])}
Reported(w) == {e.node : e \in EntrySet(w)}

\* In document order what is below a node follows it, up to the next that hangs higher.
Ancestors(n) == {a \in 1..n - 1 : \A m \in a + 1..n : tree[m].up >= a}

(* Definitions come in document order, each once: a type before what it      *)
(* holds, which is how the chunker decides who keeps a line span that both   *)
(* have.                                                                     *)
DocumentOrder ==
  \A w \in {"functions", "spans"} :
    \A i, j \in 1..Len(found[w]) : i < j => found[w][i].node < found[w][j].node

FunctionEntries(w) == {e \in EntrySet(w) : e.what = "function"}

(* What parse_source reports, parse_source_spans reports with the same       *)
(* parameters, or it lies in a type that is reported (a function in the      *)
(* discriminant of a Rust enum).  The other way round it holds of functions  *)
(* in the languages whose two extractors agree.                              *)
MirrorsFunctions ==
  Done("spans") =>
    /\ \A e \in EntrySet("functions") :
         e \in EntrySet("spans") \/ Ancestors(e.node) \cap Reported("spans") # {}
    /\ Language \notin {"TypeScript", "Java"} =>
         FunctionEntries("spans") \subseteq FunctionEntries("functions")

\* What a language defines.
Definitions ==
  [TypeScript |-> {"function_declaration", "function_signature", "method_definition",
                   "method_signature", "abstract_method_signature", "call_signature",
                   "class_declaration", "interface_declaration", "type_alias_declaration",
                   "enum_declaration"},
   Rust   |-> {"function_item", "associated_function", "function_signature_item", "struct_item",
               "union_item", "enum_item", "type_item", "trait_item"},
   Python |-> {"function_definition", "class_definition"},
   Go     |-> {"function_declaration", "method_declaration", "type_spec"},
   Bash   |-> {"function_definition"},
   Java   |-> {"class_declaration", "interface_declaration", "enum_declaration",
               "record_declaration", "method_declaration", "constructor_declaration"},
   C      |-> {"function_definition"},
   Ruby   |-> {"class", "module", "method", "singleton_method"},
   Cpp    |-> {"function_definition", "class_specifier", "struct_specifier"}]

\* The forms in which its name can be read.
Readable(language, kind) ==
  CASE kind = "type_spec"      -> {"struct", "interface", "other"}
    [] kind = "call_signature" -> {"named", "anonymous"}
    [] kind = "function_definition" /\ language \in {"C", "Cpp"} ->
         {"identifier", "field_identifier"}
    [] OTHER                   -> {"named"}

(* The name of a definition is a mandatory field in every grammar but those   *)
(* of C and C++, where it may be behind other declarators.                   *)
ASSUME NamesAssumption ==
  \A g \in DOMAIN Grammars : LanguageOf(g) \notin {"C", "Cpp"} =>
    \A k \in DOMAIN Grammars[g].kinds \cap Definitions[LanguageOf(g)] :
      Grammars[g].kinds[k].forms \subseteq Readable(LanguageOf(g), k)

(* A Rust function without a body is in a trait or in a foreign block: the    *)
(* compiler rejects one elsewhere, which the grammar would admit.             *)
ASSUME SignaturesAssumption ==
  \A g \in DOMAIN Grammars : \A k \in DOMAIN Grammars[g].kinds :
    "function_signature_item" \in Grammars[g].kinds[k].holds =>
      k \in {"trait_item", "foreign_mod_item"}

(* A Go function is at the top level, and a type declaration holds type specs, *)
(* aliases and comments.                                                      *)
ASSUME GoAssumption ==
  \A g \in DOMAIN Grammars : LanguageOf(g) = "Go" =>
    LET kinds == Grammars[g].kinds IN
    \A k \in DOMAIN kinds :
      /\ "program" \notin kinds[k].holds
      /\ k # "program" => kinds[k].holds \cap GoLeaves = {}
      /\ IF k = "type_declaration"
         THEN \A h \in kinds[k].holds \ {"type_spec", "type_alias"} : kinds[h].holds = {}
         ELSE "type_spec" \notin kinds[k].holds

\* An exported declaration the extractors do not list, a foreign block, the
\* types in a constructor's signature or in a Go alias.
Overlooked == {"export_statement", "foreign_mod_item", "construct_signature", "type_alias"}

(* A definition has no symbol of its own only inside one that has: its text  *)
(* is still in a Symbol chunk.  What the extractors overlook is the          *)
(* exception.                                                                *)
LostOnlyInside ==
  Done("spans") =>
    \A n \in Nodes :
      tree[n].kind \in Definitions[Language] /\ tree[n].form \in Readable(Language, tree[n].kind) =>
        \/ n \in Reported("spans")
        \/ \E a \in Ancestors(n) : a \in Reported("spans") \/ tree[a].kind \in Overlooked

(* The statements that import, and how many modules each of their forms      *)
(* brings in: a group of `use` stands for two.                               *)
Brings ==
  [TypeScript |->
     [import_statement |-> [default |-> 1, default_namespace |-> 1, namespace |-> 1,
                            default_named |-> 1, named |-> 1, empty |-> 1, bare |-> 1,
                            import_require |-> 1],
      call_expression |-> [require |-> 1, dynamic |-> 1, other |-> 0]],
   Rust   |-> [use_declaration |-> [path |-> 1, pub_path |-> 1, group |-> 2, pub_group |-> 2,
                                    glob |-> 1, renamed |-> 1],
               extern_crate_declaration |-> [extern |-> 1],
               mod_item |-> [named |-> 1]],
   Python |-> [import_statement |-> [name |-> 1, names |-> 2, alias |-> 1],
               import_from_statement |-> [names |-> 1, star |-> 1]],
   Go     |-> [import_spec |-> [plain |-> 1, alias |-> 1]],
   Bash   |-> [command |-> [source |-> 1, variable |-> 1, other |-> 0]],
   Java   |-> [import_declaration |-> [path |-> 1]],
   C      |-> [preproc_include |-> [system |-> 1, local |-> 1, macro |-> 1]],
   Ruby   |-> [call |-> [require |-> 1, expression |-> 1, load |-> 1, other |-> 0]],
   Cpp    |-> [preproc_include |-> [system |-> 1, local |-> 1, macro |-> 1]]]

(* The forms among them that no extractor reads: `import x = require()` and   *)
(* import(), every `use` but a plain path, extern crate, a sourced variable,  *)
(* a file name that is a macro or another expression, load.                  *)
Unread ==
  [TypeScript |-> {"import_require", "dynamic"},
   Rust       |-> {"group", "pub_group", "glob", "renamed", "extern"},
   Python |-> {}, Go |-> {}, Bash |-> {"variable"}, Java |-> {}, C |-> {"macro"},
   Ruby |-> {"expression", "load"}, Cpp |-> {"macro"}]

(* These are all the forms, and below an import or use statement is nothing  *)
(* but names, aliases and sources, which the walks do not tell apart.        *)
ASSUME ImportsAssumption ==
  \A g \in DOMAIN Grammars :
    \A k \in DOMAIN Grammars[g].kinds \cap DOMAIN Brings[LanguageOf(g)] :
      /\ Grammars[g].kinds[k].forms \subseteq DOMAIN Brings[LanguageOf(g)][k]
      /\ k \in {"import_statement", "use_declaration"} => Grammars[g].kinds[k].holds = {}

RecordedAt(w, n) == {i \in 1..Len(found[w]) : found[w][i].node = n}

(* Although most extractors go on inside it, an import is recorded once for   *)
(* each module it brings in, if it is written in a form they read.  In one of *)
(* the forms they do not read it is not recorded at all, and neither may it   *)
(* be inside another import: a require in a require's arguments, a use in a   *)
(* Rust module.                                                               *)
ImportsOnce ==
  Done("imports") =>
    \A n \in Nodes : tree[n].kind \in DOMAIN Brings[Language] =>
      LET recorded == RecordedAt("imports", n) IN
      IF tree[n].form \in Unread[Language]
      THEN recorded = {}
      ELSE \/ recorded = {} /\ Ancestors(n) \cap Reported("imports") # {}
           \/ \E i \in 0..Len(found.imports) :
                recorded = i + 1 .. i + Brings[Language][tree[n].kind][tree[n].form]

\* A method of Go has its receiver before the name.
GoReceiver(n) == Language = "Go" /\ tree[n].kind = "method_declaration"

FirstParam(n) == Head(tree[n].params)

\* self, &self or &mut self.
RustReceiver(n) ==
  Language = "Rust" /\ tree[n].params # <<>> /\ FirstParam(n).kind = "self_parameter"

\* self: Box<Self>
RustTypedReceiver(n) ==
  /\ Language = "Rust" /\ tree[n].params # <<>>
  /\ FirstParam(n).kind = "parameter" /\ FirstParam(n).pattern = "self"

\* By convention: the language has no syntax for it.
PythonReceiver(n) ==
  /\ Language = "Python" /\ tree[n].params # <<>>
  /\ FirstParam(n).kind \in {"identifier", "typed_parameter"} /\ FirstParam(n).name = "self"

NamesSelf(p) == p.kind = "self_parameter" \/ p.name = "self"

(* What the chunk of a function is tagged goes by the first parameter the     *)
(* extractors keep (is_method, chunker.rs).  A method: with a receiver in Go, *)
(* a short one in Rust, or one called self in Python, which parser.rs:1743    *)
(* says has plain functions only.  Not a method: with a typed receiver in     *)
(* Rust, which is one.  Otherwise only if some parameter is called self.      *)
MethodsTagged ==
  \A e \in FunctionEntries("spans") :
    LET receives == \/ GoReceiver(e.node)
                    \/ RustReceiver(e.node)
                    \/ PythonReceiver(e.node)
    IN  /\ receives => IsMethod(e.params)
        /\ RustTypedReceiver(e.node) => ~ IsMethod(e.params)
        /\ IsMethod(e.params) =>
             receives \/ \E i \in DOMAIN tree[e.node].params : NamesSelf(tree[e.node].params[i])
=============================================================================
