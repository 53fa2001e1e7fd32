------------------------------ MODULE MCParser ------------------------------
(***************************************************************************)
(* Fragments of the tree-sitter grammars, one for definitions and one for  *)
(* imports and exports of a language: what may hold what, and in which     *)
(* forms.                                                                  *)
(***************************************************************************)
EXTENDS Parser

Kind(forms, holds) == [forms |-> forms, params |-> {<<>>}, holds |-> holds, most |-> 2]
Leaf(forms)        == Kind(forms, {})
WithParams(k, ps)  == [k EXCEPT !.params = ps]
One(k)             == [k EXCEPT !.most = 1]
File(holds)        == [Kind({"none"}, holds) EXCEPT !.most = 3]
Plain(holds)       == Kind({"none"}, holds)
IsNamed(holds)     == Kind({"named"}, holds)

P(kind, name)     == [kind |-> kind, pattern |-> "identifier", name |-> name]
Pattern(kind, pt) == [kind |-> kind, pattern |-> pt, name |-> NoName]

TypescriptDefinitions ==
  LET types == {"class_declaration", "abstract_class_declaration", "interface_declaration"} IN
  [program |-> File(types \cup {"export_statement", "function_declaration", "enum_declaration",
                                 "lexical_declaration"}),
   export_statement |-> One(Plain(types \cup {"function_declaration", "type_alias_declaration",
                                              "lexical_declaration"})),
   class_declaration |-> IsNamed({"method_definition"}),
   abstract_class_declaration |-> IsNamed({"method_definition", "abstract_method_signature"}),
   interface_declaration |-> IsNamed({"method_signature", "call_signature", "construct_signature"}),
   enum_declaration |-> Leaf({"named"}),
   type_alias_declaration |-> IsNamed({"call_signature"}),
   lexical_declaration |-> Plain({"class", "construct_signature"}),
   class |-> Plain({"method_definition"}),
   function_declaration |-> WithParams(IsNamed({"function_declaration"}),
     {<<>>, <<P("required_parameter", "a"), P("rest_pattern", "b")>>}),
   method_definition |-> IsNamed({"function_declaration"}),
   method_signature |-> Leaf({"named"}), abstract_method_signature |-> Leaf({"named"}),
   call_signature |-> Leaf({"anonymous"}), construct_signature |-> One(Kind({"anonymous"}, {"method_signature"}))]

RustDefinitions ==
  [program |-> File({"mod_item", "impl_item", "trait_item", "function_item", "enum_item",
                     "foreign_mod_item"}),
   mod_item |-> IsNamed({"function_item", "struct_item", "trait_item"}),
   impl_item |-> Plain({"function_item"}),
   trait_item |-> IsNamed({"function_signature_item", "function_item"}),
   foreign_mod_item |-> Plain({"function_signature_item"}),
   enum_item |-> IsNamed({"block"}), struct_item |-> Leaf({"named"}),
   block |-> Plain({"function_item"}),
   function_signature_item |-> WithParams(Leaf({"named"}), {<<P("self_parameter", "self")>>}),
   function_item |-> WithParams(IsNamed({"function_item", "struct_item"}),
     {<<P("self_parameter", "self"), P("parameter", "a")>>, <<Pattern("parameter", "self")>>,
      <<Pattern("parameter", "tuple_pattern")>>, <<P("attribute_item", "a")>>})]

PythonDefinitions ==
  [program |-> File({"class_definition", "function_definition", "decorated_definition"}),
   decorated_definition |-> One(Plain({"class_definition", "function_definition"})),
   class_definition |-> IsNamed({"class_definition", "function_definition", "decorated_definition"}),
   function_definition |-> WithParams(IsNamed({"class_definition", "function_definition"}),
     {<<P("identifier", "self")>>, <<P("typed_parameter", "self")>>,
      <<P("keyword_separator", "b"), P("typed_parameter", "a")>>})]

GoDefinitions ==
  [program |-> File({"function_declaration", "method_declaration", "type_declaration"}),
   type_declaration |-> Plain({"type_spec", "type_alias"}), type_alias |-> Leaf({"named"}),
   type_spec |-> Leaf({"struct", "interface", "other"}),
   method_declaration |-> WithParams(IsNamed({"func_literal"}),
     {<<>>, <<P("parameter_declaration", "a")>>, <<P("parameter_declaration", "self")>>}),
   function_declaration |-> WithParams(IsNamed({"func_literal", "type_declaration"}),
     {<<Pattern("parameter_declaration", "none")>>, <<P("parameter_declaration", "self")>>}),
   func_literal |-> Plain({"type_declaration"})]

BashDefinitions ==
  [program |-> File({"function_definition", "if_statement"}),
   if_statement |-> Plain({"function_definition", "if_statement"}),
   function_definition |-> IsNamed({"function_definition", "if_statement"})]

JavaDefinitions ==
  LET types == {"class_declaration", "interface_declaration", "enum_declaration", "record_declaration"}
  IN
  [program |-> File(types),
   class_declaration |-> IsNamed({"class_declaration", "method_declaration", "constructor_declaration"}),
   interface_declaration |-> IsNamed({"method_declaration"}),
   enum_declaration |-> IsNamed({"enum_body_declarations"}),
   enum_body_declarations |-> Plain({"method_declaration"}),
   record_declaration |-> IsNamed({"method_declaration"}),
   constructor_declaration |-> Leaf({"named"}),
   method_declaration |-> WithParams(IsNamed({"class_declaration"}),
     {<<P("formal_parameter", "a")>>, <<P("receiver_parameter", "self"), P("spread_parameter", "b")>>})]

CDefinitions ==
  [program |-> File({"function_definition", "preproc_if"}),
   preproc_if |-> Plain({"function_definition"}),
   function_definition |-> WithParams(Kind({"identifier", "pointer_declarator"}, {"function_definition"}),
     {<<Pattern("parameter_declaration", "none")>>, <<P("parameter_declaration", "self")>>,
      <<P("variadic_parameter", "a")>>})]

RubyDefinitions ==
  [program |-> File({"class", "module", "method"}),
   class |-> IsNamed({"method", "singleton_method", "singleton_class", "class"}),
   module |-> IsNamed({"class", "method"}),
   singleton_class |-> Plain({"method"}),
   singleton_method |-> Leaf({"named"}),
   method |-> WithParams(IsNamed({"method", "do_block"}),
     {<<P("identifier", "a"), Pattern("splat_parameter", "none")>>, <<P("destructured_parameter", "a")>>}),
   do_block |-> Plain({"method"})]

CppDefinitions ==
  [program |-> File({"namespace_definition", "class_specifier", "function_definition",
                     "template_declaration"}),
   namespace_definition |-> Kind({"named"}, {"class_specifier", "function_definition"}),
   template_declaration |-> One(Plain({"struct_specifier", "function_definition"})),
   class_specifier |-> Kind({"named", "anonymous"}, {"function_definition"}),
   struct_specifier |-> IsNamed({"function_definition"}),
   function_definition |-> Kind({"identifier", "field_identifier", "qualified_identifier", "operator_name"},
                                {"class_specifier"})]

TypescriptModules ==
  [program |-> File({"import_statement", "export_statement", "call_expression", "function_declaration"}),
   import_statement |-> Leaf((DOMAIN TypescriptImportClause) \cup {"bare", "import_require"}),
   call_expression |-> Kind({"require", "dynamic", "other"}, {"call_expression"}),
   function_declaration |-> IsNamed({"call_expression"}),
   export_statement |-> One(Kind({"declaration"}, {"function_declaration"}))]

TypescriptExportForms ==
  [program |-> File({"export_statement", "import_statement"}),
   import_statement |-> Leaf({"named"}),
   export_statement |-> Leaf((DOMAIN TypescriptExport) \cup {"none"})]

RustModules ==
  [program |-> File({"use_declaration", "mod_item", "function_item", "extern_crate_declaration"}),
   use_declaration |-> Leaf({"path", "pub_path", "group", "pub_group", "glob", "renamed"}),
   extern_crate_declaration |-> Leaf({"extern"}),
   mod_item |-> IsNamed({"use_declaration", "mod_item"}),
   function_item |-> IsNamed({"use_declaration"})]

PythonModules ==
  [program |-> File({"import_statement", "import_from_statement", "function_definition", "try_statement"}),
   import_statement |-> Leaf({"name", "names", "alias"}),
   import_from_statement |-> Leaf({"names", "star"}),
   try_statement |-> Plain({"import_statement"}),
   function_definition |-> IsNamed({"import_statement", "try_statement"})]

GoModules ==
  [program |-> File({"import_declaration"}),
   import_declaration |-> [Plain({"import_spec"}) EXCEPT !.most = 3],
   import_spec |-> Leaf({"plain", "alias"})]

BashModules ==
  [program |-> File({"command", "declaration_command", "function_definition"}),
   command |-> Kind({"source", "variable", "other"}, {"command", "declaration_command"}),
   declaration_command |-> Kind({"one", "two", "none"}, {"command", "declaration_command"}),
   function_definition |-> IsNamed({"command", "declaration_command"})]

JavaModules ==
  [program |-> File({"import_declaration", "class_declaration"}),
   import_declaration |-> Leaf({"path"}), class_declaration |-> Leaf({"named"})]

CModules ==
  [program |-> File({"preproc_include", "preproc_if", "function_definition"}),
   preproc_if |-> Plain({"preproc_include", "preproc_if"}),
   preproc_include |-> Leaf({"system", "local", "macro"}),
   function_definition |-> Kind({"identifier"}, {"preproc_include"})]

RubyModules ==
  [program |-> File({"call", "class", "method"}),
   call |-> Kind({"require", "expression", "load", "other"}, {"call"}),
   class |-> IsNamed({"call", "method"}), method |-> IsNamed({"call"})]

F(ext, kinds) == [ext |-> ext, kinds |-> kinds]

MCGrammars ==
  [typescript |-> F("tsx", TypescriptDefinitions), typescript_modules |-> F("ts", TypescriptModules),
   typescript_exports |-> F("mts", TypescriptExportForms),
   rust       |-> F("rs", RustDefinitions),        rust_modules       |-> F("rs", RustModules),
   python     |-> F("py", PythonDefinitions),      python_modules     |-> F("py", PythonModules),
   go         |-> F("go", GoDefinitions),          go_modules         |-> F("go", GoModules),
   bash       |-> F("sh", BashDefinitions),        bash_modules       |-> F("bash", BashModules),
   java       |-> F("java", JavaDefinitions),      java_modules       |-> F("java", JavaModules),
   c          |-> F("c", CDefinitions),            c_modules          |-> F("h", CModules),
   ruby       |-> F("rb", RubyDefinitions),        ruby_modules       |-> F("rb", RubyModules),
   cpp        |-> F("cpp", CppDefinitions),        cpp_modules        |-> F("hpp", CModules)]
=============================================================================
