--------------------------- MODULE MCPolicyPipeline ---------------------------
(* Instances of PolicyPipeline for TLC: four policies with the properties  *)
(* the catalog gives function_void_params, declaration_alignment,          *)
(* include_order and clang_format, in an order in which the priority rises *)
(* and falls, and lines that are well-formed in two ways or wrong: line 2  *)
(* for both parsers, line 1 for tree-sitter only.                          *)
EXTENDS PolicyPipeline

CONSTANTS voids, includes, align, format

MCStages == << voids, align, includes, format >>
MCPriority ==
  [p \in Policies |-> CASE p = includes -> 900 [] p = align -> 950 [] p = format -> 1000 [] OTHER -> 700]

BadLines(text) == {l \in Lines : text[l] = "bad"}
WrongLines(text) == BadLines(text) \ {1}
=============================================================================
