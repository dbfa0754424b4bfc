------------------------- MODULE MCEngineSupervisor -------------------------
(* EngineSupervisor with clangd, which serves two languages, and ty, which *)
(* serves one, and two threads, one of which handles initialize.           *)
EXTENDS EngineSupervisor

MCPacks          == {"clangd", "python"}
MCLanguages      == {"c", "cpp", "python"}
MCLanguageOf     == [p \in MCPacks |-> IF p = "clangd" THEN "c" ELSE "python"]
MCExtraLanguages == [p \in MCPacks |-> IF p = "clangd" THEN {"cpp"} ELSE {}]
MCCapabilities   == {"definition", "hover"}
MCCapabilitiesOf == [p \in MCPacks |-> IF p = "clangd" THEN {"definition"}
                                       ELSE {"definition", "hover"}]
=============================================================================
