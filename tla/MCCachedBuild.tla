---------------------------- MODULE MCCachedBuild ----------------------------
(***************************************************************************)
(* CachedBuild for TLC.  One RST file with a literally included file and an *)
(* image, one with OpenAPI by path and by URL and a shared include; an     *)
(* extract that inherits from another, and a file of steps.                *)
(***************************************************************************)
EXTENDS CachedBuild

CONSTANTS index, api, child, base, steps, code, image

MCRstFiles == {index, api}
MCYamlFiles == {child, base, steps}
MCAssets == {code, image}
MCRefs ==
    [f \in MCRstFiles \cup MCYamlFiles |->
        CASE f = index -> {<<code, "literalinclude">>, <<image, "image">>}
          [] f = api   -> {<<code, "remote">>, <<image, "openapi">>, <<code, "sharedinclude">>}
          [] f = child -> {<<image, "image">>}
          [] f = base  -> {}
          [] f = steps -> {<<code, "literalinclude">>}]
MCCategories == {"extracts", "steps"}
MCCategory == [f \in MCYamlFiles |-> IF f = steps THEN "steps" ELSE "extracts"]
MCParent == [f \in MCYamlFiles |-> IF f = child THEN base ELSE None]
=============================================================================
