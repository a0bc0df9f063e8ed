----------------------------- MODULE MCProject -----------------------------
(***************************************************************************)
(* Project for TLC: two RST files that show an image and a chart in all    *)
(* texts but the third, the second of which the parser raises at; an asset *)
(* that no page shows; and one extract that files of both categories       *)
(* inherit from, which is what it takes for its update to get past the     *)
(* graphs. Its first text makes two pages, the last of which shows the     *)
(* chart, and its second none; the extract that inherits from it makes     *)
(* none at first.                                                          *)
(***************************************************************************)
EXTENDS Project, TLC

CONSTANTS a, b, base, child, step, e1, e2, e3, s1, image, chart, unused,
          extracts, steps

MCRstFiles == {a, b}
MCYamlFiles == {base, child, step}
MCAssets == {image, chart, unused}
MCCategories == {extracts, steps}
MCCategory == [f \in MCYamlFiles |-> IF f = step THEN steps ELSE extracts]
MCParent == [f \in MCYamlFiles |-> IF f = base THEN None ELSE base]
MCOutputs ==
    [p \in MCYamlFiles \X (1..(MaxEdits + 1)) |->
        CASE p[1] = base -> (CASE p[2] = 1 -> <<e1, e2>> [] p[2] = 2 -> <<>> [] OTHER -> <<e2>>)
          [] p[1] = child -> IF p[2] = 1 THEN <<>> ELSE <<e3>>
          [] p[1] = step -> <<s1>>]
MCShows ==
    [p \in {a, b, e1, e2, s1} \X (1..(MaxEdits + 1)) |->
        CASE p[1] \in {a, b} -> IF p[2] = 3 THEN {} ELSE {image, chart}
          [] p[1] = e2 -> {chart}
          [] OTHER -> {}]
MCUnparsable == {a, b} \X {2}

\* The RST files are alike, and the properties are all safety.
MCSymmetry == Permutations({a, b})
=============================================================================
