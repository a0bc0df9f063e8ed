---------------------------- MODULE MCRstStates ----------------------------
(***************************************************************************)
(* Documents for RstStates: every document of a few lines over small       *)
(* alphabets, and longer ones that reach what those cannot.                *)
(***************************************************************************)
EXTENDS RstStates

LOCAL INSTANCE SequencesExt

Mark(t, c, w, u) == [t |-> t, c |-> c, w |-> w, u |-> u]
text   == Mark("text", "", 5, 0)
narrow == Mark("text", "", 3, 0)
wide   == Mark("text", "", 7, 0)
colons == Mark("text", "::", 5, 0)
bullet == Mark("bullet", "-", 2, 1)
star   == Mark("bullet", "*", 2, 1)
one    == Mark("enumerator", "1.", 3, 0)
two    == Mark("enumerator", "2.", 3, 0)
dim    == Mark("enumerator", "dim.", 5, 0)
field  == Mark("field_marker", "f", 4, 0)
class  == Mark("field_marker", "class", 8, 0)
option == Mark("option_marker", "-o", 4, 0)
pipe   == Mark("line_block", "|", 2, 1)
prompt == Mark("doctest", ">>>", 5, 0)
anonym == Mark("anonymous", "__", 4, 0)
Explicitly(c, w) == Mark("explicit_markup", c, w, 0)
comment == Mark("explicit_markup", "comment", 3, 2)
note   == Explicitly("note", 10)
added  == Explicitly("versionadded", 18)
code   == Explicitly("code-block", 16)
folded == Explicitly("collapsible", 17)
replace == Explicitly("replace", 13)
subst  == Explicitly("substitution", 7)
rule(c, u) == Mark("line", c, u, u)

(* A line: its indentation and its marks. *)
L(ind, m) == [ind |-> ind, m |-> m]
blank == L(0, <<>>)
t     == L(0, <<text>>)
in(m) == L(3, <<m>>)
R(c, u) == L(0, <<rule(c, u)>>)

Numbered(lines) == [i \in DOMAIN lines |-> [n |-> i] @@ lines[i]]
UpTo(S, n) == UNION {[1 .. k -> S] : k \in 1 .. n}

TitleLines == {blank, t, R("=", 5), R("-", 5)}
BlockLines == {blank, t, L(2, <<text>>), L(0, <<bullet, text>>), L(0, <<one, text>>),
               L(0, <<note, text>>), L(0, <<comment, text>>), L(0, <<colons>>)}
MarkedLines == {blank, L(3, <<text>>), L(0, <<star, bullet, text>>), L(0, <<two, text>>),
                L(0, <<field>>), L(0, <<field, text>>), L(0, <<option, text>>), L(0, <<option>>),
                L(0, <<pipe, text>>), L(0, <<prompt>>), L(0, <<anonym>>),
                L(0, <<Explicitly("footnote", 7), text>>), L(0, <<Explicitly("target", 9)>>),
                L(0, <<Explicitly("malformed target", 8)>>), L(0, <<subst, text>>),
                L(0, <<subst, replace, text>>), L(0, <<Explicitly("unknown directive", 9)>>),
                L(0, <<code, text>>), L(0, <<added, text>>), L(0, <<replace, text>>), R("=", 3)}

Overlined(c, u) == <<R(c, u), t, R(c, u)>>
Titled(c)       == <<t, R(c, 5)>>
Short(c)        == <<R(c, 3), L(0, <<narrow>>), R(c, 3)>>
b == <<blank>>

Longer ==
    {Overlined("=", 5) \o Overlined("-", 5) \o b \o <<t>> \o b \o Overlined("=", 5) \o <<t>>,
     Titled("=") \o Titled("-") \o Titled("~") \o <<t>> \o b \o Titled("=") \o Titled("~") \o <<t>>,
     Overlined("=", 5) \o Titled("=") \o Titled("-") \o Overlined("=", 5) \o b \o <<t>>,
     Titled("=") \o Short("-") \o <<L(0, <<added, text>>)>> \o b \o <<in(text), in(rule("=", 5))>> \o b \o <<t>>,
     Titled("=") \o Titled("-") \o Short("~") \o <<t>> \o b \o Titled("=") \o <<t>>,
     Titled("=") \o Short("-") \o <<t>> \o b \o b \o Titled("=") \o <<t>>, Short("=") \o Short("-") \o Short("="),
     <<R("=", 3), t, t, R("=", 3), t>>, <<R("=", 5), L(0, <<wide>>), R("=", 5), t>>,
     <<L(0, <<wide>>), R("=", 5), in(wide), in(rule("=", 5)), t>>,
     Titled("=") \o <<L(0, <<note>>)>> \o b \o <<in(text), in(rule("-", 5)), in(text)>> \o b \o Titled("-") \o <<t>>,
     Titled("=") \o <<L(0, <<note>>)>> \o b \o <<in(text), in(rule("=", 5)), in(text)>> \o b \o <<t>>,
     <<L(0, <<note, text>>), in(class)>> \o b \o <<in(text)>>,
     <<L(0, <<note, text>>), in(text)>> \o b \o <<in(text), t>>,
     <<L(0, <<folded, text>>), in(class)>> \o b \o <<in(text), in(bullet), t>>,
     <<L(0, <<folded>>), in(text), in(class)>> \o b \o <<in(text)>> \o b \o <<in(note), L(6, <<text>>)>>,
     <<L(0, <<note, text>>), in(field)>> \o b \o <<in(text), t>>,
     <<L(0, <<subst, replace, text>>), t>>, <<L(0, <<subst, replace, text>>), in(text)>> \o b \o <<in(bullet), t>>,
     <<L(0, <<subst, text>>), in(text)>>, <<L(0, <<subst>>), in(note)>> \o b \o <<L(6, <<text>>)>>,
     <<L(0, <<dim, text>>), t>>, <<L(0, <<one, text>>), L(0, <<two, text>>), t>>,
     <<L(0, <<one, text>>), L(0, <<two, text>>), L(0, <<dim, text>>)>>,
     <<t, in(text), t, in(text)>> \o b \o <<t, in(colons)>>}

MCDocuments ==
    {Numbered(d) : d \in UpTo(TitleLines, 6) \cup UpTo(BlockLines, 4) \cup UpTo(MarkedLines, 2)
                          \cup Longer}

(* A section of the enclosing level in a version directive, and an argument of two lines. *)
LossyDocuments ==
    {Numbered(d) : d \in
        {Titled("=") \o <<L(0, <<added, text>>)>> \o b \o <<in(text), in(rule("=", 5)), in(text)>> \o b \o <<t>>,
         <<L(0, <<note, text>>), in(text), in(class)>>} \cup UpTo(BlockLines, 3)}

MCEnumerators ==
    "1." :> [fmt |-> "period", ords |-> [arabic |-> 1]] @@
    "2." :> [fmt |-> "period", ords |-> [arabic |-> 2]] @@
    "dim." :> [fmt |-> "period", ords |-> [lowerroman |-> 0]]

MCDirectives ==
    "note" :> [args |-> "optional", options |-> {"class"}, content |-> TRUE, run |-> "block"] @@
    "collapsible" :> [args |-> "none", options |-> {"class"}, content |-> TRUE, run |-> "block"] @@
    "versionadded" :> [args |-> "required", options |-> {}, content |-> TRUE, run |-> "version"] @@
    "code-block" :> [args |-> "optional", options |-> {"class"}, content |-> TRUE, run |-> "code"] @@
    "replace" :> [args |-> "none", options |-> {}, content |-> TRUE, run |-> "replace"]
=============================================================================
