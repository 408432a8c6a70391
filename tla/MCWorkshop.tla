------------------------------ MODULE MCWorkshop ------------------------------
EXTENDS WorkshopProps, TLC

CONSTANTS p1, p2, b1, c1, d1

Same == Permutations(Commands)

\* Two commands and the editor; a command beside the architect; a command of beta and the
\* editor, or the designer.
TheBudget ==
    {p1, p2, User}  :> 4 @@
    {Architect, p1} :> 3 @@
    {Architect, p2} :> 3 @@
    {b1, User}      :> 5 @@
    {Designer, b1}  :> 2

TheCasts == DOMAIN TheBudget

ThePhases == Architect :> AlphaPhases @@ Designer :> BetaPhases

\* Only the last phases, as any phase may bring any block.
TheSpoken == Architect :> {6} @@ Designer :> {5, 6}
Messages  == Architect :> 2 @@ Designer :> 4

Block(module, category) == [module |-> module, category |-> category]

\* Each file that Load reads, tagged with its own module or the other; in either session some
\* go apart.
TheDrafts ==
    {<<>>, <<Block("alpha", "schema"), Block("beta", "style_rules")>>,
     <<Block("alpha", "rules"), Block("alpha", "render_vocab")>>,
     <<Block("beta", "compat")>>, <<Block("alpha", "alpha_manifest"), Block("beta", "beta_manifest")>>}

\* A good schema, and what does not lint; a draft again; the defaults.
TheTexts ==
    Architect :> {<<"schema", c1>>, <<"rules", "flawed">>, <<"compat", "flawed">>,
                  <<"manifest", Manifest("draft", NoBook)>>} @@
    Designer  :> {<<"rules", d1>>, <<"vocab", DefaultVocab>>, <<"manifest", BetaManifest("draft", ZeroBook)>>}

\* The user also deletes, puts right again, and writes versions nobody made.
TheEdits ==
    Architect :> {<<"rules", "flawed">>, <<"compat", "none">>, <<"compat", c1>>,
                  <<"manifest", Manifest("absent", NoBook)>>, <<"manifest", Manifest("v1", NoBook)>>} @@
    Designer  :> {<<"rules", d1>>, <<"vocab", d1>>, <<"manifest", BetaManifest("absent", ZeroBook)>>,
                  <<"manifest", BetaManifest("v1", ZeroBook)>>}
===============================================================================
