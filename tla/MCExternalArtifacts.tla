------------------------- MODULE MCExternalArtifacts -------------------------
(* An instance of ExternalArtifacts for TLC: one artifact of either schema *)
(* per way to pass, to fail and to hide a failure.                         *)
EXTENDS ExternalArtifacts, TLC

AnyProcess == Permutations(Verifiers)

From(repo) == [there |-> TRUE, repo |-> repo, commit_ok |-> TRUE]
Nowhere == [there |-> FALSE, repo |-> NoRepo, commit_ok |-> FALSE]

Catalogued(id, status) ==
  [object |-> TRUE, claim_id |-> id, named |-> TRUE, status |-> status,
   provenance |-> From("a"), verified |-> TRUE,
   project_check |-> "passed", declaration_check |-> "not_applicable"]

Entry(id, status) ==
  [object |-> TRUE, claim_id |-> id, status |-> status, provenance |-> From("a"),
   locators |-> TRUE, evidence |-> {"calculation"}, assumptions |-> TRUE, limitations |-> FALSE,
   falsifiable |-> TRUE, scope |-> TRUE, current_result |-> "failed"]

Catalogue(claims) ==
  [schema |-> "leibniz", listed |-> TRUE, claims |-> claims,
   document_provenance |-> From("a"), generation_ok |-> FALSE]

Atlas(claims, prov) ==
  [schema |-> "resnova", listed |-> TRUE, claims |-> claims,
   document_provenance |-> prov, generation_ok |-> TRUE]

GoodCatalogue == Catalogue(<<Catalogued("x", "proved"), Catalogued("y", "informal")>>)

(* The second claim fails, by itself or next to the first.                 *)
BadCatalogues ==
  {Catalogue(<<Catalogued("x", "proved"), c>>) :
     c \in {[Catalogued("y", "proved") EXCEPT !.declaration_check = "unavailable"],
            [Catalogued("y", "informal") EXCEPT !.object = FALSE],
            Catalogued("x", "informal")}}

(* Of two atlases without provenance of their own, one names a majority.   *)
Atlases ==
  {Atlas(<<Entry("x", "derived"), Entry("y", "refuted")>>, From("a")),
   Atlas(<<Entry("x", "derived"), [Entry("y", "refuted") EXCEPT !.evidence = {}]>>, From("a")),
   Atlas(<<[Entry("x", "open") EXCEPT !.provenance = From("b")], Entry("y", "open")>>, Nowhere),
   Atlas(<<[Entry("x", "open") EXCEPT !.provenance = From("")], Entry("y", "open")>>, Nowhere)}

ExternalTexts ==
  {GoodCatalogue, [GoodCatalogue EXCEPT !.listed = FALSE, !.claims = <<>>],
   [GoodCatalogue EXCEPT !.schema = "rytt"]} \cup BadCatalogues \cup Atlases

SomeNewTexts == {GoodCatalogue}

Ask(expected, match, output, overwrite) ==
  [policy |-> [expected |-> expected, match |-> match], output |-> output,
   overwrite |-> overwrite]

SomeRequests ==
  {Ask("", TRUE, "derived", FALSE), Ask("a", FALSE, "derived", TRUE), Ask("", TRUE, "file", FALSE)}
=============================================================================
