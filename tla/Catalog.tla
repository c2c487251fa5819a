------------------------------- MODULE Catalog -------------------------------
(***************************************************************************)
(* Published product catalogs, and the plans that are frozen against them. *)
(*                                                                         *)
(* An operator imports a reviewed manifest, first as a draft and then as a *)
(* publication, each in one transaction over the catalog and the recipes.  *)
(* A client's request reads, one after the other, the enabled version of a *)
(* template, the published recipe of each of its steps, and the latest     *)
(* published catalog; then the creation freezes the compiled products and  *)
(* the version of that catalog.  Much later a worker, and for a two-step   *)
(* video the materializer, reads the catalog again, by the frozen version, *)
(* and maps the frozen products to the provider's request.                 *)
(***************************************************************************)
EXTENDS Integers, Sequences, FiniteSets

CONSTANTS
    Manifests,        \* reviewed manifests, each identified by its digest
    Versions,         \* versions of catalogs
    Templates, TemplateVersions,
    Products,         \* product keys
    VersionOf,        \* version of a manifest's catalog
    TimeOf,           \* published_at of a manifest's catalog
    Offers,           \* catalog of a manifest: product key -> entry
    RecipesOf,        \* recipes of a manifest: tuple -> recipe
    Creating,         \* creation requests
    NoManifest, NoTemplate

Atoms == {"text_to_image", "image_edit", "image_to_video"}
Selectors == {"local", "b2b"}

\* What a request of each kind makes, step by step.
Plans == [freeform |-> <<"text_to_image">>, image_edit |-> <<"image_edit">>,
          text_to_video |-> <<"text_to_image", "image_to_video">>,
          image_to_video |-> <<"image_to_video">>]
Modes == DOMAIN Plans

Tuples == Templates \X TemplateVersions \X Atoms

Statuses == {"none", "draft", "published"}
Document == [status : Statuses, manifest : Manifests \cup {NoManifest}]
Inputs == {"prompt", "aspect", "image", "duration"}
Compilation == [product : Products, inputs : SUBSET Inputs, framed : BOOLEAN]
RecipeDocument == [product : Products, inputs : SUBSET Inputs, allowed : SUBSET Inputs, framed : BOOLEAN]

ASSUME CatalogAssumption ==
    /\ Versions \subseteq Nat /\ IsFiniteSet(Versions)
    /\ VersionOf \in [Manifests -> Versions] /\ TimeOf \in [Manifests -> Nat]
    /\ \A m \in Manifests : \A u \in DOMAIN RecipesOf[m] : u \in Tuples /\ RecipesOf[m][u] \in RecipeDocument
    /\ NoManifest \notin Manifests

VARIABLES
    catalogs,     \* generation_model_mappings: status and manifest per version
    recipes,      \* generation_product_recipes: status and manifest per tuple
    enabled,      \* enabled versions of each template
    creating      \* where each creation request stands

catalogVars == <<catalogs, recipes, enabled, creating>>
-----------------------------------------------------------------------------
Absent == [status |-> "none", manifest |-> NoManifest]
NoPlan == [at |-> "ready", selector |-> "local", mode |-> "freeform", template |-> NoTemplate,
           version |-> 0, given |-> {}, steps |-> <<>>, mapping |-> NoManifest]

\* The content of a stored document is that of the manifest that wrote it.
EntryOf(m, product) == Offers[m][product]
Proposed(m) == DOMAIN RecipesOf[m]
-----------------------------------------------------------------------------
(* The public contract.                                                    *)

CapabilityInputs(capability) ==
    {"prompt", "aspect"}
      \cup (IF capability # "text_to_image" THEN {"image"} ELSE {})
      \cup (IF capability = "image_to_video" THEN {"duration"} ELSE {})

\* A product as the adapter sees it: the fields of its input, and the image
\* its assets bind.
Fields(product) == product.inputs \cup (IF product.framed THEN {"image"} ELSE {})

\* What an entry accepts.  The base of a deferred second step has no image
\* yet, so neither the image nor its field is asked for.
Accepts(entry, product, deferred) ==
    /\ entry.enabled
    /\ "prompt" \in product.inputs
    /\ (entry.capability # "text_to_image" /\ ~deferred) => product.framed
    /\ entry.capability = "image_to_video" => "duration" \in product.inputs
    /\ Fields(product) \subseteq entry.inputs
    /\ Fields(product) \subseteq CapabilityInputs(entry.capability)

ValidateProduct(m, product, capability) ==
    /\ EntryOf(m, product.product).capability = capability
    /\ Accepts(EntryOf(m, product.product), product, FALSE)

ValidateDeferred(m, product, capability) ==
    /\ capability = "image_to_video"
    /\ ~product.framed
    /\ EntryOf(m, product.product).capability = capability
    /\ Accepts(EntryOf(m, product.product), product, TRUE)

\* A user's fields replace the recipe's, when the recipe allows them; an image
\* may be bound once.
Compilable(recipe, given, image) ==
    /\ given \subseteq recipe.allowed
    /\ ~(recipe.framed /\ image)

Compiled(recipe, given, image) ==
    [product |-> recipe.product, inputs |-> recipe.inputs \cup given,
     framed |-> recipe.framed \/ image]

Bound(product) == [product EXCEPT !.framed = TRUE]
-----------------------------------------------------------------------------
(* The import.                                                             *)

\* A catalog needs an enabled entry, and a recipe an enabled entry of its own
\* capability that covers what its users may give.
ValidManifest(m) ==
    /\ \E p \in Products : EntryOf(m, p).enabled
    /\ Proposed(m) # {}
    /\ \A u \in Proposed(m) :
          LET recipe == RecipesOf[m][u]
              entry == EntryOf(m, recipe.product)
              base == [product |-> recipe.product, inputs |-> recipe.inputs,
                       framed |-> recipe.framed]
          IN  /\ entry.enabled /\ entry.capability = u[3]
              /\ recipe.allowed \subseteq entry.inputs
              /\ \/ ValidateProduct(m, base, u[3])
                 \/ ValidateDeferred(m, base, u[3])

Draft(m) == [status |-> "draft", manifest |-> m]

SameCatalog(v, m) ==
    /\ Offers[catalogs[v].manifest] = Offers[m]
    /\ TimeOf[catalogs[v].manifest] = TimeOf[m]

SameRecipe(u, m) == RecipesOf[recipes[u].manifest][u] = RecipesOf[m][u]

StoredBy(m) == {u \in Tuples : recipes[u].manifest = m}

\* A mutant: an import that compares what the documents say, and takes no
\* notice of their status or of who wrote them.
ReplaceableAlike(document, m) == document.status \in Statuses

\* A document may be written by the import of a manifest.
Replaceable(document, m) == document \in {Absent, Draft(m)}

\* Inserts what is absent; what is there must be this manifest's draft, and
\* anything else aborts the transaction.  A manifest that is published already
\* is only verified.
ImportDraft(m) ==
    LET v == VersionOf[m]
    IN  /\ ValidManifest(m)
        /\ Replaceable(catalogs[v], m) /\ (catalogs[v] # Absent => SameCatalog(v, m))
        /\ \A u \in Proposed(m) :
              Replaceable(recipes[u], m) /\ (recipes[u] # Absent => SameRecipe(u, m))
        /\ catalogs' = [catalogs EXCEPT ![v] = Draft(m)]
        /\ recipes' = [u \in Tuples |-> IF u \in Proposed(m) THEN Draft(m) ELSE recipes[u]]
        /\ UNCHANGED <<enabled, creating>>

\* A draft of this manifest, or a recipe that it has published already.
Publishable(document, m) == document.manifest = m /\ document.status \in {"draft", "published"}

Publish(m) ==
    LET v == VersionOf[m]
    IN  /\ ValidManifest(m)
        /\ catalogs[v] = Draft(m)
        /\ \A u \in Proposed(m) : SameRecipe(u, m) /\ Publishable(recipes[u], m)
        /\ catalogs' = [catalogs EXCEPT ![v].status = "published"]
        /\ recipes' = [u \in Tuples |-> IF u \in Proposed(m)
                                       THEN [recipes[u] EXCEPT !.status = "published"] ELSE recipes[u]]
        /\ UNCHANGED <<enabled, creating>>

\* Which version of a template is on is settled outside these programs.
EnableVersion(t, v) ==
    /\ enabled' = [enabled EXCEPT ![t] = IF v \in @ THEN @ \ {v} ELSE @ \cup {v}]
    /\ UNCHANGED <<catalogs, recipes, creating>>
-----------------------------------------------------------------------------
(* A request.                                                              *)

NewRequest(c, plan) == creating' = [creating EXCEPT ![c] = plan]
Refused(c) == NewRequest(c, [NoPlan EXCEPT !.at = "refused"])
Stored == UNCHANGED <<catalogs, recipes, enabled>>

NeedsImage(mode) == mode \in {"image_edit", "image_to_video"}

\* Exactly one version of the template must be enabled, and an image must be
\* the user's own.
LoadTemplate(c, selector, mode, t, given) ==
    /\ creating[c].at = "ready"
    /\ \/ \E v \in enabled[t] :
             /\ enabled[t] = {v}
             /\ NewRequest(c, [NoPlan EXCEPT !.at = "template", !.selector = selector,
                               !.mode = mode, !.template = t, !.version = v, !.given = given])
       \/ (Cardinality(enabled[t]) # 1 \/ NeedsImage(mode)) /\ Refused(c)
    /\ Stored

\* The four entry points read the template each in its own way.
LoadFreeform(c, selector, t, given) == LoadTemplate(c, selector, "freeform", t, given)
LoadImageEdit(c, selector, t, given) == LoadTemplate(c, selector, "image_edit", t, given)
LoadTemplateVideo(c, selector, mode, t, given) ==
    mode \in {"text_to_video", "image_to_video"} /\ LoadTemplate(c, selector, mode, t, given)

\* With the local simulator the technical recipe of the template is compiled
\* and no catalog is read; one that does not compile is refused.
CreateLocal(c) ==
    /\ creating[c].at = "template" /\ creating[c].selector = "local"
    /\ \/ NewRequest(c, [creating[c] EXCEPT !.at = "created", !.steps = <<>>])
       \/ Refused(c)
    /\ Stored

\* Which of the given fields a step's compilation passes on.
TextToVideoOverrides(atom) == IF atom = "text_to_image" THEN {"prompt"} ELSE {"duration"}
ImageToVideoOverrides == {"duration"}
Overrides(c, atom) ==
    CASE creating[c].mode = "text_to_video" -> TextToVideoOverrides(atom)
      [] creating[c].mode = "image_to_video" -> ImageToVideoOverrides
      [] OTHER -> creating[c].given

\* The next recipe: the published one of the template's version and the atom.
LoadRecipe(c) ==
    /\ creating[c].at = "template" /\ creating[c].selector = "b2b"
    /\ LET plan == creating[c]
           atom == Plans[plan.mode][Len(plan.steps) + 1]
           u == <<plan.template, plan.version, atom>>
           recipe == RecipesOf[recipes[u].manifest][u]
           image == NeedsImage(plan.mode)
       IN  /\ Len(plan.steps) < Len(Plans[plan.mode])
           /\ IF /\ recipes[u].status = "published"
                 /\ Compilable(recipe, Overrides(c, atom), image)
              THEN NewRequest(c, [plan EXCEPT !.steps =
                                     Append(@, Compiled(recipe, Overrides(c, atom), image))])
              ELSE Refused(c)
    /\ Stored

\* The latest publication, by the time its manifest states and then by version.
Published == {v \in Versions : catalogs[v].status = "published"}
Latest == CHOOSE v \in Published : \A w \in Published :
              LET time(x) == TimeOf[catalogs[x].manifest]
              IN  time(w) < time(v) \/ (time(w) = time(v) /\ w <= v)

\* Every step of a plan is admitted against one reading of the catalog; the
\* second step of a two-step plan is a deferred one.
Admissible(plan, v) ==
    \A k \in DOMAIN plan.steps :
        LET capability == Plans[plan.mode][k]
        IN  IF k = 2 THEN ValidateDeferred(catalogs[v].manifest, plan.steps[k], capability)
            ELSE ValidateProduct(catalogs[v].manifest, plan.steps[k], capability)

CreateB2B(c) ==
    /\ creating[c].at = "template" /\ creating[c].selector = "b2b"
    /\ Len(creating[c].steps) = Len(Plans[creating[c].mode])
    /\ IF Published # {} /\ Admissible(creating[c], Latest)
       THEN NewRequest(c, [creating[c] EXCEPT !.at = "created", !.mapping = Latest])
       ELSE Refused(c)
    /\ Stored
-----------------------------------------------------------------------------
(* Much later: the frozen products meet the catalog of the frozen version. *)

Mappable(plan, product) ==
    /\ catalogs[plan.mapping].status = "published"
    /\ LET m == catalogs[plan.mapping].manifest
       IN  ValidateProduct(m, product, EntryOf(m, product.product).capability)

\* The submission worker maps the first step; a product it cannot map is
\* rejected after the user has paid.
SubmitFirst(c) ==
    /\ creating[c].at = "created" /\ creating[c].selector = "b2b"
    /\ NewRequest(c, [creating[c] EXCEPT !.at =
            IF Mappable(creating[c], creating[c].steps[1]) THEN "first" ELSE "unmappable"])
    /\ Stored

\* The materializer binds the first step's image as the opening frame of the
\* second and maps the result before it lets that step go.
ActivateSecond(c) ==
    /\ creating[c].at = "first" /\ Len(creating[c].steps) = 2
    /\ NewRequest(c, [creating[c] EXCEPT !.at =
            IF Mappable(creating[c], Bound(creating[c].steps[2])) THEN "second" ELSE "stranded"])
    /\ Stored
-----------------------------------------------------------------------------
CatalogInit ==
    /\ catalogs = [v \in Versions |-> Absent]
    /\ recipes = [u \in Tuples |-> Absent]
    /\ enabled = [t \in Templates |-> {}]
    /\ creating = [c \in Creating |-> NoPlan]

CatalogNext ==
    \/ \E m \in Manifests : ImportDraft(m) \/ Publish(m)
    \/ \E t \in Templates, v \in TemplateVersions : EnableVersion(t, v)
    \/ \E c \in Creating :
          \/ \E selector \in Selectors, t \in Templates, given \in SUBSET {"prompt", "aspect"} :
               \/ LoadFreeform(c, selector, t, given) \/ LoadImageEdit(c, selector, t, given)
               \/ \E mode \in Modes : LoadTemplateVideo(c, selector, mode, t, given)
          \/ CreateLocal(c) \/ LoadRecipe(c) \/ CreateB2B(c)
          \/ SubmitFirst(c) \/ ActivateSecond(c)

CatalogSpec == CatalogInit /\ [][CatalogNext]_catalogVars
-----------------------------------------------------------------------------
CatalogTypeOK ==
    /\ catalogs \in [Versions -> Document]
    /\ recipes \in [Tuples -> Document]
    /\ enabled \in [Templates -> SUBSET TemplateVersions]
    /\ \A c \in Creating :
          LET plan == creating[c]
          IN  /\ plan.at \in {"ready", "template", "refused", "created", "first", "second",
                              "unmappable", "stranded"}
              /\ plan.selector \in Selectors /\ plan.mode \in Modes
              /\ plan.template \in Templates \cup {NoTemplate}
              /\ plan.given \subseteq Inputs
              /\ Len(plan.steps) <= Len(Plans[plan.mode])
              /\ \A k \in DOMAIN plan.steps : plan.steps[k] \in Compilation
              /\ plan.mapping \in Versions \cup {NoManifest}

\* A product that was validated as it stands when the user paid can still be
\* mapped when the worker sends it, whatever was imported in between: the
\* catalog of the frozen version is still there and still says the same.
FrozenMappable == \A c \in Creating : creating[c].at # "unmappable"

\* A publication is whole: while the catalog of a manifest is published so is
\* every recipe of it, as that manifest wrote it, no other document carries
\* the manifest, and no recipe is published without its catalog.
PublishedWhole ==
    \A m \in Manifests :
        LET whole == [status |-> "published", manifest |-> m]
        IN  /\ catalogs[VersionOf[m]] = whole =>
                  StoredBy(m) = Proposed(m) /\ \A u \in Proposed(m) : recipes[u] = whole
            /\ (\E u \in Tuples : recipes[u] = whole) => catalogs[VersionOf[m]] = whole

\* What the importer and the admissions owe each other.
CatalogSafe == FrozenMappable /\ PublishedWhole
=============================================================================
