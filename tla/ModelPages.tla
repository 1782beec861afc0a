------------------------------ MODULE ModelPages ------------------------------
(***************************************************************************)
(* The pages of the models: listings with free-form names are grouped by a *)
(* canonical key, a group gets the slug of its best name, and a slug leads *)
(* back to a listing of the group (src/src/handlers/model-detail.ts,       *)
(* models.ts, src/src/db/explorer-market.ts, src/src/db/sync.ts).  A name  *)
(* is kept by what the key, the slug and the choice tell apart:            *)
(*   org    "" or an org before it, set off by a "slash" or as a "word"    *)
(*   word   what is left of it, in lower case                              *)
(*   joint  what joins its parts: " ", "-", or "+", which the key keeps    *)
(*   caps   whether it has capitals                                        *)
(*   rank   its place by length, then alphabet                             *)
(***************************************************************************)
EXTENDS Integers, FiniteSets, FiniteSetsExt, Sequences, SequencesExt

CONSTANTS
  Ids,        \* the ids of listings
  Names,      \* the names they are registered under
  Curated,    \* the canonical names an admin gives
  MaxEdits,   \* bound on the edits of an admin
  NoName      \* the column is NULL

VARIABLES
  models,  \* the rows of models with a name, in the order of the table
  edits

modelVars == <<models, edits>>

ModelsInit == models = <<>> /\ edits = 0

ModelRows    == Range(models)
RowOf(id) == CHOOSE i \in DOMAIN models : models[i].id = id

Known(id) == \E r \in ModelRows : r.id = id

\* First seen in a second another listing may share.
Listing(id, name, family, canonical) ==
  [id |-> id, name |-> name, family |-> family, canonical |-> canonical, created |-> Len(models) \div 2]

\* ON CONFLICT DO UPDATE SET name: what an admin has curated stays.
Refreshed(id, name) == [models EXCEPT ![RowOf(id)].name = name]

\* upsertModelStmt: discovery resolves a listing's name, for the first time or again.
Discover(id, name) ==
  /\ models' = IF Known(id) THEN Refreshed(id, name)
               ELSE Append(models, Listing(id, name, NoName, NoName))
  /\ UNCHANGED edits

Coalesce(new, old) == IF new = NoName THEN old ELSE new

\* upsertModel: an admin's edit; null leaves the family and the canonical name.
Edit(id, name, family, canonical) ==
  /\ edits < MaxEdits /\ edits' = edits + 1
  /\ models' =
       IF Known(id)
       THEN [models EXCEPT ![RowOf(id)].name = name,
                           ![RowOf(id)].family = Coalesce(family, @),
                           ![RowOf(id)].canonical = Coalesce(canonical, @)]
       ELSE Append(models, Listing(id, name, family, canonical))

ModelsNext == \E id \in Ids, name \in Names :
  \/ Discover(id, name)
  \/ \E family \in {NoName, "curated"}, canonical \in Curated \union {NoName} :
       Edit(id, name, family, canonical)
-----------------------------------------------------------------------------
\* canonicalModelKey: orgs, case, separators and flags are dropped.
canonicalModelKey(name) == <<name.word, name.joint = "+">>

Effective(r) == IF r.canonical # NoName THEN r.canonical ELSE r.name
effectiveCanonicalKey(r) == canonicalModelKey(Effective(r))
effectiveFamilyKey(r)    == IF r.family # NoName THEN r.family ELSE Effective(r).word

Score(name) == (IF name.org # "slash" THEN 4 ELSE 0)
             + (IF name.joint = " " \/ name.org = "word" THEN 2 ELSE 0)
             + (IF name.caps THEN 1 ELSE 0)

Better(r, q) ==
  \/ Score(r.name) > Score(q.name)
  \/ /\ Score(r.name) = Score(q.name)
     /\ \/ r.created < q.created
        \/ r.created = q.created /\ r.name.rank <= q.name.rank

\* displayNameFor: the first curated name in the table's order, else the best spelt.
displayNameFor(group) ==
  IF \E r \in group : r.canonical # NoName
  THEN LET first == CHOOSE i \in DOMAIN models : models[i] \in group /\ models[i].canonical # NoName
                      /\ \A j \in 1 .. i - 1 : models[j] \in group => models[j].canonical = NoName
       IN models[first].canonical
  ELSE (CHOOSE r \in group : \A q \in group : Better(r, q)).name

\* modelSlug: every separator becomes a hyphen, and an org stays.
modelSlug(name) == <<name.org # "", name.word>>

GroupOf(key)   == {r \in ModelRows : effectiveCanonicalKey(r) = key}
Keys           == {effectiveCanonicalKey(r) : r \in ModelRows}
SlugOf(group)  == modelSlug(displayNameFor(group))
FirstSeen(group) == Min({r.created : r \in group})

\* buildSlugMap: of the groups that share a slug the one seen first has it.
OwnerOf(slug) ==
  LET sharing == {key \in Keys : SlugOf(GroupOf(key)) = slug} IN
  CHOOSE key \in sharing : \A other \in sharing : FirstSeen(GroupOf(key)) <= FirstSeen(GroupOf(other))

\* listModelSlugs, and resolveModelSlug: the newest listing of the group.
listModelSlugs == {SlugOf(GroupOf(key)) : key \in Keys}
resolveModelSlug(slug) ==
  CHOOSE r \in GroupOf(OwnerOf(slug)) : \A q \in GroupOf(OwnerOf(slug)) : r.created >= q.created

\* Mutant: the page gathers the listings by their own names, whatever was curated.
Members_byName(r) == {q \in ModelRows : q = r \/ canonicalModelKey(q.name) = canonicalModelKey(r.name)}

\* handleModelDetail: the listings of the model's group.
Members(r) == {q \in ModelRows : q = r \/ effectiveCanonicalKey(q) = effectiveCanonicalKey(r)}

\* The page's own slug; NoName where an older group has it.
ownedSlug(r) ==
  LET slug == SlugOf(Members(r)) IN
  IF slug \in listModelSlugs /\ OwnerOf(slug) = effectiveCanonicalKey(r) THEN slug ELSE NoName

Family(r) == {q \in ModelRows : effectiveFamilyKey(q) = effectiveFamilyKey(r)}
Siblings(r, key) == {q \in Family(r) : effectiveCanonicalKey(q) = key}

\* slugFor: the link to a sibling model, which its id replaces where it owns no slug.
slugFor(r, key) == LET slug == SlugOf(Siblings(r, key)) IN
  IF slug \in listModelSlugs /\ OwnerOf(slug) = key THEN slug ELSE NoName
-----------------------------------------------------------------------------
ModelsTypeOK ==
  /\ \A r \in ModelRows : r.id \in Ids /\ r.name \in Names /\ r.canonical \in Curated \union {NoName}
  /\ \A i, j \in DOMAIN models : models[i].id = models[j].id => i = j

(***************************************************************************)
(* "The derived slug URL and the rendered page always agree": a slug of    *)
(* the sitemap leads to a page that names that slug as its own, and so     *)
(* does the page of every other listing of the group.                      *)
(***************************************************************************)
SlugLeadsToItsPage == \A slug \in listModelSlugs :
  /\ ownedSlug(resolveModelSlug(slug)) = slug
  /\ \A r \in GroupOf(OwnerOf(slug)) : ownedSlug(r) = slug

(***************************************************************************)
(* "On a slug collision the group listed first owns the URL": a listing    *)
(* registered later never takes the slug of an older group.                *)
(***************************************************************************)
OldestOwnsItsSlug == \A key \in Keys :
  LET slug == SlugOf(GroupOf(key)) IN FirstSeen(GroupOf(OwnerOf(slug))) <= FirstSeen(GroupOf(key))

(***************************************************************************)
(* A family page links a model under a slug only where that slug leads to  *)
(* that model, though a family curated on some listings of a model splits  *)
(* it and the part is named anew.                                          *)
(***************************************************************************)
SiblingLinksAreTrue == \A r \in ModelRows : \A q \in Family(r) :
  LET key  == effectiveCanonicalKey(q)
      slug == slugFor(r, key)
  IN slug # NoName => effectiveCanonicalKey(resolveModelSlug(slug)) = key

(***************************************************************************)
(* What an admin has curated, and when a listing was first seen, outlast   *)
(* every refresh of its name and every later edit that leaves them out.    *)
(***************************************************************************)
CurationKept == \A i \in DOMAIN models :
  /\ models'[i].created = models[i].created
  /\ models[i].canonical # NoName => models'[i].canonical # NoName
  /\ models[i].family # NoName => models'[i].family # NoName

CurationLasts == [][CurationKept]_modelVars

(***************************************************************************)
(* Slugs, their owners and their links fit together over any listings, and *)
(* curation outlasts every refresh.                                        *)
(***************************************************************************)
ModelPagesHold ==
  [](ModelsTypeOK /\ SlugLeadsToItsPage /\ OldestOwnsItsSlug /\ SiblingLinksAreTrue) /\ CurationLasts
=============================================================================
