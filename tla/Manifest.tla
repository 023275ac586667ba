------------------------------ MODULE Manifest ------------------------------
(***************************************************************************)
(* What the renderer makes of a frontend source: which sources it accepts, *)
(* the routes and pages of the manifest, and the frontend the migrator     *)
(* derives from that of a FrontendIntegration (FI).                        *)
(*                                                                         *)
(* A page menu is bound to one page, an organization menu to one per       *)
(* child.  The route of a binding is the sequence of the keys that lead to *)
(* it.  Titles and icons are left out, and of a page's config what its     *)
(* shape is checked for: iframe says that there is an iframe config,       *)
(* columns how many columns the crdTable config has (None: no config).     *)
(***************************************************************************)
EXTENDS Naturals, Sequences, SequencesExt

CONSTANTS
    None,       \* an absent optional value
    ValidKeys   \* the keys that are kebab-case route fragments

-----------------------------------------------------------------------------
(* Frontends.                                                              *)

MenuTypes == {"page", "organization"}

PageTypes == {"iframe", "crdTable"}

\* The frontend of an FI: a menu has one placement, a page none.
IntegrationFrontend ==
    [menus : Seq([key : STRING, placement : STRING, type : MenuTypes,
                  children : Seq(STRING)]),
     pages : Seq([key : STRING, type : PageTypes, iframe : BOOLEAN,
                  columns : {None} \cup Nat]),
     locales : SUBSET STRING]

\* The frontend of an FE: menus name their pages, menus and pages placements.
ExtensionFrontend ==
    [menus : Seq([key : STRING, placements : Seq(STRING), type : MenuTypes,
                  pageKey : {None} \cup STRING,
                  children : Seq([key : STRING, pageKey : STRING])]),
     pages : Seq([key : STRING, type : PageTypes, iframe : BOOLEAN,
                  columns : {None} \cup Nat, placements : SUBSET STRING]),
     locales : SUBSET STRING]

-----------------------------------------------------------------------------
(* Inputs of the renderer.                                                 *)

\* A child menu of an FI is bound to the page of its key.
Children(keys) == [i \in DOMAIN keys |-> [key |-> keys[i], pageKey |-> keys[i]]]

IntegrationMenu(menu) ==
    [key |-> menu.key, placement |-> menu.placement, type |-> menu.type,
     pageKey |-> IF menu.type = "page" THEN menu.key ELSE None,
     children |-> Children(menu.children)]

WithPlacements(page, placements) ==
    [key |-> page.key, type |-> page.type, iframe |-> page.iframe,
     columns |-> page.columns, placements |-> placements]

FromIntegration(frontend) ==
    [menus |-> [i \in DOMAIN frontend.menus |-> IntegrationMenu(frontend.menus[i])],
     pages |-> [i \in DOMAIN frontend.pages |-> WithPlacements(frontend.pages[i], None)],
     requirePageKey |-> FALSE]

\* A menu of an FE stands for one menu in each of its placements.
ExtensionMenus(menu) ==
    [i \in DOMAIN menu.placements |->
        [key |-> menu.key, placement |-> menu.placements[i], type |-> menu.type,
         pageKey |-> menu.pageKey, children |-> menu.children]]

FromExtension(frontend) ==
    [menus |-> FlattenSeq([i \in DOMAIN frontend.menus |-> ExtensionMenus(frontend.menus[i])]),
     pages |-> frontend.pages,
     requirePageKey |-> TRUE]

-----------------------------------------------------------------------------
(* Resolving.                                                              *)

PageKey(input, key, explicit) ==
    IF explicit = None /\ ~input.requirePageKey THEN key ELSE explicit

MenuBindings(input, menu) ==
    IF menu.type = "page"
    THEN << [placement |-> menu.placement, route |-> <<menu.key>>,
             pageKey |-> PageKey(input, menu.key, menu.pageKey)] >>
    ELSE [i \in DOMAIN menu.children |->
            [placement |-> menu.placement, route |-> <<menu.key, menu.children[i].key>>,
             pageKey |-> PageKey(input, menu.children[i].key, menu.children[i].pageKey)]]

Bindings(input) ==
    FlattenSeq([i \in DOMAIN input.menus |-> MenuBindings(input, input.menus[i])])

\* Pages that no menu is bound to are not looked at.
ReferencedPages(input) ==
    LET keys == {b.pageKey : b \in Range(Bindings(input))}
    IN  {i \in DOMAIN input.pages : input.pages[i].key \in keys}

MenuShapeOK(menu) ==
    /\ menu.key \in ValidKeys
    /\ menu.type = "page" => menu.children = <<>>
    /\ menu.type = "organization" =>
        /\ menu.children # <<>> /\ menu.pageKey = None
        /\ \A child \in Range(menu.children) : child.key \in ValidKeys

PageShapeOK(page) ==
    /\ page.key \in ValidKeys
    /\ page.placements # {}
    /\ page.type = "iframe" => page.iframe /\ page.columns = None
    /\ page.type = "crdTable" => ~page.iframe /\ page.columns \notin {None, 0}

PageAcceptsPlacement(page, placement) ==
    page.placements = None \/ placement \in page.placements

PagesOf(input, binding) ==
    {input.pages[i] : i \in {j \in DOMAIN input.pages : input.pages[j].key = binding.pageKey}}

\* What is rendered at all.  The version that is asked for is taken to be known.
Resolves(input) ==
    LET menus == input.menus
        bindings == Bindings(input)
    IN  /\ \A menu \in Range(menus) : MenuShapeOK(menu)
        /\ \A i, j \in DOMAIN menus :
              menus[i].placement = menus[j].placement /\ menus[i].key = menus[j].key => i = j
        /\ \A i \in ReferencedPages(input) : PageShapeOK(input.pages[i])
        /\ \A i, j \in ReferencedPages(input) :
              input.pages[i].key = input.pages[j].key => i = j
        /\ \A i, j \in DOMAIN bindings :
              /\ bindings[i].placement = bindings[j].placement
              /\ bindings[i].route = bindings[j].route
              => i = j
        /\ \A b \in Range(bindings) :
              /\ b.pageKey \in ValidKeys
              /\ \E page \in PagesOf(input, b) : PageAcceptsPlacement(page, b.placement)

\* An FE of which a menu has no placement is not even turned into an input.
ExtensionResolves(frontend) ==
    /\ \A menu \in Range(frontend.menus) : menu.placements # <<>>
    /\ Resolves(FromExtension(frontend))

-----------------------------------------------------------------------------
(* Rendering.                                                              *)

\* Mutant of PageId: the placement is left out.
PageIdInAnyPlacement(input, b) ==
    <<"any", IF input.requirePageKey THEN <<b.pageKey>> ELSE b.route>>

\* The id is the name of the FI or FE, the placement and the suffix joined by
\* dashes, with an underscore for the slash of a route: two that differ here
\* differ there, for a valid key has no underscore and a placement is one word.
PageId(input, b) ==
    <<b.placement, IF input.requirePageKey THEN <<b.pageKey>> ELSE b.route>>

\* The first binding of a page id has its page rendered, for its placement.
RenderedPages(input) ==
    LET bindings == Bindings(input)
        first == {i \in DOMAIN bindings :
                    \A j \in 1 .. i - 1 :
                        PageId(input, bindings[j]) # PageId(input, bindings[i])}
    IN  {[id |-> PageId(input, bindings[i]), placement |-> bindings[i].placement,
          page |-> CHOOSE page \in PagesOf(input, bindings[i]) : TRUE] : i \in first}

Routes(input) ==
    {[placement |-> b.placement, path |-> b.route, pageId |-> PageId(input, b)] :
        b \in Range(Bindings(input))}

Content(page) == [type |-> page.type, iframe |-> page.iframe, columns |-> page.columns]

\* What a user sees: in each placement the paths, and the page each opens.
Served(input) ==
    {[placement |-> r.placement, path |-> r.path,
      opens |-> {<<p.placement, Content(p.page)>> :
                    p \in {q \in RenderedPages(input) : q.id = r.pageId}}] :
        r \in Routes(input)}

-----------------------------------------------------------------------------
(* The frontend of the FE that the migrator makes of an FI.                *)

MigratedMenu(menu) ==
    [key |-> menu.key, placements |-> <<menu.placement>>, type |-> menu.type,
     pageKey |-> IF menu.type = "page" THEN menu.key ELSE None,
     children |-> Children(menu.children)]

\* The pages that a menu binds, as pairs of placement and page key.
BoundPages(frontend) ==
    UNION {{<<menu.placement, key>> :
                key \in IF menu.type = "page" THEN {menu.key} ELSE Range(menu.children)} :
            menu \in Range(frontend.menus)}

\* Mutant of PagePlacements: the placement of one menu is enough.
PagePlacementsOfOneMenu(frontend, key) ==
    {CHOOSE placement \in {bound[1] : bound \in BoundPages(frontend)} :
        <<placement, key>> \in BoundPages(frontend)}

PagePlacements(frontend, key) ==
    {bound[1] : bound \in {b \in BoundPages(frontend) : b[2] = key}}

\* Of the pages with a key, the first.
FirstPage(pages, key) == pages[SelectInSeq(pages, LAMBDA p : p.key = key)]

\* Each bound page that exists, once, with every placement it is bound in; the
\* first one, if several have its key.
MigratedPages(frontend) ==
    LET keys == {bound[2] : bound \in BoundPages(frontend)}
                    \cap {page.key : page \in Range(frontend.pages)}
        ordered == SetToSeq(keys)
    IN  [i \in DOMAIN ordered |->
            WithPlacements(FirstPage(frontend.pages, ordered[i]),
                           PagePlacements(frontend, ordered[i]))]

MigratedFrontend(frontend) ==
    [menus |-> [i \in DOMAIN frontend.menus |-> MigratedMenu(frontend.menus[i])],
     pages |-> MigratedPages(frontend),
     locales |-> frontend.locales]
=============================================================================
