---------------------------- MODULE MCMigration -----------------------------
(***************************************************************************)
(* The instance of Migration that TLC checks: two FIs, and for a single FI *)
(* every frontend of up to two menus over two keys and two placements,     *)
(* with pages that fit, are missing, are given twice or have a bad shape.  *)
(***************************************************************************)
EXTENDS Migration

Keys == {"a", "b"}

Placements == {"cluster", "workspace"}

Menus ==
    {[key |-> k, placement |-> p, type |-> "page", children |-> <<>>] :
        k \in Keys, p \in Placements}
    \cup {[key |-> k, placement |-> p, type |-> "organization", children |-> c] :
        k \in Keys, p \in Placements, c \in {<<>>, <<"a">>, <<"a", "b">>, <<"a", "a">>}}

Page(key, type, columns) ==
    [key |-> key, type |-> type, iframe |-> type = "iframe", columns |-> columns]

PageLists ==
    {<<Page("a", "iframe", None), Page("b", "crdTable", 1)>>,
     <<Page("a", "iframe", None)>>,
     <<Page("a", "iframe", None), Page("b", "crdTable", 1), Page("a", "crdTable", 1)>>,
     <<Page("b", "crdTable", 0), Page("a", "iframe", None)>>}

Frontend(menus, pages) == [menus |-> menus, pages |-> pages, locales |-> {"en"}]

MCFrontends ==
    {Frontend(menus, pages) : menus \in SeqOf(Menus, 2), pages \in PageLists}

MCPlain ==
    Frontend(<<[key |-> "a", placement |-> "cluster", type |-> "page", children |-> <<>>]>>,
             <<Page("a", "iframe", None)>>)

\* No menus at all, and a menu more.
MCEdits ==
    {Frontend(<<>>, MCPlain.pages),
     Frontend(MCPlain.menus \o
                <<[key |-> "a", placement |-> "workspace", type |-> "page",
                   children |-> <<>>]>>, MCPlain.pages)}

\* One menu in two placements, and a locale more.
MCExtensionEdits ==
    {[menus |-> <<[key |-> "b", placements |-> <<"cluster", "workspace">>, type |-> "page",
                   pageKey |-> "a", children |-> <<>>],
                  [key |-> "a", placements |-> <<"cluster">>, type |-> "page",
                   pageKey |-> "a", children |-> <<>>]>>,
      pages |-> <<WithPlacements(Page("a", "iframe", None), Placements)>>,
      locales |-> {"en", "zh"}]}
=============================================================================
