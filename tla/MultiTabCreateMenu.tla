-------------------------- MODULE MultiTabCreateMenu --------------------------
(***************************************************************************)
(* The Create dropdown of MultiTabListPage                                 *)
(* (src/frontend/packages/console-shared/src/components/multi-tab-list/    *)
(* MultiTabListPage.tsx).  A page passes menuActions, a record of actions  *)
(* each with an optional label, model and onSelection.  The dropdown       *)
(* offers the actions that have a label of their own or their model's;     *)
(* choosing one builds the model's create URL in the route's namespace,    *)
(* lets onSelection replace it, and pushes the result onto the history     *)
(* when there is one.                                                      *)
(***************************************************************************)
EXTENDS Naturals

CONSTANTS
    ActionName,  \* keys of menuActions
    Model,       \* models an action can create; each has a label
    Namespace,   \* namespaces a route can name
    NoValue      \* an absent field, prop or route parameter

(* What onSelection(actionName, item, url) returns: no callback, the url   *)
(* it was given, a page of its own, or undefined.                          *)
OnSelection == {NoValue, "passUrl", "ownPage", "none"}

MenuAction == [label : BOOLEAN, model : Model \cup {NoValue},
               onSelection : OnSelection]

(* The pages the model tells apart: a list page on a route with or without *)
(* a namespace, a create page, or a page an onSelection chose.             *)
ListPage == [page : {"list"}, ns : Namespace \cup {NoValue}]
CreatePage == [page : {"create"}, scope : Namespace \cup {"default", "cluster"},
               model : Model]
OwnPage == [page : {"own"}, action : ActionName]

VARIABLES
    menuActions,  \* the page's menuActions prop, NoValue when it has none
    location      \* the page the browser shows

vars == <<menuActions, location>>

(* items: the actions whose label, or whose model's label, is set.         *)
Items(ma) ==
    IF ma = NoValue THEN {}
    ELSE {k \in DOMAIN ma : ma[k].label \/ ma[k].model # NoValue}

(* The create URL for model m from a route naming ns: the namespace is     *)
(* `ns ?? 'default'`, and a non-empty namespace (route parameters are      *)
(* never empty) gives /k8s/ns/<namespace>/<ref>/~new, else                 *)
(* /k8s/cluster/<ref>/~new.                                                *)
ModelUrl(ns, m) ==
    LET namespace == IF ns = NoValue THEN "default" ELSE ns
    IN  IF namespace # "" THEN [page |-> "create", scope |-> namespace, model |-> m]
        ELSE [page |-> "create", scope |-> "cluster", model |-> m]

(* onSelectCreateAction(actionName): the URL it pushes, NoValue when none. *)
SelectedUrl(a, k, ns) ==
    LET url == IF a.model # NoValue THEN ModelUrl(ns, a.model) ELSE NoValue
    IN  CASE a.onSelection = NoValue     -> url
          [] a.onSelection = "passUrl"   -> url
          [] a.onSelection = "ownPage"   -> [page |-> "own", action |-> k]
          [] a.onSelection = "none"      -> NoValue

Init ==
    /\ menuActions \in [ActionName -> MenuAction] \cup {NoValue}
    /\ location \in ListPage

(* The user opens the list page on a route for namespace n, or for all     *)
(* namespaces (n = NoValue).                                               *)
ListOpened(n) ==
    /\ location' = [page |-> "list", ns |-> n]
    /\ location' # location
    /\ UNCHANGED menuActions

(* The user chooses item k of the Create dropdown: history.push(url) when  *)
(* onSelectCreateAction ends with a url.                                   *)
CreateActionSelected(k) ==
    /\ location.page = "list"
    /\ k \in Items(menuActions)
    /\ LET url == SelectedUrl(menuActions[k], k, location.ns)
       IN  IF url # NoValue THEN location' = url ELSE UNCHANGED location
    /\ UNCHANGED menuActions

Next ==
    \/ \E n \in Namespace \cup {NoValue} : ListOpened(n)
    \/ \E k \in ActionName : CreateActionSelected(k)

Spec == Init /\ [][Next]_vars

-----------------------------------------------------------------------------
=============================================================================
