---------------------------- MODULE PVCCreateMenu ----------------------------
(***************************************************************************)
(* The Create control of the claims list page (PersistentVolumeClaimsPage  *)
(* in src/frontend/public/components/persistent-volume-claim.jsx).         *)
(*                                                                         *)
(* Without console.pvc/create-prop extensions the page passes a plain link *)
(* to the form.  With them it passes a dropdown: item "0" is the form, and *)
(* the extensions' labels follow under keys 1, 2, ...; createLink maps the *)
(* chosen key back to a path by finding the extension with that key.       *)
(* ListPage (outside src) renders the control and opens what it returns.   *)
(***************************************************************************)
EXTENDS Naturals, Sequences, FiniteSets

CONSTANTS
    Namespace,  \* namespaces the page can be opened in
    Label,      \* labels the extensions declare
    Path,       \* paths the extensions declare
    MaxExt,     \* the most extensions the plugins register
    NoValue     \* an absent prop or nothing opened yet

ASSUME MaxExtAssumption == MaxExt \in Nat

(* A console.pvc/create-prop extension's properties.                       *)
CreateProp == [label : Label, path : Path]

(* The form, the target of the link and of item "0".                       *)
FormLabel == "With Form"
FormPath == "~new/form"

(* An initPath that takes props.namespace as it is.                        *)
InitPathNoDefault(ns) == ns

(* A page the control opens: initPath, that is the namespace ('default'    *)
(* when the page has none), followed by a path.                            *)
InitPath(ns) == IF ns = NoValue THEN "default" ELSE ns
Url(ns, path) == [ns |-> InitPath(ns), path |-> path]

VARIABLES
    exts,    \* useExtensions(isPVCCreateProp), in registration order
    ns,      \* props.namespace
    chosen,  \* the label of the item the user last chose
    opened   \* the page the control last opened

vars == <<exts, ns, chosen, opened>>

(* createItems with keys one short: `key: i`.                              *)
CreateItemsFromZero(es) ==
    [i \in DOMAIN es |-> [key |-> i - 1, label |-> es[i].label,
                          path |-> es[i].path]]

(* createItems: extension i (0-based in the code) gets key i + 1.          *)
CreateItems(es) ==
    [i \in DOMAIN es |-> [key |-> i, label |-> es[i].label,
                          path |-> es[i].path]]

(* The dropdown's items, Object.assign({0: 'With Form'}, {[key]: label},   *)
(* ...): a later source overwrites a key an earlier one set.               *)
Items(ci) ==
    [k \in {0} \cup {ci[i].key : i \in DOMAIN ci} |->
        LET I == {i \in DOMAIN ci : ci[i].key = k}
        IN  IF I = {} THEN FormLabel
            ELSE ci[CHOOSE i \in I : \A j \in I : j <= i].label]

(* createLink(wizardName): the form for "0", else the path of the first    *)
(* item whose key.toString() is wizardName.  Keys and item names are small *)
(* naturals here, so the string comparison is equality of the numbers.     *)
CreateLink(ci, n, w) ==
    IF w = 0 THEN Url(n, FormPath)
    ELSE LET I == {i \in DOMAIN ci : ci[i].key = w}
         IN  Url(n, ci[CHOOSE i \in I : \A j \in I : i <= j].path)

Init ==
    /\ exts = << >>
    /\ ns \in Namespace \cup {NoValue}
    /\ chosen = NoValue
    /\ opened = NoValue

(* A plugin registers another create-prop extension.                       *)
ExtensionLoaded(e) ==
    /\ Len(exts) < MaxExt
    /\ exts' = Append(exts, e)
    /\ UNCHANGED <<ns, chosen, opened>>

(* The page is opened for another namespace, or for all of them.           *)
NamespaceChanged(n) ==
    /\ n # ns
    /\ ns' = n
    /\ UNCHANGED <<exts, chosen, opened>>

(* No extension: createProps is { to: initPath + '~new/form' }, a link.    *)
LinkFollowed ==
    /\ Len(exts) = 0
    /\ chosen' = FormLabel
    /\ opened' = Url(ns, FormPath)
    /\ UNCHANGED <<exts, ns>>

(* With extensions: the user picks item w and ListPage opens createLink(w).*)
ItemChosen(w) ==
    LET ci == CreateItems(exts)
    IN  /\ Len(exts) > 0
        /\ w \in DOMAIN Items(ci)
        /\ chosen' = Items(ci)[w]
        /\ opened' = CreateLink(ci, ns, w)
        /\ UNCHANGED <<exts, ns>>

Next ==
    \/ \E e \in CreateProp : ExtensionLoaded(e)
    \/ \E n \in Namespace \cup {NoValue} : NamespaceChanged(n)
    \/ LinkFollowed
    \/ \E w \in 0..MaxExt : ItemChosen(w)

Spec == Init /\ [][Next]_vars

-----------------------------------------------------------------------------
(* Type invariant.                                                         *)
TypeOK ==
    /\ exts \in Seq(CreateProp)
    /\ Len(exts) <= MaxExt
    /\ ns \in Namespace \cup {NoValue}
    /\ chosen \in Label \cup {FormLabel, NoValue}
    /\ opened \in [ns : Namespace \cup {"default"},
                   path : Path \cup {FormPath}] \cup {NoValue}

(* Whatever item the user picks, however many extensions have loaded, the  *)
(* page that opens is the one the item's label stands for: the form for    *)
(* "With Form", else the path of an extension with that label.             *)
OpensChosenItem ==
    chosen # NoValue =>
        /\ chosen = FormLabel => opened.path = FormPath
        /\ chosen # FormLabel =>
               \E i \in DOMAIN exts : /\ exts[i].label = chosen
                                      /\ opened.path = exts[i].path

=============================================================================
