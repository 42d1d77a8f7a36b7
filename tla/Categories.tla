----------------------------- MODULE Categories -----------------------------
(***************************************************************************)
(* Categories: the tree of categories under which the catalogue files its  *)
(* objects (catalog/models.py, forms.py and views.py).  Staff move a       *)
(* category below another in the admin site, or switch it on and off;      *)
(* Category.clean climbs from the new parent to the root, a query for each *)
(* row and none of them locked, and then the row is saved.  Meanwhile      *)
(* visitors search the catalogue: their request climbs and descends the    *)
(* tree several times, and reads it anew each time.                        *)
(*                                                                         *)
(* No category is added or deleted here: at either moment it has no        *)
(* children, so no path leads through it.                                  *)
(***************************************************************************)
EXTENDS Naturals, FiniteSets

CONSTANTS Categories, First,    \* the parent of each at first
          Editors, Visitors,
          Requests,             \* the pairs of category and subcategory asked
          MaxEdits,             \* bound on the edits
          None                  \* the parent of a root; nothing asked

ASSUME CategoriesAssumption ==
  /\ IsFiniteSet(Categories)
  /\ None \notin Categories
  /\ First \in [Categories -> Categories \cup {None}]
  /\ \A c \in Categories : First[c] # c
  /\ Requests \subseteq (Categories \cup {None}) \X (Categories \cup {None})
  /\ MaxEdits \in Nat

VARIABLES parent, active,  \* the rows
          edits,           \* how many were begun
          edit,            \* of each editor: the form posted and how far clean
                           \* got, or None
          overtaken,       \* the editors whose edit has seen another saved
          pc, search,      \* of each visitor: the request and its local state
          shown,           \* the categories whose objects it lists
          met              \* what the visitor's request met: "nothing", an
                           \* edit, or an edit that closed a "cycle"

treeVars  == <<parent, active>>
editVars  == <<edits, edit, overtaken>>
visitVars == <<pc, search, shown, met>>
vars == <<treeVars, editVars, visitVars>>

OrNone == Categories \cup {None}

\* at is the row that the climb has loaded, up the parent it was loaded with.
Edit   == [cat : Categories, to : OrNone, on : BOOLEAN,
           seen : SUBSET Categories, at : OrNone, up : OrNone]
Search == [cat : OrNone, sub : OrNone, public : SUBSET Categories,
           found : SUBSET Categories, pending : SUBSET Categories,
           at : OrNone, up : OrNone]

Ended   == {"idle", "listed", "refused"}
Running == {"category", "levels", "objects", "clean", "subcategory",
            "ancestors", "tree", "endless"}

TypeOK ==
  /\ parent \in [Categories -> OrNone]
  /\ \A c \in Categories : parent[c] # c
  /\ active \subseteq Categories
  /\ edits \in 0 .. MaxEdits
  /\ edit \in [Editors -> Edit \cup {None}]
  /\ overtaken \subseteq Editors
  /\ pc \in [Visitors -> Ended \cup Running]
  /\ search \in [Visitors -> Search \cup {None}]
  /\ \A v \in Visitors : pc[v] # "idle" => search[v] \in Search
  /\ shown \in [Visitors -> SUBSET Categories]
  /\ met \in [Visitors -> {"nothing", "edit", "cycle"}]

-----------------------------------------------------------------------------
(* The tree.                                                               *)

Above(c)    == IF c = None THEN None ELSE parent[c]
Children(P) == {c \in Categories : parent[c] \in P}

\* Variant: the category alone is looked at.
PublicAlone == {c \in Categories : c \in active}

\* is_available_for_publication climbs through active categories until it is at
\* a root.  A climb with more steps than there are categories has come back to
\* one that it had visited.
ClimbsToRoot(category) ==
  LET Within[n \in 0 .. Cardinality(Categories)] ==
        IF n = 0 THEN {} ELSE {c \in active : parent[c] \in Within[n - 1] \cup {None}}
  IN  category \in Within[Cardinality(Categories)]

\* public_category_ids does so from each category, in one reading of the table.
PublicIds == {c \in Categories : ClimbsToRoot(c)}

\* _category_tree_ids goes down from a category, level by level, in one reading
\* of the active ones.
Level(c, n) ==
  LET Down[k \in 0 .. n] ==
        IF k = 0 THEN {c} ELSE Children(Down[k - 1]) \cap active
  IN  Down[n]

TreeIds(c) == UNION {Level(c, n) : n \in 0 .. Cardinality(Categories)}

\* It does not tell where it has been: below a category that is below itself
\* there is always another level.
Bottomless(c) == Level(c, Cardinality(Categories)) # {}

-----------------------------------------------------------------------------
(* The admin site.                                                         *)

Init ==
  /\ parent = First
  /\ active \in SUBSET Categories
  /\ edits = 0
  /\ edit = [e \in Editors |-> None]
  /\ overtaken = {}
  /\ pc = [v \in Visitors |-> "idle"]
  /\ search = [v \in Visitors |-> None]
  /\ shown = [v \in Visitors |-> {}]
  /\ met = [v \in Visitors |-> "nothing"]

\* Variant: clean does not know the category itself.
PostEditForgetful(e, c, to, on) ==
  /\ edit[e] = None
  /\ edits < MaxEdits
  /\ edits' = edits + 1
  /\ edit' = [edit EXCEPT ![e] =
       [cat |-> c, to |-> to, on |-> on,
        seen |-> {}, at |-> to, up |-> Above(to)]]
  /\ overtaken' = overtaken \ {e}
  /\ UNCHANGED <<treeVars, visitVars>>

\* The form is posted, or the list of categories, of which each row keeps its
\* parent.  The new parent is loaded with it.
PostEdit(e, c, to, on) ==
  /\ edit[e] = None
  /\ edits < MaxEdits
  /\ edits' = edits + 1
  /\ edit' = [edit EXCEPT ![e] =
       [cat |-> c, to |-> to, on |-> on,
        seen |-> {c}, at |-> to, up |-> Above(to)]]
  /\ overtaken' = overtaken \ {e}
  /\ UNCHANGED <<treeVars, visitVars>>

\* Variant: only the new parent is tested.
ClimbOnce(e) ==
  /\ edit[e] # None
  /\ edit[e].at \notin edit[e].seen \cup {None}
  /\ edit' = [edit EXCEPT ![e].seen = @ \cup {edit[e].at},
                          ![e].at = None, ![e].up = None]
  /\ UNCHANGED <<treeVars, edits, overtaken, visitVars>>

\* A turn of the loop in clean, which loads the next row
Climb(e) ==
  /\ edit[e] # None
  /\ edit[e].at \notin edit[e].seen \cup {None}
  /\ edit' = [edit EXCEPT ![e].seen = @ \cup {edit[e].at},
                          ![e].at = edit[e].up,
                          ![e].up = Above(edit[e].up)]
  /\ UNCHANGED <<treeVars, edits, overtaken, visitVars>>

\* The categories that are below themselves or below one that is: from none of
\* them a climb comes to an end.
Ungrounded ==
  UNION {S \in SUBSET Categories : \A c \in S : parent[c] \in S}

\* save cleans again, with the rows it has loaded, and writes all columns.
Save(e) ==
  /\ edit[e] # None
  /\ edit[e].at = None
  /\ parent' = [parent EXCEPT ![edit[e].cat] = edit[e].to]
  /\ active' = IF edit[e].on THEN active \cup {edit[e].cat}
                             ELSE active \ {edit[e].cat}
  /\ edit' = [edit EXCEPT ![e] = None]
  /\ overtaken' = (overtaken \cup {f \in Editors : edit[f] # None}) \ {e}
  /\ met' = [v \in Visitors |->
       IF ~(Ungrounded' \subseteq Ungrounded) THEN "cycle"
       ELSE IF met[v] = "cycle" THEN "cycle" ELSE "edit"]
  /\ UNCHANGED <<edits, pc, search, shown>>

\* clean finds a category that it has seen, or the request fails.
Abandon(e) ==
  /\ edit[e] # None
  /\ edit' = [edit EXCEPT ![e] = None]
  /\ overtaken' = overtaken \ {e}
  /\ UNCHANGED <<treeVars, edits, visitVars>>

-----------------------------------------------------------------------------
(* The catalogue: catalog_list and its form.                               *)

At(v, step)  == pc[v] = step /\ UNCHANGED <<treeVars, editVars, met>>
Goto(v, step) == pc' = [pc EXCEPT ![v] = step]

Refuse(v) ==
  /\ Goto(v, "refused")
  /\ shown' = [shown EXCEPT ![v] = {}]
  /\ UNCHANGED search

\* The form begins with the public categories.  Without a category to look
\* below, every one of them may be the subcategory.
Ask(v, x, y) ==
  /\ pc[v] \in Ended
  /\ search' = [search EXCEPT ![v] =
       [cat |-> x, sub |-> y, public |-> PublicIds, found |-> PublicIds,
        pending |-> {}, at |-> None, up |-> None]]
  /\ Goto(v, IF x = None THEN "objects" ELSE "category")
  /\ shown' = [shown EXCEPT ![v] = {}]
  /\ met' = [met EXCEPT ![v] = "nothing"]
  /\ UNCHANGED <<treeVars, editVars>>

IsChoice(v) == search[v].cat \in search[v].public /\ parent[search[v].cat] = None

OpenCategory(v) ==
  /\ At(v, "category")
  /\ \/ /\ IsChoice(v)
        /\ search' = [search EXCEPT ![v].found = {},
                                    ![v].pending = {search[v].cat}]
        /\ Goto(v, "levels")
     \/ /\ ~IsChoice(v)
        /\ Goto(v, "objects")
        /\ UNCHANGED search
  /\ UNCHANGED shown

\* Variant: a level is added to the ones before it.
DescendAgain(v) ==
  LET below == Children(search[v].pending) \cap search[v].public
  IN  /\ At(v, "levels")
      /\ \/ /\ search[v].pending # {}
            /\ search' = [search EXCEPT ![v].found = @ \cup below,
                                        ![v].pending = @ \cup below]
            /\ UNCHANGED pc
         \/ /\ search[v].pending = {}
            /\ Goto(v, "objects")
            /\ UNCHANGED search
      /\ UNCHANGED shown

\* The next level below the category, by a query of its own
Descend(v) ==
  LET below == Children(search[v].pending) \cap search[v].public
  IN  /\ At(v, "levels")
      /\ \/ /\ search[v].pending # {}
            /\ search' = [search EXCEPT ![v].found = @ \cup below,
                                        ![v].pending = below]
            /\ UNCHANGED pc
         \/ /\ search[v].pending = {}
            /\ Goto(v, "objects")
            /\ UNCHANGED search
      /\ UNCHANGED shown

\* _public_inventory asks for the public categories again.
PublicInventory(v) ==
  /\ At(v, "objects")
  /\ shown' = [shown EXCEPT ![v] = PublicIds]
  /\ Goto(v, "clean")
  /\ UNCHANGED search

CleanCategory(v) ==
  /\ At(v, "clean")
  /\ \/ /\ search[v].cat = None \/ IsChoice(v)
        /\ Goto(v, "subcategory")
        /\ UNCHANGED <<search, shown>>
     \/ /\ search[v].cat # None /\ ~IsChoice(v)
        /\ Refuse(v)

\* The subcategory is loaded with its parent.
CleanSubcategory(v) ==
  LET y == search[v].sub
      offered == y \in search[v].public \cap search[v].found /\ parent[y] # None
  IN  /\ At(v, "subcategory")
      /\ \/ /\ y = None
            /\ Goto(v, "tree")
            /\ UNCHANGED <<search, shown>>
         \/ /\ y # None /\ offered
            /\ search' = [search EXCEPT ![v].at = parent[y],
                                        ![v].up = Above(parent[y])]
            /\ Goto(v, IF search[v].cat = None THEN "tree" ELSE "ancestors")
            /\ UNCHANGED shown
         \/ /\ y # None /\ ~offered
            /\ Refuse(v)

\* A turn of the loop in the form's clean
ClimbToCategory(v) ==
  /\ At(v, "ancestors")
  /\ \/ /\ search[v].at = search[v].cat
        /\ Goto(v, "tree")
        /\ UNCHANGED <<search, shown>>
     \/ /\ search[v].at = None
        /\ Refuse(v)
     \/ /\ search[v].at \notin {search[v].cat, None}
        /\ search' = [search EXCEPT ![v].at = search[v].up,
                                    ![v].up = Above(search[v].up)]
        /\ UNCHANGED <<pc, shown>>

\* What the objects are filtered by
Chosen(v) == IF search[v].sub # None THEN search[v].sub ELSE search[v].cat

List(v) ==
  /\ At(v, "tree")
  /\ \/ /\ Chosen(v) = None
        /\ Goto(v, "listed")
        /\ UNCHANGED shown
     \/ /\ Chosen(v) # None /\ ~Bottomless(Chosen(v))
        /\ Goto(v, "listed")
        /\ shown' = [shown EXCEPT ![v] = @ \cap TreeIds(Chosen(v))]
     \/ /\ Chosen(v) # None /\ Bottomless(Chosen(v))
        /\ Goto(v, "endless")
        /\ UNCHANGED shown
  /\ UNCHANGED search

\* The list of pending categories never is empty.
Spin(v) ==
  /\ At(v, "endless")
  /\ UNCHANGED <<pc, search, shown>>

Respond(v) ==
  \/ OpenCategory(v) \/ Descend(v) \/ PublicInventory(v)
  \/ CleanCategory(v) \/ CleanSubcategory(v) \/ ClimbToCategory(v)
  \/ List(v) \/ Spin(v)

-----------------------------------------------------------------------------
Next ==
  \/ \E e \in Editors :
       \/ \E c \in Categories, to \in OrNone, on \in BOOLEAN :
            PostEdit(e, c, to, on)
       \/ Climb(e)
       \/ Save(e)
       \/ Abandon(e)
  \/ \E v \in Visitors :
       \/ \E request \in Requests : Ask(v, request[1], request[2])
       \/ Respond(v)

\* A request that was received is worked off; nobody need edit or ask.
Spec == Init /\ [][Next]_vars /\ \A v \in Visitors : WF_vars(Respond(v))

-----------------------------------------------------------------------------
(* Properties.                                                             *)

\* The check in clean, though it reads a row at a time, keeps the tree a tree:
\* an edit puts a category below itself only if another one was saved while it
\* climbed.
OnlyRacesCloseCycles ==
  [][\A e \in Editors :
       edit[e] # None /\ Save(e) /\ e \notin overtaken =>
         Ungrounded' \subseteq Ungrounded]_vars

\* A category and those above it
Lineage(c) ==
  {x \in Categories :
     \A S \in SUBSET Categories :
       c \in S /\ (\A d \in S : parent[d] \in S \cup {None}) => x \in S}

IsPublic(c) == c \notin Ungrounded /\ Lineage(c) \subseteq active

\* What a search is about: a public root, and a public category below it.
IsAbout(x, y) ==
  /\ x # None => IsPublic(x) /\ parent[x] = None
  /\ y # None => IsPublic(y) /\ parent[y] # None /\ (x # None => x \in Lineage(y))

\* A search during which nothing is edited, whatever cycles the tree has, lists
\* the public categories at or below the chosen one, neither more nor less, and
\* is refused only if it is about no category and subcategory of the menus,
\* though menus, validation and filter walk the tree up and down by themselves.
SearchIsExact ==
  \A v \in Visitors :
    LET x == search[v].cat
        y == search[v].sub
    IN  met[v] = "nothing" /\ pc[v] \in {"listed", "refused"} =>
          /\ pc[v] = "listed" <=> IsAbout(x, y)
          /\ pc[v] = "listed" =>
               shown[v] = {c \in Categories :
                             IsPublic(c) /\ (Chosen(v) # None =>
                                               Chosen(v) \in Lineage(c))}

\* Every search ends, on a tree with cycles as well, if only no cycle closes
\* while it is under way.
SearchEnds ==
  \A v \in Visitors :
    pc[v] \in Running ~> pc[v] \in Ended \/ met[v] = "cycle"
=============================================================================
