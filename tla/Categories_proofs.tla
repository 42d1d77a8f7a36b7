------------------------- MODULE Categories_proofs -------------------------
(***************************************************************************)
(* Proofs about Categories, for any tree, editors and visitors: what an    *)
(* edit whose check was not overtaken by another one leaves is a tree; and *)
(* the walks through it, in closed form, show what a search lists.         *)
(***************************************************************************)
EXTENDS Categories, FiniteSetTheorems, WellFoundedInduction, TLAPS

\* What clean has climbed past, other than the category itself
Climbed(e) == edit[e].seen \ {edit[e].cat}

\* The new parent is among what was climbed, or next.
StartsAtParent ==
  \A e \in Editors : edit[e] # None =>
    /\ edit[e].cat \in edit[e].seen
    /\ edit[e].to \in Climbed(e) \cup {edit[e].at}

\* While nothing is saved, what was climbed is one path as the tree has it: it
\* leads from row to row to the next one, and nowhere back.
ClimbIsPath ==
  \A e \in Editors : edit[e] # None /\ e \notin overtaken =>
    /\ edit[e].up = Above(edit[e].at)
    /\ \A c \in Climbed(e) : parent[c] \in Climbed(e) \cup {edit[e].at}
    /\ \A T \in SUBSET Climbed(e) :
         T # {} => edit[e].at \in T \/ \E c \in T : parent[c] \notin T

CInv == TypeOK /\ StartsAtParent /\ ClimbIsPath

-----------------------------------------------------------------------------
\* An edit in progress is an edit.
LEMMA EditIsSome ==
  ASSUME TypeOK, NEW e \in Editors, edit[e] # None
  PROVE  edit[e] \in Edit
BY DEF TypeOK

\* What the menus offer are categories.
LEMMA PublicIsKnown == PublicIds \subseteq Categories
BY DEF PublicIds

\* Above a category is a category or nothing.
LEMMA AboveIsKnown ==
  ASSUME TypeOK, NEW c \in OrNone
  PROVE  Above(c) \in OrNone
BY DEF Above, TypeOK, OrNone

\* Nobody edits at first.
LEMMA InitInv == Init => CInv
<1> SUFFICES ASSUME Init PROVE CInv
  OBVIOUS
<1> USE CategoriesAssumption
<1>1. TypeOK
  BY DEF Init, TypeOK, OrNone, Ended
<1>2. StartsAtParent /\ ClimbIsPath
  BY DEF Init, StartsAtParent, ClimbIsPath
<1> QED
  BY <1>1, <1>2 DEF CInv

\* An edit never writes a category below itself: it was climbed to.
LEMMA StepTypeOK ==
  ASSUME CInv, [Next]_vars
  PROVE  TypeOK'
<1> USE DEF treeVars, editVars, visitVars
<1> USE CategoriesAssumption
<1>0. TypeOK
  BY DEF CInv
<1>1. CASE UNCHANGED vars
  BY <1>0, <1>1 DEF vars, TypeOK
<1>2. ASSUME NEW e \in Editors, NEW c \in Categories, NEW to \in OrNone,
             NEW on \in BOOLEAN, PostEdit(e, c, to, on)
      PROVE  TypeOK'
  <2>1. [cat |-> c, to |-> to, on |-> on, seen |-> {c}, at |-> to,
         up |-> Above(to)] \in Edit
    BY <1>0, AboveIsKnown DEF Edit
  <2> QED
    BY <1>0, <1>2, <2>1 DEF PostEdit, TypeOK
<1>3. ASSUME NEW e \in Editors, Climb(e)
      PROVE  TypeOK'
  <2>1. edit[e] \in Edit
    BY <1>0, <1>3, EditIsSome DEF Climb
  <2>2. edit[e].at \in Categories
    BY <1>3, <2>1 DEF Climb, Edit, OrNone
  <2>3. Above(edit[e].up) \in OrNone
    BY <1>0, <2>1, AboveIsKnown DEF Edit
  <2>4. edit' = [edit EXCEPT ![e] =
          [edit[e] EXCEPT !.seen = edit[e].seen \cup {edit[e].at},
                          !.at = edit[e].up, !.up = Above(edit[e].up)]]
    BY <1>3 DEF Climb
  <2>5. [edit[e] EXCEPT !.seen = edit[e].seen \cup {edit[e].at},
                        !.at = edit[e].up, !.up = Above(edit[e].up)] \in Edit
    BY <2>1, <2>2, <2>3 DEF Edit
  <2> QED
    BY <1>0, <1>3, <2>4, <2>5 DEF Climb, TypeOK
<1>4. ASSUME NEW e \in Editors, Save(e)
      PROVE  TypeOK'
  <2>1. edit[e] \in Edit
    BY <1>0, <1>4, EditIsSome DEF Save
  <2>2. edit[e].to # edit[e].cat
    BY <1>4, <2>1 DEF Save, CInv, StartsAtParent, Climbed, Edit
  <2>3. /\ parent' \in [Categories -> OrNone]
        /\ \A c \in Categories : parent'[c] # c
    BY <1>0, <1>4, <2>1, <2>2 DEF Save, TypeOK, Edit
  <2>4. active' \subseteq Categories
    BY <1>0, <1>4, <2>1 DEF Save, TypeOK, Edit
  <2>5. met' \in [Visitors -> {"nothing", "edit", "cycle"}]
    BY <1>4 DEF Save
  <2>6. overtaken' \subseteq Editors /\ edit' \in [Editors -> Edit \cup {None}]
    BY <1>0, <1>4 DEF Save, TypeOK
  <2> QED
    BY <1>0, <1>4, <2>3, <2>4, <2>5, <2>6 DEF Save, TypeOK
<1>5. ASSUME NEW e \in Editors, Abandon(e)
      PROVE  TypeOK'
  BY <1>0, <1>5 DEF Abandon, TypeOK
<1>6. ASSUME NEW v \in Visitors, NEW r \in Requests, Ask(v, r[1], r[2])
      PROVE  TypeOK'
  <2>1. r[1] \in OrNone /\ r[2] \in OrNone
    BY DEF OrNone
  <2>2. [cat |-> r[1], sub |-> r[2], public |-> PublicIds,
         found |-> PublicIds, pending |-> {}, at |-> None, up |-> None]
          \in Search
    BY <2>1, PublicIsKnown DEF Search, OrNone
  <2> QED
    BY <1>0, <1>6, <2>2 DEF Ask, Goto, TypeOK, Running
<1>7. ASSUME NEW v \in Visitors, Respond(v)
      PROVE  TypeOK'
  <2> DEFINE s == search[v]
  <2>1. pc[v] \in Running => s \in Search
    BY <1>0 DEF TypeOK, Running
  <2>2. CASE OpenCategory(v)
    <3>1. s \in Search /\ UNCHANGED <<treeVars, editVars, met, shown>>
      BY <2>1, <2>2 DEF OpenCategory, At, Running
    <3>2. pc' \in [Visitors -> Ended \cup Running]
      BY <1>0, <2>2 DEF OpenCategory, Goto, TypeOK, Running
    <3>3. CASE UNCHANGED search
      BY <1>0, <3>1, <3>2, <3>3, <2>2
         DEF TypeOK, OpenCategory, Goto, At, Ended, Running
    <3>4. CASE /\ IsChoice(v)
               /\ search' = [search EXCEPT ![v].found = {},
                                           ![v].pending = {search[v].cat}]
      <4>1. s.cat \in Categories
        BY <3>1, <3>4 DEF IsChoice, Search
      <4>2. [s EXCEPT !.found = {}, !.pending = {s.cat}] \in Search
        BY <3>1, <4>1 DEF Search
      <4>3. search' = [search EXCEPT ![v] =
                         [s EXCEPT !.found = {}, !.pending = {s.cat}]]
        BY <3>4
      <4> QED
        BY <1>0, <3>1, <3>2, <4>2, <4>3, <2>2
           DEF TypeOK, OpenCategory, Goto, At, Ended, Running
    <3> QED
      BY <2>2, <3>3, <3>4 DEF OpenCategory
  <2>3. CASE Descend(v)
    <3> DEFINE below == Children(s.pending) \cap s.public
    <3>1. s \in Search /\ UNCHANGED <<treeVars, editVars, met, shown>>
      BY <2>1, <2>3 DEF Descend, At, Running
    <3>2. [s EXCEPT !.found = s.found \cup below, !.pending = below] \in Search
      BY <3>1 DEF Search
    <3>3. \/ UNCHANGED search
          \/ search' = [search EXCEPT ![v] =
               [s EXCEPT !.found = s.found \cup below, !.pending = below]]
      BY <2>3 DEF Descend
    <3>4. pc' \in [Visitors -> Ended \cup Running] /\ pc[v] # "idle"
          /\ (\A u \in Visitors : u # v => pc'[u] = pc[u])
      BY <1>0, <2>3 DEF Descend, Goto, At, TypeOK, Running
    <3>5. \A u \in Visitors : pc'[u] # "idle" => search'[u] \in Search
      BY <1>0, <3>1, <3>2, <3>3, <3>4 DEF TypeOK
    <3>6. search' \in [Visitors -> Search \cup {None}]
      BY <1>0, <3>2, <3>3 DEF TypeOK
    <3> QED
      BY <1>0, <3>1, <3>4, <3>5, <3>6 DEF TypeOK
  <2>4. CASE PublicInventory(v)
    BY <1>0, <2>4, PublicIsKnown
       DEF PublicInventory, At, Goto, TypeOK, Running
  <2>5. CASE CleanCategory(v)
    BY <1>0, <2>5
       DEF CleanCategory, At, Goto, Refuse, TypeOK, Running, Ended
  <2>6. CASE CleanSubcategory(v)
    <3> DEFINE y == s.sub
               t == [s EXCEPT !.at = parent[y], !.up = Above(parent[y])]
    <3>1. s \in Search /\ pc[v] = "subcategory"
          /\ UNCHANGED <<treeVars, editVars, met>>
      BY <2>1, <2>6 DEF CleanSubcategory, At, Running
    <3>2. CASE UNCHANGED search
      BY <1>0, <2>6, <3>1, <3>2
         DEF CleanSubcategory, At, Goto, Refuse, TypeOK, Running, Ended
    <3>3. CASE /\ y \in s.public
               /\ search' = [search EXCEPT ![v].at = parent[y],
                                           ![v].up = Above(parent[y])]
               /\ Goto(v, IF s.cat = None THEN "tree" ELSE "ancestors")
               /\ UNCHANGED shown
      <4>1. parent[y] \in OrNone
        BY <1>0, <3>1, <3>3 DEF TypeOK, Search
      <4>2. t \in Search
        BY <1>0, <3>1, <4>1, AboveIsKnown DEF Search
      <4>3. search' = [search EXCEPT ![v] = t]
        BY <3>3
      <4>4. pc' \in [Visitors -> Ended \cup Running]
            /\ (\A u \in Visitors : u # v => pc'[u] = pc[u])
        BY <1>0, <3>3 DEF Goto, TypeOK, Running
      <4> HIDE DEF t
      <4>5. search' \in [Visitors -> Search \cup {None}]
        BY <1>0, <4>2, <4>3 DEF TypeOK
      <4>6. \A u \in Visitors : pc'[u] # "idle" => search'[u] \in Search
        BY <1>0, <3>1, <4>2, <4>3, <4>4 DEF TypeOK
      <4> QED
        BY <1>0, <3>1, <3>3, <4>4, <4>5, <4>6 DEF TypeOK
    <3> QED
      BY <2>6, <3>2, <3>3 DEF CleanSubcategory, Refuse
  <2>7. CASE ClimbToCategory(v)
    <3> DEFINE t == [s EXCEPT !.at = s.up, !.up = Above(s.up)]
    <3>1. s \in Search /\ pc[v] = "ancestors"
          /\ UNCHANGED <<treeVars, editVars, met>>
      BY <2>1, <2>7 DEF ClimbToCategory, At, Running
    <3>2. CASE UNCHANGED search
      BY <1>0, <2>7, <3>1, <3>2
         DEF ClimbToCategory, At, Goto, Refuse, TypeOK, Running, Ended
    <3>3. CASE /\ search' = [search EXCEPT ![v].at = s.up,
                                           ![v].up = Above(s.up)]
               /\ UNCHANGED <<pc, shown>>
      <4>1. t \in Search
        BY <1>0, <3>1, AboveIsKnown DEF Search
      <4>2. search' = [search EXCEPT ![v] = t]
        BY <3>3
      <4> HIDE DEF t
      <4>3. search' \in [Visitors -> Search \cup {None}]
        BY <1>0, <4>1, <4>2 DEF TypeOK
      <4>4. \A u \in Visitors : pc'[u] # "idle" => search'[u] \in Search
        BY <1>0, <3>1, <3>3, <4>1, <4>2 DEF TypeOK
      <4> QED
        BY <1>0, <3>1, <3>3, <4>3, <4>4 DEF TypeOK
    <3> QED
      BY <2>7, <3>2, <3>3 DEF ClimbToCategory, Refuse
  <2>8. CASE List(v)
    <3> DEFINE T == TreeIds(Chosen(v))
    <3>1. shown' \in [Visitors -> SUBSET Categories]
      <4>1. UNCHANGED shown \/ shown' = [shown EXCEPT ![v] = shown[v] \cap T]
        BY <2>8 DEF List
      <4> HIDE DEF T
      <4> QED
        BY <1>0, <4>1 DEF TypeOK
    <3>2. pc' \in [Visitors -> Ended \cup Running] /\ pc[v] # "idle"
          /\ (\A u \in Visitors : u # v => pc'[u] = pc[u])
      BY <1>0, <2>8 DEF List, At, Goto, TypeOK, Running, Ended
    <3>3. UNCHANGED <<treeVars, editVars, met, search>>
      BY <2>8 DEF List, At
    <3> QED
      BY <1>0, <3>1, <3>2, <3>3 DEF TypeOK
  <2>9. CASE Spin(v)
    BY <1>0, <2>9 DEF Spin, At, TypeOK
  <2> QED
    BY <1>7, <2>2, <2>3, <2>4, <2>5, <2>6, <2>7, <2>8, <2>9 DEF Respond
<1> QED
  BY <1>1, <1>2, <1>3, <1>4, <1>5, <1>6, <1>7 DEF Next

-----------------------------------------------------------------------------
(* The climb.                                                              *)

\* Nothing but a climb of its own, and a save, touches what an editor's path
\* says.
LEMMA StepPath ==
  ASSUME CInv, [Next]_vars
  PROVE  (StartsAtParent /\ ClimbIsPath)'
<1> USE DEF treeVars, editVars, visitVars
<1> USE CategoriesAssumption
<1>0. TypeOK /\ StartsAtParent /\ ClimbIsPath
  BY DEF CInv
<1>1. ASSUME UNCHANGED <<treeVars, editVars>>
      PROVE  (StartsAtParent /\ ClimbIsPath)'
  BY <1>0, <1>1 DEF StartsAtParent, ClimbIsPath, Climbed, Above
<1>2. ASSUME NEW e \in Editors, NEW c \in Categories, NEW to \in OrNone,
             NEW on \in BOOLEAN, PostEdit(e, c, to, on)
      PROVE  (StartsAtParent /\ ClimbIsPath)'
  <2>1. edit'[e] = [cat |-> c, to |-> to, on |-> on, seen |-> {c}, at |-> to,
                    up |-> Above(to)]
    BY <1>0, <1>2 DEF PostEdit, TypeOK
  <2>2. \A f \in Editors \ {e} :
          edit'[f] = edit[f] /\ (f \in overtaken' <=> f \in overtaken)
    BY <1>0, <1>2 DEF PostEdit, TypeOK
  <2>3. parent' = parent
    BY <1>2 DEF PostEdit
  <2>4. Climbed(e)' = {}
    BY <2>1 DEF Climbed
  <2>5. StartsAtParent'
    BY <1>0, <2>1, <2>2 DEF StartsAtParent, Climbed
  <2>6. ClimbIsPath'
    BY <1>0, <2>1, <2>2, <2>3, <2>4 DEF ClimbIsPath, Climbed, Above
  <2> QED
    BY <2>5, <2>6
<1>3. ASSUME NEW e \in Editors, Climb(e)
      PROVE  (StartsAtParent /\ ClimbIsPath)'
  <2> DEFINE a == edit[e].at
             W == Climbed(e)
  <2>1. edit[e] \in Edit
    BY <1>0, <1>3, EditIsSome DEF Climb
  <2>2. a \in Categories /\ a \notin edit[e].seen
    BY <1>3, <2>1 DEF Climb, Edit, OrNone
  <2>3. /\ edit'[e].cat = edit[e].cat
        /\ edit'[e].to = edit[e].to
        /\ edit'[e].seen = edit[e].seen \cup {a}
        /\ edit'[e].at = edit[e].up
        /\ edit'[e].up = Above(edit[e].up)
    BY <1>0, <1>3, <2>1 DEF Climb, TypeOK, Edit
  <2>4. /\ \A f \in Editors \ {e} : edit'[f] = edit[f]
        /\ overtaken' = overtaken
        /\ parent' = parent
    BY <1>0, <1>3 DEF Climb, TypeOK
  <2>5. edit[e] # None
    BY <1>3 DEF Climb
  <2>6. edit[e].cat \in edit[e].seen /\ edit[e].to \in W \cup {a}
    BY <1>0, <2>5 DEF StartsAtParent
  <2>7. Climbed(e)' = W \cup {a}
    BY <2>2, <2>3, <2>6 DEF Climbed
  <2>8. \A f \in Editors \ {e} : Climbed(f)' = Climbed(f)
    BY <2>4 DEF Climbed
  <2>9. StartsAtParent'
    BY <1>0, <2>3, <2>4, <2>6, <2>7, <2>8 DEF StartsAtParent
  <2>10. ASSUME e \notin overtaken
         PROVE  /\ edit'[e].up = Above(edit[e].at)'
                /\ \A c \in Climbed(e)' :
                     parent'[c] \in Climbed(e)' \cup {edit'[e].at}
                /\ \A T \in SUBSET Climbed(e)' : T # {} =>
                     edit'[e].at \in T \/ \E c \in T : parent'[c] \notin T
    <3>1. /\ edit[e].up = Above(a)
          /\ \A c \in W : parent[c] \in W \cup {a}
          /\ \A T \in SUBSET W :
               T # {} => a \in T \/ \E c \in T : parent[c] \notin T
      BY <1>0, <2>5, <2>10 DEF ClimbIsPath
    <3>2. edit[e].up = parent[a]
      BY <2>2, <3>1, CategoriesAssumption DEF Above
    <3>3. edit'[e].up = Above(edit[e].at)'
      BY <2>3, <2>4 DEF Above
    <3>4. \A c \in Climbed(e)' :
            parent'[c] \in Climbed(e)' \cup {edit'[e].at}
      BY <2>3, <2>4, <2>7, <3>1, <3>2
    <3>5. ASSUME NEW T \in SUBSET (W \cup {a}), T # {}
          PROVE  parent[a] \in T \/ \E c \in T : parent[c] \notin T
      <4>1. CASE a \in T
        BY <4>1
      <4>2. CASE a \notin T
        BY <3>1, <3>5, <4>2
      <4> QED
        BY <4>1, <4>2
    <3> QED
      BY <2>3, <2>4, <2>7, <3>2, <3>3, <3>4, <3>5
  <2>11. ClimbIsPath'
    <3> SUFFICES ASSUME NEW f \in Editors, edit'[f] # None, f \notin overtaken
                 PROVE  /\ edit'[f].up = Above(edit[f].at)'
                        /\ \A c \in Climbed(f)' :
                             parent'[c] \in Climbed(f)' \cup {edit'[f].at}
                        /\ \A T \in SUBSET Climbed(f)' : T # {} =>
                             \/ edit'[f].at \in T
                             \/ \E c \in T : parent'[c] \notin T
      BY <2>4 DEF ClimbIsPath
    <3>1. CASE f = e
      BY <2>10, <3>1
    <3>2. CASE f # e
      BY <1>0, <2>4, <2>8, <3>2 DEF ClimbIsPath, Above
    <3> QED
      BY <3>1, <3>2
  <2> QED
    BY <2>9, <2>11
<1>4. ASSUME NEW e \in Editors, Save(e)
      PROVE  (StartsAtParent /\ ClimbIsPath)'
  <2>1. /\ edit'[e] = None
        /\ \A f \in Editors \ {e} : edit'[f] = edit[f]
    BY <1>0, <1>4 DEF Save, TypeOK
  <2>2. \A f \in Editors : edit'[f] # None => f \in overtaken'
    BY <1>4, <2>1 DEF Save
  <2> QED
    BY <1>0, <2>1, <2>2 DEF StartsAtParent, ClimbIsPath, Climbed
<1>5. ASSUME NEW e \in Editors, Abandon(e)
      PROVE  (StartsAtParent /\ ClimbIsPath)'
  <2>1. /\ edit'[e] = None
        /\ \A f \in Editors \ {e} :
             edit'[f] = edit[f] /\ (f \in overtaken' <=> f \in overtaken)
        /\ parent' = parent
    BY <1>0, <1>5 DEF Abandon, TypeOK
  <2> QED
    BY <1>0, <2>1 DEF StartsAtParent, ClimbIsPath, Climbed, Above
<1>6. ASSUME NEW v \in Visitors, NEW r \in Requests, Ask(v, r[1], r[2])
      PROVE  (StartsAtParent /\ ClimbIsPath)'
  BY <1>1, <1>6 DEF Ask
<1>7. ASSUME NEW v \in Visitors, Respond(v)
      PROVE  (StartsAtParent /\ ClimbIsPath)'
  <2>1. UNCHANGED <<treeVars, editVars>>
    BY <1>7 DEF Respond, OpenCategory, Descend, PublicInventory,
                CleanCategory, CleanSubcategory, ClimbToCategory, List, Spin,
                At
  <2> QED
    BY <1>1, <2>1
<1>8. CASE UNCHANGED vars
  BY <1>1, <1>8 DEF vars
<1> QED
  BY <1>2, <1>3, <1>4, <1>5, <1>6, <1>7, <1>8 DEF Next

\* The invariant of the edits holds.
LEMMA CInvHolds == Spec => []CInv
<1>1. CInv /\ [Next]_vars => CInv'
  BY StepTypeOK, StepPath DEF CInv
<1> QED
  BY InitInv, <1>1, PTL DEF Spec

\* Rows, forms and requests keep their types; no category is its own parent,
\* whichever edits race.
THEOREM TypeCorrect == Spec => []TypeOK
<1>1. CInv => TypeOK
  BY DEF CInv
<1> QED
  BY CInvHolds, <1>1, PTL

-----------------------------------------------------------------------------
\* What clean read is what the save finds: the categories it climbed have no
\* cycle among them, and none of them is the one that is moved.
LEMMA SaveKeepsTree ==
  ASSUME CInv, NEW e \in Editors, Save(e), e \notin overtaken
  PROVE  Ungrounded' \subseteq Ungrounded
<1> DEFINE cat == edit[e].cat
           to  == edit[e].to
           W   == Climbed(e)
<1>1. /\ edit[e] # None
      /\ edit[e].at = None
      /\ parent' = [parent EXCEPT ![cat] = to]
  BY DEF Save
<1>2. edit[e] \in Edit /\ parent \in [Categories -> OrNone]
  BY <1>1, EditIsSome DEF CInv, TypeOK
<1>3. to \in W \cup {None}
  BY <1>1 DEF CInv, StartsAtParent
<1>4. /\ \A c \in W : parent[c] \in W \cup {None}
      /\ \A T \in SUBSET W :
           T # {} => None \in T \/ \E c \in T : parent[c] \notin T
  BY <1>1 DEF CInv, ClimbIsPath
<1>5. W \subseteq Categories \ {cat}
  BY <1>2 DEF Climbed, Edit
<1>6. ASSUME NEW S \in SUBSET Categories, \A c \in S : parent'[c] \in S
      PROVE  \A c \in S : parent[c] \in S
  <2>1. cat \notin S
    <3> SUFFICES ASSUME cat \in S PROVE FALSE
      OBVIOUS
    <3>1. to \in S
      BY <1>1, <1>2, <1>6
    <3>2. to \in W
      BY <1>3, <3>1, CategoriesAssumption
    <3>3. PICK c \in S \cap W : parent[c] \notin S \cap W
      BY <1>4, <3>1, <3>2, CategoriesAssumption
    <3>4. parent'[c] = parent[c]
      BY <1>1, <1>2, <1>5, <3>3
    <3>5. parent[c] \in S
      BY <1>6, <3>3, <3>4
    <3>6. parent[c] \in W
      BY <1>4, <3>3, <3>5, CategoriesAssumption
    <3> QED
      BY <3>3, <3>5, <3>6
  <2> QED
    BY <1>1, <1>2, <1>6, <2>1
<1> QED
  BY <1>6 DEF Ungrounded

\* clean reads row by row and locks nothing, and yet keeps the tree a tree
\* unless another edit is saved while it climbs: only a race closes a cycle.
THEOREM OnlyRaces == Spec => OnlyRacesCloseCycles
<1>1. CInv /\ [Next]_vars =>
        [\A e \in Editors :
           edit[e] # None /\ Save(e) /\ e \notin overtaken =>
             Ungrounded' \subseteq Ungrounded]_vars
  BY SaveKeepsTree
<1> QED
  BY CInvHolds, <1>1, PTL DEF Spec, OnlyRacesCloseCycles

-----------------------------------------------------------------------------
(* The tree.                                                               *)

\* A set of natural numbers with 0 and the successor of each has them all.
LEMMA NaturalSet ==
  ASSUME NEW S, 0 \in S, \A n \in Nat : n \in S => n + 1 \in S
  PROVE  \A n \in Nat : n \in S
<1> DEFINE T == Nat \ S
           R == OpToRel(<, Nat)
<1>1. SUFFICES ASSUME T # {} PROVE FALSE
  OBVIOUS
<1>2. IsWellFoundedOn(R, Nat) /\ T \subseteq Nat
  BY NatLessThanWellFounded
<1>3. PICK n \in T : \A m \in T : <<m, n>> \notin R
  <2> HIDE DEF R, T
  <2> QED
    BY <1>1, <1>2, WFMin
<1>4. \A m \in T : ~(m < n)
  BY <1>3 DEF OpToRel
<1>5. n \in Nat /\ n # 0 /\ n \notin S
  OBVIOUS
<1>6. n - 1 \in Nat /\ (n - 1) + 1 = n /\ n - 1 < n
  BY <1>5
<1>7. n - 1 \in S
  BY <1>4, <1>6
<1> QED
  BY <1>5, <1>6, <1>7

\* A lineage holds its category and goes on upwards, and nothing else.
LEMMA LineageLeast ==
  ASSUME parent \in [Categories -> OrNone], NEW c \in Categories
  PROVE  /\ c \in Lineage(c)
         /\ Lineage(c) \subseteq Categories
         /\ \A d \in Lineage(c) : parent[d] \in Lineage(c) \cup {None}
         /\ \A S \in SUBSET Categories :
              c \in S /\ (\A d \in S : parent[d] \in S \cup {None})
                => Lineage(c) \subseteq S
<1>1. c \in Lineage(c) /\ Lineage(c) \subseteq Categories
  BY DEF Lineage
<1>2. ASSUME NEW d \in Lineage(c), parent[d] # None
      PROVE  parent[d] \in Lineage(c)
  <2>1. d \in Categories /\ parent[d] \in Categories
    BY <1>1, <1>2 DEF OrNone
  <2> SUFFICES ASSUME NEW S \in SUBSET Categories, c \in S,
                      \A x \in S : parent[x] \in S \cup {None}
               PROVE  parent[d] \in S
    BY <2>1 DEF Lineage
  <2>2. d \in S
    BY DEF Lineage
  <2> QED
    BY <1>2, <2>2
<1>3. ASSUME NEW S \in SUBSET Categories, c \in S,
             \A d \in S : parent[d] \in S \cup {None}
      PROVE  Lineage(c) \subseteq S
  BY <1>3 DEF Lineage
<1> QED
  BY <1>1, <1>2, <1>3

\* The lineage of a category below another is that one's and the category.
LEMMA LineageStep ==
  ASSUME parent \in [Categories -> OrNone], NEW c \in Categories
  PROVE  /\ parent[c] = None => Lineage(c) = {c}
         /\ parent[c] # None => /\ parent[c] \in Categories
                                /\ Lineage(c) = {c} \cup Lineage(parent[c])
<1>1. CASE parent[c] = None
  <2>1. {c} \in SUBSET Categories
        /\ \A d \in {c} : parent[d] \in {c} \cup {None}
    BY <1>1
  <2>2. Lineage(c) \subseteq {c}
    BY <2>1, LineageLeast
  <2> QED
    BY <1>1, <2>2, LineageLeast
<1>2. CASE parent[c] # None
  <2> DEFINE p == parent[c]
             S == {c} \cup Lineage(p)
  <2>1. p \in Categories
    BY <1>2 DEF OrNone
  <2>2. /\ p \in Lineage(p)
        /\ Lineage(p) \subseteq Categories
        /\ \A d \in Lineage(p) : parent[d] \in Lineage(p) \cup {None}
    BY <2>1, LineageLeast
  <2>3. S \in SUBSET Categories /\ c \in S
        /\ \A d \in S : parent[d] \in S \cup {None}
    BY <2>2
  <2>4. Lineage(c) \subseteq S
    <3> HIDE DEF S
    <3> QED
      BY <2>3, LineageLeast
  <2>5. /\ c \in Lineage(c)
        /\ Lineage(c) \in SUBSET Categories
        /\ \A d \in Lineage(c) : parent[d] \in Lineage(c) \cup {None}
    BY LineageLeast
  <2>6. p \in Lineage(c)
    BY <1>2, <2>5
  <2>7. Lineage(p) \subseteq Lineage(c)
    <3>1. \A T \in SUBSET Categories :
            p \in T /\ (\A d \in T : parent[d] \in T \cup {None})
              => Lineage(p) \subseteq T
      BY <2>1, LineageLeast
    <3> QED
      BY <2>5, <2>6, <3>1
  <2> QED
    BY <1>2, <2>1, <2>4, <2>5, <2>7
<1> QED
  BY <1>1, <1>2

\* Whoever is above one that is above a category is above it.
LEMMA LineageNests ==
  ASSUME parent \in [Categories -> OrNone], NEW c \in Categories,
         NEW d \in Lineage(c)
  PROVE  Lineage(d) \subseteq Lineage(c)
  BY LineageLeast

\* A root is grounded, and every other category if its parent is.
LEMMA GroundedStep ==
  ASSUME parent \in [Categories -> OrNone], NEW c \in Categories
  PROVE  c \in Ungrounded <=> parent[c] # None /\ parent[c] \in Ungrounded
<1> USE CategoriesAssumption
<1>1. ASSUME c \in Ungrounded
      PROVE  parent[c] # None /\ parent[c] \in Ungrounded
  BY <1>1 DEF Ungrounded
<1>2. ASSUME parent[c] \in Ungrounded
      PROVE  c \in Ungrounded
  <2>1. PICK S \in SUBSET Categories :
          parent[c] \in S /\ \A d \in S : parent[d] \in S
    BY <1>2 DEF Ungrounded
  <2>2. S \cup {c} \in SUBSET Categories
        /\ \A d \in S \cup {c} : parent[d] \in S \cup {c}
    BY <2>1
  <2> QED
    BY <2>2 DEF Ungrounded
<1> QED
  BY <1>1, <1>2

\* A whole lineage is grounded, or none of it.
LEMMA LineageGrounded ==
  ASSUME parent \in [Categories -> OrNone], NEW c \in Categories,
         NEW d \in Lineage(c)
  PROVE  d \in Ungrounded <=> c \in Ungrounded
<1> DEFINE S == {x \in Lineage(c) : x \in Ungrounded <=> c \in Ungrounded}
<1>1. S \in SUBSET Categories /\ c \in S
  BY LineageLeast
<1>2. \A x \in S : parent[x] \in S \cup {None}
  <2> SUFFICES ASSUME NEW x \in S, parent[x] # None PROVE parent[x] \in S
    OBVIOUS
  <2>1. x \in Categories /\ parent[x] \in Lineage(c)
    BY LineageLeast
  <2> QED
    BY <2>1, GroundedStep
<1>3. Lineage(c) \subseteq S
  <2> HIDE DEF S
  <2> QED
    BY <1>1, <1>2, LineageLeast
<1> QED
  BY <1>3

\* No grounded category is above itself.
LEMMA GroundedAcyclic ==
  ASSUME parent \in [Categories -> OrNone], NEW c \in Categories,
         c \notin Ungrounded, parent[c] # None
  PROVE  c \notin Lineage(parent[c])
<1> DEFINE p == parent[c]
           T == {d \in Lineage(p) : c \in Lineage(d)}
<1> SUFFICES ASSUME c \in Lineage(p) PROVE FALSE
  OBVIOUS
<1>1. p \in Categories /\ p \in T /\ T \in SUBSET Categories
  BY LineageLeast, LineageStep
<1>2. \A d \in T : parent[d] \in T
  <2> SUFFICES ASSUME NEW d \in T PROVE parent[d] \in T
    OBVIOUS
  <2>1. d \in Categories /\ c \in Lineage(d)
    BY <1>1
  <2>2. parent[d] # None
    BY <2>1, LineageStep
  <2>3. parent[d] \in Lineage(p)
    BY <1>1, <2>2, LineageLeast
  <2>4. c = d \/ c \in Lineage(parent[d])
    BY <2>1, <2>2, LineageStep
  <2> QED
    BY <1>1, <2>3, <2>4
<1>3. p \in Ungrounded
  <2> HIDE DEF T
  <2> QED
    BY <1>1, <1>2 DEF Ungrounded
<1> QED
  BY <1>3, GroundedStep

\* How far down a category is
Depth(c) == Cardinality(Lineage(c))

\* A depth is between 1 and the number of categories.
LEMMA DepthIsNat ==
  ASSUME parent \in [Categories -> OrNone], NEW c \in Categories
  PROVE  Depth(c) \in Nat /\ Depth(c) >= 1 /\ Depth(c) <= Cardinality(Categories)
         /\ Cardinality(Categories) \in Nat
<1>1. IsFiniteSet(Lineage(c)) /\ Depth(c) <= Cardinality(Categories)
  BY LineageLeast, CategoriesAssumption, FS_Subset DEF Depth
<1>2. Depth(c) \in Nat /\ Cardinality(Categories) \in Nat
  BY <1>1, CategoriesAssumption, FS_CardinalityType DEF Depth
<1>3. Depth(c) # 0
  BY <1>1, FS_EmptySet, LineageLeast DEF Depth
<1> QED
  BY <1>1, <1>2, <1>3

\* A grounded category is one further down than its parent.
LEMMA DepthStep ==
  ASSUME parent \in [Categories -> OrNone], NEW c \in Categories,
         c \notin Ungrounded
  PROVE  /\ parent[c] = None => Depth(c) = 1
         /\ parent[c] # None => Depth(c) = Depth(parent[c]) + 1
<1>1. CASE parent[c] = None
  BY <1>1, LineageStep, FS_Singleton DEF Depth
<1>2. CASE parent[c] # None
  <2>1. /\ parent[c] \in Categories
        /\ Lineage(c) = Lineage(parent[c]) \cup {c}
        /\ c \notin Lineage(parent[c])
    BY <1>2, LineageStep, GroundedAcyclic
  <2>2. IsFiniteSet(Lineage(parent[c]))
    BY <2>1, LineageLeast, CategoriesAssumption, FS_Subset
  <2> QED
    BY <1>2, <2>1, <2>2, FS_AddElement DEF Depth
<1> QED
  BY <1>1, <1>2

\* Further up is nearer to the root.
LEMMA DepthOrders ==
  ASSUME parent \in [Categories -> OrNone], NEW c \in Categories,
         NEW d \in Lineage(c)
  PROVE  d \in Categories /\ Depth(d) <= Depth(c)
         /\ (c \notin Ungrounded /\ Depth(d) = Depth(c) => d = c)
<1>1. d \in Categories /\ Lineage(d) \subseteq Lineage(c)
  BY LineageLeast, LineageNests
<1>2. IsFiniteSet(Lineage(c))
  BY LineageLeast, CategoriesAssumption, FS_Subset
<1>3. Depth(d) <= Depth(c)
  BY <1>1, <1>2, FS_Subset DEF Depth
<1>4. ASSUME c \notin Ungrounded, d # c PROVE Depth(d) # Depth(c)
  <2>1. parent[c] # None /\ parent[c] \in Categories
        /\ d \in Lineage(parent[c])
    BY <1>4, LineageStep
  <2>2. Lineage(d) \subseteq Lineage(parent[c])
    BY <2>1, LineageNests
  <2>3. IsFiniteSet(Lineage(parent[c]))
    BY <2>1, LineageLeast, CategoriesAssumption, FS_Subset
  <2>4. Depth(d) <= Depth(parent[c])
    BY <2>2, <2>3, FS_Subset DEF Depth
  <2>5. Depth(c) = Depth(parent[c]) + 1
    BY <1>4, <2>1, DepthStep
  <2> QED
    BY <1>1, <2>1, <2>4, <2>5, DepthIsNat
<1> QED
  BY <1>1, <1>3, <1>4

-----------------------------------------------------------------------------
(* The walks up and down, in closed form.                                  *)

\* The categories from which a climb of at most n steps arrives
Near(n) == {c \in Categories : IsPublic(c) /\ Depth(c) <= n}

\* A step up leaves one step fewer.
LEMMA NearStep ==
  ASSUME parent \in [Categories -> OrNone], active \subseteq Categories, NEW n \in Nat
  PROVE  /\ Near(0) = {}
         /\ Near(n + 1) = {c \in active : parent[c] \in Near(n) \cup {None}}
<1> USE CategoriesAssumption
<1>1. Near(0) = {}
  BY DepthIsNat DEF Near
<1>2. ASSUME NEW c \in Categories
      PROVE  c \in Near(n + 1) <=> c \in active /\ parent[c] \in Near(n) \cup {None}
  <2>1. CASE parent[c] = None
    <3>1. c \notin Ungrounded /\ Lineage(c) = {c}
      BY <2>1, GroundedStep, LineageStep
    <3>2. Depth(c) = 1
      BY <2>1, <3>1, DepthStep
    <3> QED
      BY <2>1, <3>1, <3>2 DEF Near, IsPublic
  <2>2. CASE parent[c] # None
    <3> DEFINE p == parent[c]
    <3>1. p \in Categories /\ p # None
      BY <2>2 DEF OrNone
    <3>2. /\ c \in Ungrounded <=> p \in Ungrounded
          /\ Lineage(c) = {c} \cup Lineage(p)
      BY <2>2, <3>1, GroundedStep, LineageStep
    <3>3. c \notin Ungrounded => Depth(c) = Depth(p) + 1
      BY <2>2, <3>1, DepthStep
    <3>4. Depth(p) \in Nat
      BY <3>1, DepthIsNat
    <3> HIDE DEF p
    <3>5. Lineage(c) \subseteq active <=> c \in active /\ Lineage(p) \subseteq active
      BY <3>2
    <3>6. c \notin Ungrounded => (Depth(c) <= n + 1 <=> Depth(p) <= n)
      BY <3>3, <3>4
    <3>7. c \in Near(n + 1) <=> c \in active /\ p \in Near(n)
      BY <3>1, <3>2, <3>5, <3>6 DEF Near, IsPublic
    <3> QED
      BY <3>1, <3>7 DEF p
  <2> QED
    BY <2>1, <2>2
<1>3. \A c \in Near(n + 1) : c \in Categories
  BY DEF Near
<1> QED
  BY <1>1, <1>2, <1>3

\* The function that ClimbsToRoot defines
IsWithin(h) ==
  h = [n \in 0 .. Cardinality(Categories) |->
         IF n = 0 THEN {} ELSE {c \in active : parent[c] \in h[n - 1] \cup {None}}]

\* That function exists: it is Near.
LEMMA WithinExists ==
  ASSUME parent \in [Categories -> OrNone], active \subseteq Categories
  PROVE  \E h : IsWithin(h)
<1> DEFINE N == Cardinality(Categories)
           h == [n \in 0 .. N |-> Near(n)]
<1>1. N \in Nat
  BY CategoriesAssumption, FS_CardinalityType
<1>2. ASSUME NEW n \in 0 .. N
      PROVE  Near(n) = IF n = 0 THEN {}
                       ELSE {c \in active : parent[c] \in h[n - 1] \cup {None}}
  <2>1. CASE n = 0
    BY <2>1, NearStep
  <2>2. CASE n # 0
    <3>1. n - 1 \in Nat /\ n - 1 \in 0 .. N /\ (n - 1) + 1 = n
      BY <1>1, <2>2
    <3>2. h[n - 1] = Near(n - 1)
      BY <3>1
    <3>3. Near(n) = {c \in active : parent[c] \in Near(n - 1) \cup {None}}
      BY <3>1, NearStep
    <3> QED
      BY <2>2, <3>2, <3>3
  <2> QED
    BY <2>1, <2>2
<1>3. IsWithin(h)
  BY <1>2 DEF IsWithin
<1> QED
  BY <1>3

\* Whatever satisfies its equation is Near.
LEMMA WithinUnique ==
  ASSUME parent \in [Categories -> OrNone], active \subseteq Categories,
         NEW h, IsWithin(h)
  PROVE  \A n \in 0 .. Cardinality(Categories) : h[n] = Near(n)
<1> DEFINE N == Cardinality(Categories)
           S == {n \in Nat : n <= N => h[n] = Near(n)}
<1>1. N \in Nat
  BY CategoriesAssumption, FS_CardinalityType
<1>2. ASSUME NEW n \in 0 .. N
      PROVE  h[n] = IF n = 0 THEN {}
                    ELSE {c \in active : parent[c] \in h[n - 1] \cup {None}}
  BY DEF IsWithin
<1>3. 0 \in S
  <2>1. Near(0) = {}
    BY NearStep, <1>1
  <2>2. h[0] = {}
    <3>1. 0 \in 0 .. N
      BY <1>1
    <3> QED
      BY <3>1 DEF IsWithin
  <2> QED
    BY <2>1, <2>2
<1>4. ASSUME NEW n \in Nat, n \in S PROVE n + 1 \in S
  <2> SUFFICES ASSUME n + 1 <= N PROVE h[n + 1] = Near(n + 1)
    OBVIOUS
  <2>1. n + 1 \in 0 .. N /\ (n + 1) - 1 = n /\ n <= N /\ n + 1 # 0
    BY <1>1
  <2>2. h[n + 1] = {c \in active : parent[c] \in h[n] \cup {None}}
    BY <1>2, <2>1
  <2> QED
    BY <1>4, <2>1, <2>2, NearStep
<1>5. \A n \in Nat : n \in S
  <2> HIDE DEF S
  <2> QED
    BY <1>3, <1>4, NaturalSet
<1> SUFFICES ASSUME NEW n \in 0 .. N PROVE h[n] = Near(n)
  OBVIOUS
<1>6. n \in Nat /\ n <= N
  BY <1>1
<1> QED
  BY <1>5, <1>6

\* The climb through the active categories finds exactly the public ones.
LEMMA PublicIsExact ==
  ASSUME parent \in [Categories -> OrNone], active \subseteq Categories
  PROVE  PublicIds = {c \in Categories : IsPublic(c)}
<1> DEFINE N == Cardinality(Categories)
           g == CHOOSE h : IsWithin(h)
<1>1. IsWithin(g)
  BY WithinExists
<1>2. N \in 0 .. N
  BY CategoriesAssumption, FS_CardinalityType
<1>3. ASSUME NEW c \in Categories PROVE ClimbsToRoot(c) <=> c \in g[N]
  BY DEF ClimbsToRoot, IsWithin
<1>4. g[N] = Near(N)
  <2> HIDE DEF g
  <2> QED
    BY <1>1, <1>2, WithinUnique
<1>5. Near(N) = {c \in Categories : IsPublic(c)}
  BY DepthIsNat DEF Near
<1> QED
  BY <1>3, <1>4, <1>5 DEF PublicIds

\* The categories n steps below a category, each by active ones
Rank(c, n) ==
  {x \in Categories : /\ c \in Lineage(x)
                      /\ Lineage(x) \ Lineage(c) \subseteq active
                      /\ Depth(x) = Depth(c) + n}

\* A level down is one step further.
LEMMA RankStep ==
  ASSUME parent \in [Categories -> OrNone], NEW c \in Categories,
         c \notin Ungrounded, NEW n \in Nat
  PROVE  /\ Rank(c, 0) = {c}
         /\ Rank(c, n + 1) = Children(Rank(c, n)) \cap active
<1> USE CategoriesAssumption
<1>0. /\ Depth(c) \in Nat
      /\ c \in Lineage(c)
      /\ \A x \in Categories : Depth(x) \in Nat
  BY DepthIsNat, LineageLeast
<1>1. ASSUME NEW x \in Categories, c \in Lineage(x)
      PROVE  x \notin Ungrounded /\ (Depth(x) = Depth(c) => x = c)
  BY <1>1, LineageGrounded, DepthOrders
<1>2. Rank(c, 0) = {c}
  <2>1. ASSUME NEW x \in Rank(c, 0) PROVE x = c
    BY <1>0, <1>1 DEF Rank
  <2>2. c \in Rank(c, 0)
    BY <1>0 DEF Rank
  <2> QED
    BY <2>1, <2>2
<1>3. ASSUME NEW x \in Categories
      PROVE  x \in Rank(c, n + 1) <=> parent[x] \in Rank(c, n) /\ x \in active
  <2> DEFINE p == parent[x]
  <2>1. CASE p = None
    <3>1. p \notin Rank(c, n)
      BY <2>1 DEF Rank
    <3>2. ASSUME c \in Lineage(x) PROVE Depth(x) # Depth(c) + (n + 1)
      <4>1. x = c
        BY <2>1, <3>2, LineageStep
      <4> QED
        BY <4>1, <1>0
    <3> QED
      BY <3>1, <3>2 DEF Rank
  <2>2. CASE p # None
    <3>1. p \in Categories /\ Lineage(x) = {x} \cup Lineage(p)
      BY <2>2, LineageStep
    <3>2. x \in Ungrounded <=> p \in Ungrounded
      BY <2>2, GroundedStep
    <3>3. x \notin Ungrounded => Depth(x) = Depth(p) + 1
      BY <2>2, DepthStep
    <3>4. Depth(p) \in Nat /\ Depth(x) \in Nat
      BY <1>0, <3>1
    <3> HIDE DEF p
    <3>5. ASSUME p \in Rank(c, n), x \in active
          PROVE  x \in Rank(c, n + 1)
      <4>1. p \notin Ungrounded
        BY <1>1, <3>1, <3>5 DEF Rank
      <4>2. Depth(x) = Depth(c) + (n + 1)
        BY <1>0, <3>2, <3>3, <3>4, <3>5, <4>1 DEF Rank
      <4> QED
        BY <3>1, <3>5, <4>2 DEF Rank
    <3>6. ASSUME x \in Rank(c, n + 1)
          PROVE  p \in Rank(c, n) /\ x \in active
      <4>1. c \in Lineage(x) /\ Depth(x) = Depth(c) + (n + 1)
            /\ Lineage(x) \ Lineage(c) \subseteq active
        BY <3>6 DEF Rank
      <4>2. x # c /\ x \notin Ungrounded
        BY <1>0, <1>1, <4>1
      <4>3. x \notin Lineage(c)
        <5>1. x \in Lineage(c) => Depth(x) <= Depth(c)
          BY DepthOrders
        <5> QED
          BY <1>0, <4>1, <5>1
      <4>4. Depth(p) = Depth(c) + n
        BY <1>0, <3>3, <3>4, <4>1, <4>2
      <4>5. c \in Lineage(p)
        BY <3>1, <4>1, <4>2
      <4> QED
        BY <3>1, <4>1, <4>3, <4>4, <4>5 DEF Rank
    <3> QED
      BY <3>5, <3>6 DEF p
  <2> QED
    BY <2>1, <2>2
<1>4. \A x \in Rank(c, n + 1) : x \in Categories
  BY DEF Rank
<1>5. \A x \in Children(Rank(c, n)) : x \in Categories /\ parent[x] \in Rank(c, n)
  BY DEF Children
<1>6. Rank(c, n + 1) = Children(Rank(c, n)) \cap active
  BY <1>3, <1>4, <1>5 DEF Children
<1> QED
  BY <1>2, <1>6

\* The function that Level defines
IsDown(h, c, n) ==
  h = [k \in 0 .. n |->
         IF k = 0 THEN {c} ELSE Children(h[k - 1]) \cap active]

\* That function exists: it is Rank.
LEMMA DownExists ==
  ASSUME parent \in [Categories -> OrNone], NEW c \in Categories,
         c \notin Ungrounded, NEW n \in Nat
  PROVE  \E h : IsDown(h, c, n)
<1> DEFINE h == [k \in 0 .. n |-> Rank(c, k)]
<1>1. ASSUME NEW k \in 0 .. n
      PROVE  Rank(c, k) = IF k = 0 THEN {c}
                          ELSE Children(h[k - 1]) \cap active
  <2>1. CASE k = 0
    BY <2>1, RankStep
  <2>2. CASE k # 0
    <3>1. k - 1 \in Nat /\ k - 1 \in 0 .. n /\ (k - 1) + 1 = k
      BY <2>2
    <3>2. h[k - 1] = Rank(c, k - 1)
      BY <3>1
    <3>3. Rank(c, k) = Children(Rank(c, k - 1)) \cap active
      BY <3>1, RankStep
    <3> QED
      BY <2>2, <3>2, <3>3
  <2> QED
    BY <2>1, <2>2
<1>2. IsDown(h, c, n)
  BY <1>1 DEF IsDown
<1> QED
  BY <1>2

\* Whatever satisfies its equation is Rank.
LEMMA DownUnique ==
  ASSUME parent \in [Categories -> OrNone], NEW c \in Categories,
         c \notin Ungrounded, NEW n \in Nat, NEW h, IsDown(h, c, n)
  PROVE  \A k \in 0 .. n : h[k] = Rank(c, k)
<1> DEFINE S == {k \in Nat : k <= n => h[k] = Rank(c, k)}
<1>1. ASSUME NEW k \in 0 .. n
      PROVE  h[k] = IF k = 0 THEN {c} ELSE Children(h[k - 1]) \cap active
  BY DEF IsDown
<1>2. 0 \in S
  <2>1. Rank(c, 0) = {c}
    BY RankStep
  <2>2. h[0] = {c}
    <3>1. 0 \in 0 .. n
      OBVIOUS
    <3> QED
      BY <3>1 DEF IsDown
  <2> QED
    BY <2>1, <2>2
<1>3. ASSUME NEW k \in Nat, k \in S PROVE k + 1 \in S
  <2> SUFFICES ASSUME k + 1 <= n PROVE h[k + 1] = Rank(c, k + 1)
    OBVIOUS
  <2>1. k + 1 \in 0 .. n /\ (k + 1) - 1 = k /\ k <= n /\ k + 1 # 0
    OBVIOUS
  <2>2. h[k + 1] = Children(h[k]) \cap active
    BY <1>1, <2>1
  <2> QED
    BY <1>3, <2>1, <2>2, RankStep
<1>4. \A k \in Nat : k \in S
  <2> HIDE DEF S
  <2> QED
    BY <1>2, <1>3, NaturalSet
<1> SUFFICES ASSUME NEW k \in 0 .. n PROVE h[k] = Rank(c, k)
  OBVIOUS
<1>5. k \in Nat /\ k <= n
  OBVIOUS
<1> QED
  BY <1>4, <1>5

\* Level by level, the descent finds what is that far below the category.
LEMMA LevelIsRank ==
  ASSUME parent \in [Categories -> OrNone], NEW c \in Categories,
         c \notin Ungrounded, NEW n \in Nat
  PROVE  Level(c, n) = Rank(c, n)
<1> DEFINE g == CHOOSE h : IsDown(h, c, n)
<1>1. IsDown(g, c, n)
  BY DownExists
<1>2. Level(c, n) = g[n]
  BY DEF Level, IsDown
<1>3. g[n] = Rank(c, n)
  <2> HIDE DEF g
  <2>1. n \in 0 .. n
    OBVIOUS
  <2> QED
    BY <1>1, <2>1, DownUnique
<1> QED
  BY <1>2, <1>3

\* From a category that is not below itself the descent comes to an end.
LEMMA GroundedHasBottom ==
  ASSUME parent \in [Categories -> OrNone], NEW c \in Categories,
         c \notin Ungrounded
  PROVE  ~Bottomless(c)
<1> DEFINE N == Cardinality(Categories)
<1>1. N \in Nat /\ Depth(c) \in Nat /\ Depth(c) >= 1
  BY DepthIsNat
<1>2. Level(c, N) = Rank(c, N)
  BY <1>1, LevelIsRank
<1>3. ASSUME NEW x \in Rank(c, N) PROVE FALSE
  <2>1. x \in Categories /\ Depth(x) = Depth(c) + N
    BY DEF Rank
  <2>2. Depth(x) \in Nat /\ Depth(x) <= N
    BY <2>1, DepthIsNat
  <2> QED
    BY <1>1, <2>1, <2>2
<1> QED
  BY <1>2, <1>3 DEF Bottomless

\* From a public one it finds the public categories at or below it.
LEMMA TreeIsExact ==
  ASSUME parent \in [Categories -> OrNone], NEW c \in Categories, IsPublic(c)
  PROVE  TreeIds(c) = {x \in Categories : IsPublic(x) /\ c \in Lineage(x)}
<1> DEFINE N == Cardinality(Categories)
<1>0. c \notin Ungrounded /\ Lineage(c) \subseteq active
  BY DEF IsPublic
<1>1. N \in Nat /\ Depth(c) \in Nat /\ Depth(c) >= 1
  BY DepthIsNat
<1>2. \A n \in 0 .. N : Level(c, n) = Rank(c, n)
  BY <1>0, <1>1, LevelIsRank
<1>3. ASSUME NEW n \in 0 .. N, NEW x \in Rank(c, n)
      PROVE  x \in Categories /\ IsPublic(x) /\ c \in Lineage(x)
  <2>1. x \in Categories /\ c \in Lineage(x)
        /\ Lineage(x) \ Lineage(c) \subseteq active
    BY DEF Rank
  <2>2. x \notin Ungrounded
    BY <1>0, <2>1, LineageGrounded
  <2> QED
    BY <1>0, <2>1, <2>2 DEF IsPublic
<1>4. ASSUME NEW x \in Categories, IsPublic(x), c \in Lineage(x)
      PROVE  \E n \in 0 .. N : x \in Rank(c, n)
  <2> DEFINE n == Depth(x) - Depth(c)
  <2>1. Depth(x) \in Nat /\ Depth(x) <= N /\ Depth(c) <= Depth(x)
    BY <1>4, DepthIsNat, DepthOrders
  <2>2. n \in 0 .. N /\ Depth(x) = Depth(c) + n
    BY <1>1, <2>1
  <2>3. Lineage(x) \ Lineage(c) \subseteq active
    BY <1>4 DEF IsPublic
  <2>4. x \in Rank(c, n)
    BY <1>4, <2>2, <2>3 DEF Rank
  <2> QED
    BY <2>2, <2>4
<1>5. \A x : x \in TreeIds(c) <=> \E n \in 0 .. N : x \in Level(c, n)
  BY DEF TreeIds
<1>6. \A x : x \in TreeIds(c) <=> \E n \in 0 .. N : x \in Rank(c, n)
  BY <1>2, <1>5
<1> QED
  BY <1>3, <1>4, <1>6

-----------------------------------------------------------------------------
(* The searches.                                                           *)

Public    == {c \in Categories : IsPublic(c)}
LineageOf == [c \in Categories |-> Lineage(c)]

\* What is below the category asked for, what the menu of subcategories offers
\* then, and whether the menus offer what is asked
BelowAsked(v) == {c \in Public : /\ c # search[v].cat
                                 /\ search[v].cat \in LineageOf[c]}
RootAsked(v)  == search[v].cat \in Public /\ parent[search[v].cat] = None
Menu(v)       == {c \in Public : RootAsked(v) => c \in BelowAsked(v)}
Offered(v)    ==
  /\ search[v].cat # None => RootAsked(v)
  /\ search[v].sub # None =>
       /\ search[v].sub \in Public
       /\ parent[search[v].sub] # None
       /\ search[v].cat # None => search[v].cat \in LineageOf[search[v].sub]

\* The categories that the form offers.
MenusAreExact(v) ==
  /\ search[v].public = Public
  /\ pc[v] = "category" => search[v].cat # None /\ search[v].found = Public
  /\ pc[v] \in {"objects", "clean", "subcategory"} => search[v].found = Menu(v)

\* The descent has found nothing else, and of what it found it has left behind
\* no child.
DescentIsExact(v) ==
  pc[v] = "levels" =>
    /\ RootAsked(v)
    /\ search[v].found \subseteq BelowAsked(v)
    /\ search[v].pending \subseteq search[v].found \cup {search[v].cat}
    /\ \A c \in Public :
         parent[c] \in (search[v].found \cup {search[v].cat}) \ search[v].pending
           => c \in search[v].found

\* The form is valid as far as it was cleaned.
FormIsExact(v) ==
  /\ pc[v] \in {"clean", "subcategory", "ancestors", "tree"} =>
       shown[v] = Public
  /\ pc[v] = "subcategory" => search[v].cat = None \/ RootAsked(v)
  /\ pc[v] = "ancestors" =>
       /\ RootAsked(v)
       /\ search[v].sub \in BelowAsked(v)
       /\ search[v].at \in Categories
       /\ search[v].cat \in LineageOf[search[v].at]
       /\ search[v].up = parent[search[v].at]
  /\ pc[v] = "tree" => Offered(v)

AnswerIsExact(v) ==
  /\ pc[v] # "endless"
  /\ pc[v] = "refused" => ~Offered(v)
  /\ pc[v] = "listed" =>
       /\ Offered(v)
       /\ shown[v] = {c \in Public : Chosen(v) # None => Chosen(v) \in LineageOf[c]}

VisitIsExact(v) ==
  met[v] = "nothing" /\ pc[v] # "idle" =>
    /\ MenusAreExact(v)
    /\ DescentIsExact(v)
    /\ FormIsExact(v)
    /\ AnswerIsExact(v)

SearchInv == \A v \in Visitors : VisitIsExact(v)

-----------------------------------------------------------------------------
\* What the walks up and down say in these terms
LEMMA PublicTree ==
  ASSUME TypeOK
  PROVE  /\ PublicIds = Public
         /\ Public \subseteq Categories
         /\ \A c \in Public :
              TreeIds(c) = {x \in Public : c \in LineageOf[x]} /\ ~Bottomless(c)
<1>1. parent \in [Categories -> OrNone] /\ active \subseteq Categories
  BY DEF TypeOK
<1>2. PublicIds = Public
  BY <1>1, PublicIsExact DEF Public
<1>3. ASSUME NEW c \in Public
      PROVE  TreeIds(c) = {x \in Public : c \in LineageOf[x]} /\ ~Bottomless(c)
  <2>1. c \in Categories /\ IsPublic(c) /\ c \notin Ungrounded
    BY DEF Public, IsPublic
  <2>2. TreeIds(c) = {x \in Categories : IsPublic(x) /\ c \in Lineage(x)}
    BY <1>1, <2>1, TreeIsExact
  <2>3. ~Bottomless(c)
    BY <1>1, <2>1, GroundedHasBottom
  <2> QED
    BY <2>2, <2>3 DEF Public, LineageOf
<1> QED
  BY <1>2, <1>3 DEF Public

\* What is below a category is the category or below its parent.
LEMMA LineageOfStep ==
  ASSUME TypeOK, NEW c \in Categories
  PROVE  /\ c \in LineageOf[c]
         /\ parent[c] = None => LineageOf[c] = {c}
         /\ parent[c] # None => /\ parent[c] \in Categories
                                /\ LineageOf[c] = {c} \cup LineageOf[parent[c]]
<1>1. parent \in [Categories -> OrNone]
  BY DEF TypeOK
<1> QED
  BY <1>1, LineageStep, LineageLeast DEF LineageOf

\* A descent that has left no child behind has found all that is below.
LEMMA DescentEnds ==
  ASSUME TypeOK, NEW x \in Categories, NEW F,
         \A c \in Public : parent[c] \in F \cup {x} => c \in F,
         NEW c \in Public, x \in LineageOf[c], c # x
  PROVE  c \in F
<1> SUFFICES ASSUME c \notin F PROVE FALSE
  OBVIOUS
<1> DEFINE T == {d \in Public : x \in LineageOf[d] /\ d \notin F \cup {x}}
<1>1. parent \in [Categories -> OrNone]
  BY DEF TypeOK
<1>2. ASSUME NEW d \in T PROVE parent[d] \in T
  <2>1. d \in Categories /\ d \in Public /\ x \in LineageOf[d] /\ d \notin F
        /\ d # x
    BY DEF Public
  <2>2. parent[d] # None /\ parent[d] \in Categories
        /\ x \in LineageOf[parent[d]]
    BY <2>1, LineageOfStep
  <2>3. parent[d] \in Public
    <3>1. d \notin Ungrounded /\ Lineage(d) \subseteq active
      BY <2>1 DEF Public, IsPublic
    <3>2. parent[d] \notin Ungrounded
      BY <1>1, <2>1, <2>2, <3>1, GroundedStep
    <3>3. Lineage(parent[d]) \subseteq active
      BY <1>1, <2>1, <2>2, <3>1, LineageStep
    <3> QED
      BY <2>2, <3>2, <3>3 DEF Public, IsPublic
  <2>4. parent[d] \notin F \cup {x}
    BY <2>1
  <2> QED
    BY <2>2, <2>3, <2>4
<1>3. c \in T /\ T \in SUBSET Categories
  BY DEF Public
<1>4. c \in Ungrounded
  <2> HIDE DEF T
  <2> QED
    BY <1>2, <1>3 DEF Ungrounded
<1> QED
  BY <1>4 DEF Public, IsPublic

\* Whoever neither sees the tree change nor takes a step is where they were.
LEMMA TreeIsSame ==
  ASSUME UNCHANGED treeVars
  PROVE  Public' = Public /\ LineageOf' = LineageOf /\ parent' = parent
<1>1. parent' = parent /\ active' = active
  BY DEF treeVars
<1>2. LineageOf' = LineageOf
  BY <1>1 DEF LineageOf, Lineage
<1>3. Ungrounded' = Ungrounded
  BY <1>1 DEF Ungrounded
<1>4. \A c \in Categories : Lineage(c)' = Lineage(c)
  BY <1>1 DEF Lineage
<1>5. Public' = Public
  BY <1>1, <1>3, <1>4 DEF Public, IsPublic
<1> QED
  BY <1>1, <1>2, <1>5

\* What is known of a search stays when neither it nor the tree moves.
LEMMA VisitStays ==
  ASSUME NEW v \in Visitors, VisitIsExact(v), UNCHANGED treeVars,
         pc'[v] = pc[v], search'[v] = search[v], shown'[v] = shown[v],
         met'[v] = met[v]
  PROVE  VisitIsExact(v)'
<1>1. Public' = Public /\ LineageOf' = LineageOf /\ parent' = parent
  BY TreeIsSame
<1> QED
  BY <1>1 DEF VisitIsExact, MenusAreExact, DescentIsExact, FormIsExact,
              AnswerIsExact, BelowAsked, RootAsked, Menu, Offered, Chosen

USE DEF treeVars, editVars, visitVars

\* What a step of a search knows, and leaves as it was
LEMMA RespondsTo ==
  ASSUME TypeOK, NEW v \in Visitors, VisitIsExact(v), Respond(v)
  PROVE  /\ search[v] \in Search
         /\ UNCHANGED <<treeVars, editVars, met>>
         /\ \A w \in Visitors \ {v} : /\ pc'[w] = pc[w]
                                      /\ search'[w] = search[w]
                                      /\ shown'[w] = shown[w]
         /\ search'[v].cat = search[v].cat /\ search'[v].sub = search[v].sub
         /\ search'[v].public = search[v].public
<1>1. search[v] \in Search
  BY DEF Respond, OpenCategory, Descend, PublicInventory, CleanCategory,
         CleanSubcategory, ClimbToCategory, List, Spin, At, TypeOK
<1>2. UNCHANGED <<treeVars, editVars, met>>
  BY DEF Respond, OpenCategory, Descend, PublicInventory, CleanCategory,
         CleanSubcategory, ClimbToCategory, List, Spin, At
<1>3. \A w \in Visitors \ {v} : pc'[w] = pc[w] /\ shown'[w] = shown[w]
  BY DEF Respond, OpenCategory, Descend, PublicInventory, CleanCategory,
         CleanSubcategory, ClimbToCategory, List, Spin, Goto, Refuse, TypeOK
<1>4. /\ \A w \in Visitors \ {v} : search'[w] = search[w]
      /\ search'[v].cat = search[v].cat /\ search'[v].sub = search[v].sub
      /\ search'[v].public = search[v].public
  BY <1>1 DEF Respond, OpenCategory, Descend, PublicInventory, CleanCategory,
         CleanSubcategory, ClimbToCategory, List, Spin, Refuse, TypeOK, Search
<1> QED
  BY <1>1, <1>2, <1>3, <1>4

\* What is asked and what the tree says of it stay the same.
LEMMA AskedIsSame ==
  ASSUME UNCHANGED treeVars, NEW v \in Visitors,
         search'[v].cat = search[v].cat, search'[v].sub = search[v].sub
  PROVE  /\ Public' = Public /\ LineageOf' = LineageOf /\ parent' = parent
         /\ BelowAsked(v)' = BelowAsked(v)
         /\ RootAsked(v)' <=> RootAsked(v)
         /\ Menu(v)' = Menu(v)
         /\ Offered(v)' <=> Offered(v)
         /\ Chosen(v)' = Chosen(v)
<1>1. Public' = Public /\ LineageOf' = LineageOf /\ parent' = parent
  BY TreeIsSame
<1> QED
  BY <1>1 DEF BelowAsked, RootAsked, Menu, Offered, Chosen

\* The form goes down only from a root that the menu offers.
LEMMA StepOpenCategory ==
  ASSUME TypeOK, NEW v \in Visitors, VisitIsExact(v), OpenCategory(v)
  PROVE  VisitIsExact(v)'
<1> SUFFICES ASSUME met'[v] = "nothing" PROVE VisitIsExact(v)'
  BY DEF VisitIsExact
<1>0. Respond(v) /\ pc[v] = "category"
  BY DEF Respond, OpenCategory, At
<1>1. /\ search[v] \in Search /\ UNCHANGED treeVars /\ met[v] = "nothing"
      /\ search'[v].cat = search[v].cat /\ search'[v].sub = search[v].sub
      /\ search'[v].public = search[v].public
  BY <1>0, RespondsTo
<1>2. /\ search[v].public = Public /\ search[v].found = Public
  BY <1>0, <1>1 DEF VisitIsExact, MenusAreExact
<1>3. IsChoice(v) <=> RootAsked(v)
  BY <1>2 DEF IsChoice, RootAsked
<1>4. CASE /\ IsChoice(v)
           /\ search' = [search EXCEPT ![v].found = {},
                                       ![v].pending = {search[v].cat}]
           /\ Goto(v, "levels")
  <2>1. /\ search'[v].found = {} /\ search'[v].pending = {search[v].cat}
        /\ pc'[v] = "levels"
    BY <1>1, <1>4 DEF TypeOK, Search, Goto
  <2> QED
    BY <1>1, <1>2, <1>3, <1>4, <2>1, AskedIsSame
       DEF VisitIsExact, MenusAreExact, DescentIsExact, FormIsExact,
           AnswerIsExact
<1>5. CASE ~IsChoice(v) /\ Goto(v, "objects") /\ UNCHANGED search
  <2>1. pc'[v] = "objects" /\ search'[v].found = Public
    BY <1>2, <1>5 DEF TypeOK, Goto
  <2>2. Menu(v) = Public
    BY <1>3, <1>5 DEF Menu
  <2> QED
    BY <1>1, <1>2, <2>1, <2>2, AskedIsSame
       DEF VisitIsExact, MenusAreExact, DescentIsExact, FormIsExact,
           AnswerIsExact
<1> QED
  BY <1>4, <1>5 DEF OpenCategory

\* A level down adds public categories below the one asked for, and no other.
LEMMA StepDescend ==
  ASSUME TypeOK, NEW v \in Visitors, VisitIsExact(v), Descend(v)
  PROVE  VisitIsExact(v)'
<1> SUFFICES ASSUME met'[v] = "nothing" PROVE VisitIsExact(v)'
  BY DEF VisitIsExact
<1> DEFINE x == search[v].cat
           found == search[v].found
           pending == search[v].pending
           below == Children(pending) \cap search[v].public
<1>0. Respond(v) /\ pc[v] = "levels"
  BY DEF Respond, Descend, At
<1>1. /\ search[v] \in Search /\ UNCHANGED treeVars /\ met[v] = "nothing"
      /\ search'[v].cat = search[v].cat /\ search'[v].sub = search[v].sub
      /\ search'[v].public = search[v].public
  BY <1>0, RespondsTo
<1>2. /\ search[v].public = Public /\ RootAsked(v)
      /\ found \subseteq BelowAsked(v)
      /\ pending \subseteq found \cup {x}
      /\ \A c \in Public : parent[c] \in (found \cup {x}) \ pending => c \in found
  BY <1>0, <1>1 DEF VisitIsExact, MenusAreExact, DescentIsExact
<1>3. x \in Public /\ x \in Categories /\ parent[x] = None
      /\ Public \subseteq Categories
  BY <1>2, PublicTree DEF RootAsked
<1>4. CASE /\ search' = [search EXCEPT ![v].found = @ \cup below,
                                       ![v].pending = below]
           /\ UNCHANGED pc
  <2>1. /\ search'[v].found = found \cup below /\ search'[v].pending = below
        /\ pc'[v] = "levels"
    BY <1>0, <1>1, <1>4 DEF TypeOK, Search
  <2>2. below = {c \in Public : parent[c] \in pending}
    BY <1>2, <1>3 DEF Children
  <2>3. ASSUME NEW c \in below PROVE c \in BelowAsked(v)
    <3>1. c \in Public /\ c \in Categories /\ parent[c] \in found \cup {x}
      BY <1>2, <1>3, <2>2
    <3>2. parent[c] \in Categories
      BY <1>2, <1>3, <3>1 DEF BelowAsked
    <3>3. parent[c] # None
      BY <3>2, CategoriesAssumption
    <3>4. x \in LineageOf[parent[c]]
      BY <1>2, <1>3, <3>1, LineageOfStep DEF BelowAsked
    <3>5. x \in LineageOf[c]
      BY <3>1, <3>3, <3>4, LineageOfStep
    <3> QED
      BY <1>3, <3>1, <3>3, <3>5 DEF BelowAsked
  <2>4. ASSUME NEW c \in Public,
               parent[c] \in ((found \cup below) \cup {x}) \ below
        PROVE  c \in found \cup below
    BY <1>2, <2>2, <2>4
  <2> HIDE DEF below
  <2> QED
    BY <1>1, <1>2, <2>1, <2>3, <2>4, AskedIsSame
       DEF VisitIsExact, MenusAreExact, DescentIsExact, FormIsExact,
           AnswerIsExact
<1>5. CASE pending = {} /\ Goto(v, "objects") /\ UNCHANGED search
  <2>1. pc'[v] = "objects" /\ search'[v].found = found
    BY <1>5 DEF TypeOK, Goto
  <2>2. Menu(v) = BelowAsked(v)
    BY <1>2 DEF Menu, BelowAsked
  <2>3. \A c \in Public : parent[c] \in found \cup {x} => c \in found
    BY <1>2, <1>5
  <2>4. ASSUME NEW c \in BelowAsked(v) PROVE c \in found
    <3>1. c \in Public /\ c # x /\ x \in LineageOf[c]
      BY DEF BelowAsked
    <3> HIDE DEF x, found
    <3> QED
      BY <1>3, <2>3, <3>1, DescentEnds
  <2>5. found = Menu(v)
    BY <1>2, <2>2, <2>4
  <2> QED
    BY <1>1, <1>2, <2>1, <2>5, AskedIsSame
       DEF VisitIsExact, MenusAreExact, DescentIsExact, FormIsExact,
           AnswerIsExact
<1> QED
  BY <1>4, <1>5 DEF Descend

\* The inventory reads the tree that the menus have read.
LEMMA StepPublicInventory ==
  ASSUME TypeOK, NEW v \in Visitors, VisitIsExact(v), PublicInventory(v)
  PROVE  VisitIsExact(v)'
<1> SUFFICES ASSUME met'[v] = "nothing" PROVE VisitIsExact(v)'
  BY DEF VisitIsExact
<1>0. Respond(v) /\ pc[v] = "objects"
  BY DEF Respond, PublicInventory, At
<1>1. /\ search[v] \in Search /\ UNCHANGED treeVars /\ met[v] = "nothing"
      /\ search'[v].cat = search[v].cat /\ search'[v].sub = search[v].sub
      /\ search'[v].public = search[v].public
  BY <1>0, RespondsTo
<1>2. search[v].public = Public /\ search[v].found = Menu(v)
  BY <1>0, <1>1 DEF VisitIsExact, MenusAreExact
<1>3. /\ pc'[v] = "clean" /\ shown'[v] = Public /\ search'[v] = search[v]
  BY PublicTree DEF PublicInventory, Goto, TypeOK
<1> QED
  BY <1>1, <1>2, <1>3, AskedIsSame
     DEF VisitIsExact, MenusAreExact, DescentIsExact, FormIsExact,
         AnswerIsExact

\* The form takes a root of the menu and refuses any other category.
LEMMA StepCleanCategory ==
  ASSUME TypeOK, NEW v \in Visitors, VisitIsExact(v), CleanCategory(v)
  PROVE  VisitIsExact(v)'
<1> SUFFICES ASSUME met'[v] = "nothing" PROVE VisitIsExact(v)'
  BY DEF VisitIsExact
<1>0. Respond(v) /\ pc[v] = "clean"
  BY DEF Respond, CleanCategory, At
<1>1. /\ search[v] \in Search /\ UNCHANGED treeVars /\ met[v] = "nothing"
      /\ search'[v].cat = search[v].cat /\ search'[v].sub = search[v].sub
      /\ search'[v].public = search[v].public
  BY <1>0, RespondsTo
<1>2. /\ search[v].public = Public /\ search[v].found = Menu(v)
      /\ shown[v] = Public
  BY <1>0, <1>1 DEF VisitIsExact, MenusAreExact, FormIsExact
<1>3. IsChoice(v) <=> RootAsked(v)
  BY <1>2 DEF IsChoice, RootAsked
<1>4. search'[v] = search[v]
  BY DEF CleanCategory, Refuse
<1>5. CASE /\ search[v].cat = None \/ IsChoice(v)
           /\ Goto(v, "subcategory") /\ UNCHANGED <<search, shown>>
  <2>1. pc'[v] = "subcategory" /\ shown'[v] = Public
    BY <1>2, <1>5 DEF Goto, TypeOK
  <2> QED
    BY <1>1, <1>2, <1>3, <1>4, <1>5, <2>1, AskedIsSame
       DEF VisitIsExact, MenusAreExact, DescentIsExact, FormIsExact,
           AnswerIsExact
<1>6. CASE search[v].cat # None /\ ~IsChoice(v) /\ Refuse(v)
  <2>1. pc'[v] = "refused"
    BY <1>6 DEF Refuse, Goto, TypeOK
  <2>2. ~Offered(v)
    BY <1>3, <1>6 DEF Offered
  <2> QED
    BY <1>1, <1>2, <2>1, <2>2, AskedIsSame
       DEF VisitIsExact, MenusAreExact, DescentIsExact, FormIsExact,
           AnswerIsExact
<1> QED
  BY <1>5, <1>6 DEF CleanCategory

\* The form takes a subcategory of the menu, and climbs if a root is asked for
\* too.
LEMMA StepCleanSubcategory ==
  ASSUME TypeOK, NEW v \in Visitors, VisitIsExact(v), CleanSubcategory(v)
  PROVE  VisitIsExact(v)'
<1> SUFFICES ASSUME met'[v] = "nothing" PROVE VisitIsExact(v)'
  BY DEF VisitIsExact
<1> DEFINE x == search[v].cat
           y == search[v].sub
<1>0. Respond(v) /\ pc[v] = "subcategory"
  BY DEF Respond, CleanSubcategory, At
<1>1. /\ search[v] \in Search /\ UNCHANGED treeVars /\ met[v] = "nothing"
      /\ search'[v].cat = search[v].cat /\ search'[v].sub = search[v].sub
      /\ search'[v].public = search[v].public
  BY <1>0, RespondsTo
<1>2. /\ search[v].public = Public /\ search[v].found = Menu(v)
      /\ shown[v] = Public /\ (x = None \/ RootAsked(v))
  BY <1>0, <1>1 DEF VisitIsExact, MenusAreExact, FormIsExact
<1>3. Public \subseteq Categories /\ None \notin Public
  BY PublicTree, CategoriesAssumption
<1>4. CASE y = None /\ Goto(v, "tree") /\ UNCHANGED <<search, shown>>
  <2>1. pc'[v] = "tree" /\ shown'[v] = Public
    BY <1>2, <1>4 DEF Goto, TypeOK
  <2>2. Offered(v)
    BY <1>2, <1>4 DEF Offered
  <2> QED
    BY <1>1, <1>2, <2>1, <2>2, AskedIsSame
       DEF VisitIsExact, MenusAreExact, DescentIsExact, FormIsExact,
           AnswerIsExact
<1>5. CASE /\ y # None /\ y \in search[v].public \cap search[v].found
           /\ parent[y] # None
           /\ search' = [search EXCEPT ![v].at = parent[y],
                                       ![v].up = Above(parent[y])]
           /\ Goto(v, IF x = None THEN "tree" ELSE "ancestors")
           /\ UNCHANGED shown
  <2>1. /\ search'[v].at = parent[y] /\ search'[v].up = Above(parent[y])
        /\ pc'[v] = IF x = None THEN "tree" ELSE "ancestors"
        /\ shown'[v] = Public
    BY <1>1, <1>2, <1>5 DEF Goto, TypeOK, Search
  <2>2. y \in Public /\ y \in Menu(v) /\ y \in Categories
    BY <1>2, <1>3, <1>5
  <2>3. CASE x = None
    <3>1. Offered(v)
      BY <1>5, <2>2, <2>3 DEF Offered
    <3> QED
      BY <1>1, <1>2, <2>1, <2>3, <3>1, AskedIsSame
         DEF VisitIsExact, MenusAreExact, DescentIsExact, FormIsExact,
             AnswerIsExact
  <2>4. CASE x # None
    <3>1. RootAsked(v) /\ y \in BelowAsked(v)
      BY <1>2, <2>2, <2>4 DEF Menu
    <3>2. parent[y] \in Categories /\ x \in LineageOf[parent[y]]
      BY <1>5, <2>2, <3>1, LineageOfStep DEF BelowAsked
    <3>3. search'[v].up = parent[parent[y]]
      BY <1>5, <2>1 DEF Above
    <3> QED
      BY <1>1, <1>2, <2>1, <2>4, <3>1, <3>2, <3>3, AskedIsSame
         DEF VisitIsExact, MenusAreExact, DescentIsExact, FormIsExact,
             AnswerIsExact
  <2> QED
    BY <2>3, <2>4
<1>6. CASE /\ y # None /\ Refuse(v)
           /\ ~(y \in search[v].public \cap search[v].found /\ parent[y] # None)
  <2>1. pc'[v] = "refused" /\ search'[v] = search[v]
    BY <1>6 DEF Refuse, Goto, TypeOK
  <2>2. ~Offered(v)
    <3> SUFFICES ASSUME Offered(v) PROVE FALSE
      OBVIOUS
    <3>1. y \in Public /\ parent[y] # None /\ y \notin Menu(v)
      BY <1>2, <1>6 DEF Offered
    <3>2. RootAsked(v) /\ y \notin BelowAsked(v)
      BY <3>1 DEF Menu
    <3>3. x # None /\ parent[x] = None
      BY <1>3, <3>2 DEF RootAsked
    <3> QED
      BY <1>6, <3>1, <3>2, <3>3 DEF Offered, BelowAsked
  <2> QED
    BY <1>1, <1>2, <2>1, <2>2, AskedIsSame
       DEF VisitIsExact, MenusAreExact, DescentIsExact, FormIsExact,
           AnswerIsExact
<1> QED
  BY <1>4, <1>5, <1>6 DEF CleanSubcategory

\* The climb stays below the root asked for until it is there.
LEMMA StepClimbToCategory ==
  ASSUME TypeOK, NEW v \in Visitors, VisitIsExact(v), ClimbToCategory(v)
  PROVE  VisitIsExact(v)'
<1> SUFFICES ASSUME met'[v] = "nothing" PROVE VisitIsExact(v)'
  BY DEF VisitIsExact
<1> DEFINE x == search[v].cat
           y == search[v].sub
           a == search[v].at
<1>0. Respond(v) /\ pc[v] = "ancestors"
  BY DEF Respond, ClimbToCategory, At
<1>1. /\ search[v] \in Search /\ UNCHANGED treeVars /\ met[v] = "nothing"
      /\ search'[v].cat = search[v].cat /\ search'[v].sub = search[v].sub
      /\ search'[v].public = search[v].public
  BY <1>0, RespondsTo
<1>2. /\ search[v].public = Public /\ shown[v] = Public
      /\ RootAsked(v) /\ y \in BelowAsked(v)
      /\ a \in Categories /\ x \in LineageOf[a] /\ search[v].up = parent[a]
  BY <1>0, <1>1 DEF VisitIsExact, MenusAreExact, FormIsExact
<1>3. a # None
  BY <1>2, CategoriesAssumption
<1>4. CASE Goto(v, "tree") /\ UNCHANGED <<search, shown>>
  <2>1. pc'[v] = "tree" /\ shown'[v] = Public
    BY <1>2, <1>4 DEF Goto, TypeOK
  <2>2. y \in Categories /\ y # x /\ x \in LineageOf[y] /\ y \in Public
    BY <1>2, PublicTree DEF BelowAsked
  <2>3. parent[y] # None
    BY <2>2, LineageOfStep
  <2>4. Offered(v)
    BY <1>2, <2>2, <2>3 DEF Offered
  <2> QED
    BY <1>1, <1>2, <2>1, <2>4, AskedIsSame
       DEF VisitIsExact, MenusAreExact, DescentIsExact, FormIsExact,
           AnswerIsExact
<1>5. CASE /\ a \notin {x, None}
           /\ search' = [search EXCEPT ![v].at = search[v].up,
                                       ![v].up = Above(search[v].up)]
           /\ UNCHANGED <<pc, shown>>
  <2>1. /\ search'[v].at = parent[a] /\ search'[v].up = Above(parent[a])
        /\ pc'[v] = "ancestors" /\ shown'[v] = Public
    BY <1>0, <1>1, <1>2, <1>5 DEF TypeOK, Search
  <2>2. parent[a] # None /\ parent[a] \in Categories
        /\ x \in LineageOf[parent[a]]
    BY <1>2, <1>5, LineageOfStep
  <2>3. search'[v].up = parent[parent[a]]
    BY <2>1, <2>2 DEF Above
  <2> QED
    BY <1>1, <1>2, <2>1, <2>2, <2>3, AskedIsSame
       DEF VisitIsExact, MenusAreExact, DescentIsExact, FormIsExact,
           AnswerIsExact
<1> QED
  BY <1>3, <1>4, <1>5 DEF ClimbToCategory

\* What is listed is what is public at or below the category chosen.
LEMMA StepList ==
  ASSUME TypeOK, NEW v \in Visitors, VisitIsExact(v), List(v)
  PROVE  VisitIsExact(v)'
<1> SUFFICES ASSUME met'[v] = "nothing" PROVE VisitIsExact(v)'
  BY DEF VisitIsExact
<1> DEFINE c == Chosen(v)
           T == TreeIds(c)
<1>0. Respond(v) /\ pc[v] = "tree"
  BY DEF Respond, List, At
<1>1. /\ search[v] \in Search /\ UNCHANGED treeVars /\ met[v] = "nothing"
      /\ search'[v].cat = search[v].cat /\ search'[v].sub = search[v].sub
      /\ search'[v].public = search[v].public
  BY <1>0, RespondsTo
<1>2. search[v].public = Public /\ shown[v] = Public /\ Offered(v)
  BY <1>0, <1>1 DEF VisitIsExact, MenusAreExact, FormIsExact
<1>3. c # None => c \in Public
  BY <1>2 DEF Offered, RootAsked, Chosen
<1>4. c # None => T = {z \in Public : c \in LineageOf[z]} /\ ~Bottomless(c)
  <2>1. c \in Public => T = {z \in Public : c \in LineageOf[z]} /\ ~Bottomless(c)
    <3>1. \A d \in Public :
            TreeIds(d) = {z \in Public : d \in LineageOf[z]} /\ ~Bottomless(d)
      BY PublicTree
    <3> QED
      BY <3>1
  <2> QED
    BY <1>3, <2>1
<1>5. search'[v] = search[v]
  BY DEF List
<1>6. CASE c = None /\ Goto(v, "listed") /\ UNCHANGED shown
  <2>1. pc'[v] = "listed" /\ shown'[v] = Public
    BY <1>2, <1>6 DEF Goto, TypeOK
  <2> QED
    BY <1>1, <1>2, <1>6, <2>1, AskedIsSame
       DEF VisitIsExact, MenusAreExact, DescentIsExact, FormIsExact,
           AnswerIsExact
<1>7. CASE /\ c # None /\ Goto(v, "listed")
           /\ shown' = [shown EXCEPT ![v] = @ \cap T]
  <2> HIDE DEF T
  <2>1. pc'[v] = "listed" /\ shown'[v] = Public \cap T
    BY <1>2, <1>7 DEF Goto, TypeOK
  <2>2. shown'[v] = {z \in Public : c # None => c \in LineageOf[z]}
    BY <1>4, <1>7, <2>1
  <2> QED
    BY <1>1, <1>2, <2>1, <2>2, AskedIsSame
       DEF VisitIsExact, MenusAreExact, DescentIsExact, FormIsExact,
           AnswerIsExact
<1> QED
  BY <1>4, <1>6, <1>7 DEF List

\* Nothing else that happens concerns a search that met no edit.
LEMMA StepSearch ==
  ASSUME TypeOK, SearchInv, [Next]_vars
  PROVE  SearchInv'
<1> SUFFICES ASSUME NEW v \in Visitors PROVE VisitIsExact(v)'
  BY DEF SearchInv
<1>0. VisitIsExact(v)
  BY DEF SearchInv
<1>1. ASSUME UNCHANGED <<treeVars, visitVars>> PROVE VisitIsExact(v)'
  <2>1. /\ UNCHANGED treeVars /\ pc'[v] = pc[v] /\ search'[v] = search[v]
        /\ shown'[v] = shown[v] /\ met'[v] = met[v]
    BY <1>1
  <2> QED
    BY <1>0, <2>1, VisitStays
<1>2. CASE UNCHANGED vars
  BY <1>1, <1>2 DEF vars
<1>3. ASSUME NEW e \in Editors, NEW c \in Categories, NEW to \in OrNone,
             NEW on \in BOOLEAN, PostEdit(e, c, to, on)
      PROVE  VisitIsExact(v)'
  BY <1>1, <1>3 DEF PostEdit
<1>4. ASSUME NEW e \in Editors, Climb(e) \/ Abandon(e)
      PROVE  VisitIsExact(v)'
  BY <1>1, <1>4 DEF Climb, Abandon
<1>5. ASSUME NEW e \in Editors, Save(e)
      PROVE  VisitIsExact(v)'
  <2>1. met'[v] # "nothing"
    BY <1>5 DEF Save
  <2> QED
    BY <2>1 DEF VisitIsExact
<1>6. ASSUME NEW w \in Visitors, NEW r \in Requests, Ask(w, r[1], r[2])
      PROVE  VisitIsExact(v)'
  <2>1. UNCHANGED treeVars
    BY <1>6 DEF Ask
  <2>2. CASE v = w
    <3>1. /\ search'[v].cat = r[1] /\ search'[v].sub = r[2]
          /\ search'[v].public = Public /\ search'[v].found = Public
          /\ pc'[v] = IF r[1] = None THEN "objects" ELSE "category"
      BY <1>6, <2>2, PublicTree DEF Ask, Goto, TypeOK
    <3>2. Public' = Public
      BY <2>1, TreeIsSame
    <3>3. r[1] = None => Menu(v)' = Public'
      <4>1. None \notin Public'
        BY <3>2, PublicTree, CategoriesAssumption
      <4> QED
        BY <3>1, <4>1 DEF Menu, RootAsked
    <3> QED
      BY <3>1, <3>2, <3>3 DEF VisitIsExact, MenusAreExact, DescentIsExact,
                              FormIsExact, AnswerIsExact
  <2>3. CASE v # w
    <3>1. /\ pc'[v] = pc[v] /\ search'[v] = search[v]
          /\ shown'[v] = shown[v] /\ met'[v] = met[v]
      BY <1>6, <2>3 DEF Ask, Goto, TypeOK
    <3> QED
      BY <1>0, <2>1, <3>1, VisitStays
  <2> QED
    BY <2>2, <2>3
<1>7. ASSUME NEW w \in Visitors, Respond(w)
      PROVE  VisitIsExact(v)'
  <2>0. VisitIsExact(w)
    BY DEF SearchInv
  <2>1. CASE v # w
    <3>1. /\ UNCHANGED treeVars /\ met'[v] = met[v]
          /\ pc'[v] = pc[v] /\ search'[v] = search[v]
          /\ shown'[v] = shown[v]
      BY <1>7, <2>0, <2>1, RespondsTo
    <3> QED
      BY <1>0, <3>1, VisitStays
  <2>2. CASE v = w
    <3>1. CASE OpenCategory(v)
      BY <1>0, <3>1, StepOpenCategory
    <3>2. CASE Descend(v)
      BY <1>0, <3>2, StepDescend
    <3>3. CASE PublicInventory(v)
      BY <1>0, <3>3, StepPublicInventory
    <3>4. CASE CleanCategory(v)
      BY <1>0, <3>4, StepCleanCategory
    <3>5. CASE CleanSubcategory(v)
      BY <1>0, <3>5, StepCleanSubcategory
    <3>6. CASE ClimbToCategory(v)
      BY <1>0, <3>6, StepClimbToCategory
    <3>7. CASE List(v)
      BY <1>0, <3>7, StepList
    <3>8. CASE Spin(v)
      <4>1. pc[v] = "endless" /\ met'[v] = met[v]
        BY <3>8 DEF Spin, At
      <4> QED
        BY <1>0, <4>1 DEF VisitIsExact, AnswerIsExact
    <3> QED
      BY <1>7, <2>2, <3>1, <3>2, <3>3, <3>4, <3>5, <3>6, <3>7, <3>8
         DEF Respond
  <2> QED
    BY <2>1, <2>2
<1> QED
  BY <1>2, <1>3, <1>4, <1>5, <1>6, <1>7 DEF Next

\* A search during which nobody edits, on any tree and with cycles in it, lists
\* the public categories at or below the one that was asked for and no other,
\* and is refused only if the menus do not offer it: the walks of the menus, of
\* the form and of the filter agree.
THEOREM SearchesAreExact == Spec => []SearchIsExact
<1>1. Init => SearchInv
  BY DEF Init, SearchInv, VisitIsExact
<1>2. CInv /\ SearchInv /\ [Next]_vars => SearchInv'
  BY StepSearch DEF CInv
<1>3. CInv /\ SearchInv => SearchIsExact
  <2> SUFFICES ASSUME CInv, SearchInv, NEW v \in Visitors,
                      met[v] = "nothing", pc[v] \in {"listed", "refused"}
               PROVE  /\ pc[v] = "listed" <=> IsAbout(search[v].cat, search[v].sub)
                      /\ pc[v] = "listed" =>
                           shown[v] = {c \in Categories :
                             IsPublic(c) /\ (Chosen(v) # None =>
                                               Chosen(v) \in Lineage(c))}
    BY DEF SearchIsExact
  <2>1. search[v] \in Search
    BY DEF CInv, TypeOK
  <2>2. AnswerIsExact(v)
    BY DEF SearchInv, VisitIsExact
  <2>3. Offered(v) <=> IsAbout(search[v].cat, search[v].sub)
    BY <2>1 DEF Offered, RootAsked, Public, LineageOf, IsAbout, Search, OrNone
  <2>4. \A c \in Categories : LineageOf[c] = Lineage(c)
    BY DEF LineageOf
  <2> QED
    BY <2>2, <2>3, <2>4 DEF AnswerIsExact, Public
<1> QED
  BY CInvHolds, <1>1, <1>2, <1>3, PTL DEF Spec

-----------------------------------------------------------------------------
(* The searches that do not end.                                           *)

\* While no cycle closes, a search works with categories from which every path
\* leads down to an end.
GroundedSearch(v) ==
  met[v] # "cycle" /\ pc[v] # "idle" =>
    /\ search[v].public \cap Ungrounded = {}
    /\ pc[v] \in {"subcategory", "ancestors", "tree"} =>
         search[v].cat \in search[v].public \cup {None}
    /\ pc[v] \in {"ancestors", "tree"} =>
         search[v].sub \in search[v].public \cup {None}
    /\ pc[v] # "endless"

GroundedInv == \A v \in Visitors : GroundedSearch(v)

\* A search meets a category below itself only if a cycle closes under way.
LEMMA StepGrounded ==
  ASSUME TypeOK, GroundedInv, [Next]_vars
  PROVE  GroundedInv'
<1> SUFFICES ASSUME NEW v \in Visitors, met'[v] # "cycle", pc'[v] # "idle"
             PROVE  GroundedSearch(v)'
  BY DEF GroundedInv, GroundedSearch
<1>0. GroundedSearch(v)
  BY DEF GroundedInv
<1>1. ASSUME Ungrounded' \subseteq Ungrounded, met[v] # "cycle",
             pc'[v] = pc[v], search'[v] = search[v]
      PROVE  GroundedSearch(v)'
  BY <1>0, <1>1 DEF GroundedSearch
<1>2. ASSUME UNCHANGED treeVars PROVE Ungrounded' = Ungrounded
  BY <1>2 DEF Ungrounded
<1>3. ASSUME UNCHANGED <<treeVars, visitVars>> PROVE GroundedSearch(v)'
  <2>1. UNCHANGED treeVars /\ pc' = pc /\ search' = search /\ met' = met
    BY <1>3
  <2>2. Ungrounded' = Ungrounded
    BY <1>2, <2>1
  <2> QED
    BY <1>1, <2>1, <2>2
<1>4. ASSUME NEW e \in Editors,
             \/ \E c \in Categories, to \in OrNone, on \in BOOLEAN :
                  PostEdit(e, c, to, on)
             \/ Climb(e) \/ Abandon(e)
      PROVE  GroundedSearch(v)'
  BY <1>3, <1>4 DEF PostEdit, Climb, Abandon
<1>5. ASSUME NEW e \in Editors, Save(e)
      PROVE  GroundedSearch(v)'
  <2>1. Ungrounded' \subseteq Ungrounded /\ met[v] # "cycle"
    BY <1>5 DEF Save
  <2> QED
    BY <1>1, <1>5, <2>1 DEF Save
<1>6. ASSUME NEW w \in Visitors, NEW r \in Requests, Ask(w, r[1], r[2])
      PROVE  GroundedSearch(v)'
  <2>1. UNCHANGED treeVars
    BY <1>6 DEF Ask
  <2>2. CASE v = w
    <3>1. search'[v].public = Public /\ pc'[v] \in {"objects", "category"}
      BY <1>6, <2>2, PublicTree DEF Ask, Goto, TypeOK
    <3>2. Public \cap Ungrounded' = {}
      BY <1>2, <2>1 DEF Public, IsPublic
    <3> QED
      BY <3>1, <3>2 DEF GroundedSearch
  <2>3. CASE v # w
    <3>1. pc'[v] = pc[v] /\ search'[v] = search[v] /\ met'[v] = met[v]
      BY <1>6, <2>3 DEF Ask, Goto, TypeOK
    <3> QED
      BY <1>1, <1>2, <2>1, <3>1
  <2> QED
    BY <2>2, <2>3
<1>7. ASSUME NEW w \in Visitors, Respond(w)
      PROVE  GroundedSearch(v)'
  <2>1. UNCHANGED <<treeVars, met>>
    BY <1>7 DEF Respond, OpenCategory, Descend, PublicInventory, CleanCategory,
         CleanSubcategory, ClimbToCategory, List, Spin, At
  <2>2. CASE v # w
    <3>1. pc'[v] = pc[v] /\ search'[v] = search[v]
      BY <1>7, <2>2 DEF Respond, OpenCategory, Descend, PublicInventory,
           CleanCategory, CleanSubcategory, ClimbToCategory, List, Spin, Goto,
           Refuse, TypeOK
    <3> QED
      BY <1>1, <1>2, <2>1, <3>1
  <2>3. CASE v = w
    <3>1. pc[v] \in Running /\ search[v] \in Search
      BY <1>7, <2>3 DEF Respond, OpenCategory, Descend, PublicInventory,
           CleanCategory, CleanSubcategory, ClimbToCategory, List, Spin, At,
           TypeOK, Running
    <3>2. /\ search'[v].cat = search[v].cat /\ search'[v].sub = search[v].sub
          /\ search'[v].public = search[v].public
      BY <1>7, <2>3, <3>1 DEF Respond, OpenCategory, Descend, PublicInventory,
           CleanCategory, CleanSubcategory, ClimbToCategory, List, Spin,
           Refuse, TypeOK, Search
    <3>3. /\ search[v].public \cap Ungrounded = {}
          /\ pc[v] \in {"subcategory", "ancestors", "tree"} =>
               search[v].cat \in search[v].public \cup {None}
          /\ pc[v] \in {"ancestors", "tree"} =>
               search[v].sub \in search[v].public \cup {None}
          /\ pc[v] # "endless"
      BY <1>0, <2>1, <3>1 DEF GroundedSearch, Running
    <3>4. Ungrounded' = Ungrounded
      BY <1>2, <2>1
    <3> SUFFICES /\ pc'[v] \in {"subcategory", "ancestors", "tree"} =>
                      search[v].cat \in search[v].public \cup {None}
                 /\ pc'[v] \in {"ancestors", "tree"} =>
                      search[v].sub \in search[v].public \cup {None}
                 /\ pc'[v] # "endless"
      BY <3>2, <3>3, <3>4 DEF GroundedSearch
    <3>5. CASE OpenCategory(v) \/ Descend(v) \/ PublicInventory(v)
      BY <3>5 DEF OpenCategory, Descend, PublicInventory, At, Goto, TypeOK
    <3>6. CASE CleanCategory(v)
      BY <3>6 DEF CleanCategory, IsChoice, Refuse, At, Goto, TypeOK
    <3>7. CASE CleanSubcategory(v)
      BY <3>3, <3>7 DEF CleanSubcategory, Refuse, At, Goto, TypeOK
    <3>8. CASE ClimbToCategory(v)
      BY <3>3, <3>8 DEF ClimbToCategory, Refuse, At, Goto, TypeOK
    <3>9. CASE List(v)
      <4>1. pc[v] = "tree"
        BY <3>9 DEF List, At
      <4>2. Chosen(v) # None =>
              Chosen(v) \in Categories /\ Chosen(v) \notin Ungrounded
        BY <3>1, <3>3, <4>1 DEF Chosen, Search
      <4>3. Chosen(v) # None => ~Bottomless(Chosen(v))
        <5> DEFINE c == Chosen(v)
        <5>1. parent \in [Categories -> OrNone]
          BY DEF TypeOK
        <5>2. c # None => c \in Categories /\ c \notin Ungrounded
          BY <4>2
        <5> HIDE DEF c
        <5>3. c # None => ~Bottomless(c)
          BY <5>1, <5>2, GroundedHasBottom
        <5> QED
          BY <5>3 DEF c
      <4>4. pc'[v] = "listed"
        BY <3>9, <4>3 DEF List, Goto, TypeOK
      <4> QED
        BY <4>4
    <3>10. CASE Spin(v)
      BY <3>3, <3>10 DEF Spin, At
    <3> QED
      BY <1>7, <2>3, <3>5, <3>6, <3>7, <3>8, <3>9, <3>10 DEF Respond
  <2> QED
    BY <2>2, <2>3
<1>8. CASE UNCHANGED vars
  BY <1>3, <1>8 DEF vars
<1> QED
  BY <1>4, <1>5, <1>6, <1>7, <1>8 DEF Next

\* A descent that never ends needs a cycle that closes while the request is
\* under way: a cycle that was there before hides its categories, it does not
\* hang the search.
THEOREM OnlyCyclesHang ==
  Spec => [](\A v \in Visitors : pc[v] = "endless" => met[v] = "cycle")
<1>1. Init => GroundedInv
  BY DEF Init, GroundedInv, GroundedSearch
<1>2. CInv /\ GroundedInv /\ [Next]_vars => GroundedInv'
  BY StepGrounded DEF CInv
<1>3. GroundedInv => \A v \in Visitors : pc[v] = "endless" => met[v] = "cycle"
  BY DEF GroundedInv, GroundedSearch
<1> QED
  BY CInvHolds, <1>1, <1>2, <1>3, PTL DEF Spec
=============================================================================
