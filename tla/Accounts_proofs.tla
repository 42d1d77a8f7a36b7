--------------------------- MODULE Accounts_proofs ---------------------------
(***************************************************************************)
(* Proofs about Accounts, for every set of accounts, links and workers and *)
(* every cooldown and lifetime: what the row locks protect, and the        *)
(* properties of links and accounts that follow.                           *)
(***************************************************************************)
EXTENDS Accounts, TLAPS

\* The request of w has what its step needs, and its link is where the step
\* left it.
SessionTyped(w) ==
  /\ pc[w] # "idle" => req[w].now <= clock
  /\ pc[w] = "asked" /\ req[w].op \in Issuing => req[w].email \in Emails
  /\ pc[w] = "asked" /\ req[w].op \in Redeeming =>
       req[w].link \in mailed /\ link[req[w].link].kind = Kind(req[w].op)
  /\ pc[w] = "inserting" => req[w].op = "start"
  /\ pc[w] \in {"inserting", "issuing", "sent", "mailing"} =>
       req[w].op \in Issuing /\ req[w].email \in Emails
  /\ pc[w] # "idle" /\ req[w].op = "start" => req[w].nif \in Nifs
  /\ pc[w] \in {"sent", "mailing", "holding", "redeeming"} =>
       /\ req[w].link \in Links
       /\ link[req[w].link].state # "free"
       /\ link[req[w].link].kind = Kind(req[w].op)
       /\ link[req[w].link].owner = req[w].email
  /\ pc[w] = "sent" =>
       /\ req[w].op # "request"
       /\ req[w].link \in mailed
       /\ link[req[w].link].state = "draft"
  /\ pc[w] = "mailing" =>
       /\ req[w].op = "request"
       /\ req[w].link \notin mailed
       /\ link[req[w].link].state \in {"live", "invalid"}
  /\ pc[w] \in {"holding", "redeeming"} =>
       /\ req[w].op \in Redeeming
       /\ req[w].link \in mailed
       /\ link[req[w].link].state \in {"live", "used", "invalid"}
  /\ pc[w] = "login" =>
       req[w].link \in mailed /\ link[req[w].link].state = "used"

\* What w has tested under its locks is still so.
StillSo(w) ==
  /\ pc[w] \in {"issuing", "sent"} =>
       /\ status[req[w].email] = "none" =>
            req[w].op = "start" /\ ~NifTaken(req[w].nif)
       /\ status[req[w].email] # "none" => MayAsk(w)
       /\ \A l \in Stored(req[w].email, Kind(req[w].op)) :
            link[l].created + Cooldown < req[w].now
  /\ pc[w] = "sent" => req[w].now <= link[req[w].link].created
  /\ pc[w] = "redeeming" => Redeemable(w)

\* Two workers hold no row in common, and insert nothing in common.
Apart(w, r) ==
  /\ \A e \in Emails : ~(HoldsAccount(w, e) /\ HoldsAccount(r, e))
  /\ \A l \in Links : ~(HoldsLink(w, l) /\ HoldsLink(r, l))
  /\ /\ pc[w] \in {"issuing", "sent"} /\ status[req[w].email] = "none"
     /\ pc[r] \in {"issuing", "sent"} /\ status[req[r].email] = "none"
     => req[w].nif # req[r].nif
  /\ pc[w] \in {"sent", "mailing"} /\ pc[r] \in {"sent", "mailing"} =>
       req[w].link # req[r].link

\* What the tables keep
RowsSound ==
  /\ \A l \in mailed : link[l].state # "free"
  /\ \A l \in signedBy : link[l].state = "used"
  /\ \A l \in Links :
       /\ link[l].state = "used" => l \in mailed
       /\ link[l].state \in {"live", "used", "invalid"}
          /\ link[l].kind = "registration" => l \in mailed
  /\ \A e \in Emails : status[e] \in {"none", "pending"} => password[e] = None

LinksInv ==
  /\ TypeOK
  /\ \A w \in Workers : SessionTyped(w)
  /\ \A w \in Workers : StillSo(w)
  /\ \A w, r \in Workers : w # r => Apart(w, r)
  /\ RowsSound
  /\ LinksApart
  /\ LiveIsNewest
  /\ PendingWasMailed
  /\ RewardedForCompleting
  /\ SignsInOnce

(***************************************************************************)
(* Types.                                                                  *)
(***************************************************************************)

\* A row that is not free is a row of one of the tables.
LEMMA RowType ==
  ASSUME TypeOK, NEW l \in Links
  PROVE  /\ link[l].state # "free" => link[l] \in LinkRow
         /\ link[l].state = "free" => link[l] = FreeLink
         /\ link[l] = FreeLink => link[l].state = "free"
  BY DEF TypeOK, LinkRow, FreeLink

\* The rows after one is written and those it supersedes are invalidated
LEMMA SupersedeEffect ==
  ASSUME TypeOK, NEW l \in Links, NEW row \in LinkRow, Supersede(l, row)
  PROVE  /\ link' \in [Links -> LinkRow \cup {FreeLink}]
         /\ link'[l] = row
         /\ \A m \in Links \ {l} :
              IF m \in LiveLinks(row.owner, row.kind)
              THEN /\ link'[m] \in LinkRow
                   /\ link'[m].state = "invalid"
                   /\ link'[m].kind = link[m].kind
                   /\ link'[m].owner = link[m].owner
                   /\ link'[m].created = link[m].created
                   /\ link'[m].expires = link[m].expires
              ELSE link'[m] = link[m]
<1>1. \A m \in LiveLinks(row.owner, row.kind) : link[m] \in LinkRow
  BY RowType DEF LiveLinks, Stored
<1>2. \A m \in Links :
        link'[m] = IF m = l THEN row
                   ELSE IF m \in LiveLinks(row.owner, row.kind)
                        THEN [link[m] EXCEPT !.state = "invalid"]
                        ELSE link[m]
  BY DEF Supersede
<1>3. \A m \in LiveLinks(row.owner, row.kind) :
        LET new == [link[m] EXCEPT !.state = "invalid"] IN
        /\ new \in LinkRow
        /\ new.state = "invalid"
        /\ new.kind = link[m].kind
        /\ new.owner = link[m].owner
        /\ new.created = link[m].created
        /\ new.expires = link[m].expires
  BY <1>1 DEF LinkRow
<1>4. link' \in [Links -> LinkRow \cup {FreeLink}]
  BY <1>2, <1>3 DEF Supersede, TypeOK
<1> QED
  BY <1>2, <1>3, <1>4

\* One row changes its state.
LEMMA StateEffect ==
  ASSUME TypeOK, NEW l \in Links, link[l].state # "free",
         NEW state \in {"draft", "live", "used", "invalid", "gone"}
  PROVE  LET new == [link[l] EXCEPT !.state = state] IN
         /\ new \in LinkRow
         /\ new.state = state
         /\ new.kind = link[l].kind
         /\ new.owner = link[l].owner
         /\ new.created = link[l].created
         /\ new.expires = link[l].expires
         /\ [link EXCEPT ![l].state = state] = [link EXCEPT ![l] = new]
  BY RowType DEF TypeOK, LinkRow

\* Writing the state of one link changes nothing else of any link.
LEMMA StateWritten ==
  ASSUME TypeOK, NEW l \in Links, link[l].state # "free",
         NEW state \in {"draft", "live", "used", "invalid", "gone"},
         link' = [link EXCEPT ![l].state = state]
  PROVE  /\ link' \in [Links -> LinkRow \cup {FreeLink}]
         /\ link'[l].state = state
         /\ \A m \in Links \ {l} : link'[m] = link[m]
         /\ \A m \in Links : /\ link'[m].owner = link[m].owner
                            /\ link'[m].kind = link[m].kind
                            /\ link'[m].created = link[m].created
                            /\ link'[m].expires = link[m].expires
<1> DEFINE new == [link[l] EXCEPT !.state = state]
<1>1. /\ new \in LinkRow
      /\ new.state = state
      /\ new.kind = link[l].kind
      /\ new.owner = link[l].owner
      /\ new.created = link[l].created
      /\ new.expires = link[l].expires
      /\ link' = [link EXCEPT ![l] = new]
  BY StateEffect
<1> HIDE DEF new
<1>2. link \in [Links -> LinkRow \cup {FreeLink}]
  BY DEF TypeOK
<1> QED
  BY <1>1, <1>2

\* The row that w inserts
LEMMA NewLinkType ==
  ASSUME TypeOK, NEW w \in Workers, SessionTyped(w), pc[w] = "issuing",
         NEW state \in {"draft", "live"}
  PROVE  /\ NewLink(w, state) \in LinkRow
         /\ NewLink(w, state).state = state
         /\ NewLink(w, state).owner = req[w].email
         /\ NewLink(w, state).kind = Kind(req[w].op)
         /\ NewLink(w, state).created = clock
  BY AccountsAssumption
     DEF NewLink, LinkRow, TypeOK, SessionTyped, Request, Kind, Kinds

Steps == {"idle", "asked", "inserting", "issuing", "sent", "mailing",
          "holding", "redeeming", "login"}

\* The workers have their types.
WorkersTyped ==
  /\ pc \in [Workers -> Steps]
  /\ req \in [Workers -> Request \cup {None}]
  /\ \A w \in Workers : req[w] = None <=> pc[w] = "idle"

\* A worker that goes on or ends keeps them.
LEMMA GotoType ==
  ASSUME WorkersTyped, NEW w \in Workers, NEW step \in Steps \ {"idle"},
         pc[w] # "idle", Goto(w, step)
  PROVE  WorkersTyped'
  BY DEF WorkersTyped, Goto

\* None is no request.
LEMMA NoneIsNoRequest == None \notin Request
  BY AccountsAssumption

\* At the end of a request the workers keep their types.
LEMMA EndType ==
  ASSUME WorkersTyped, NEW w \in Workers, End(w)
  PROVE  WorkersTyped'
  BY DEF WorkersTyped, End, Steps

\* So does a worker whose request is filled in.
LEMMA FillType ==
  ASSUME WorkersTyped, NEW w \in Workers, NEW step \in Steps \ {"idle"},
         pc' = [pc EXCEPT ![w] = step],
         NEW q \in Request, req' = [req EXCEPT ![w] = q]
  PROVE  WorkersTyped'
  BY NoneIsNoRequest DEF WorkersTyped

\* A step that writes to no account and no link keeps the types.
LEMMA TablesKept ==
  ASSUME TypeOK, WorkersTyped', UNCHANGED <<accountVars, link>>,
         mailed' \subseteq Links, signedBy' \subseteq Links,
         clock' \in 0..LastMoment
  PROVE  TypeOK'
  BY DEF TypeOK, WorkersTyped, Steps, accountVars

\* A step that writes links keeps them if it stores none without an account.
LEMMA LinksKept ==
  ASSUME TypeOK, WorkersTyped',
         UNCHANGED <<status, nif, clock, signedBy>>,
         password' \in [Emails -> Links \cup {None}], awarded' \subseteq Emails,
         mailed' \subseteq Links,
         link' \in [Links -> LinkRow \cup {FreeLink}],
         \A l \in Links : link'[l].state \in {"live", "used", "invalid"} =>
           status[link'[l].owner] # "none"
  PROVE  TypeOK'
  BY DEF TypeOK, WorkersTyped, Steps

\* What a worker asks is a request.
LEMMA BeginType ==
  ASSUME TypeOK, NEW w \in Workers, NEW op \in Issuing \cup Redeeming,
         NEW e \in Emails \cup {None}, NEW n \in Nifs \cup {None},
         NEW l \in Links \cup {None}, Begin(w, op, e, n, l)
  PROVE  TypeOK'
<1> DEFINE q == [op |-> op, email |-> e, nif |-> n, link |-> l, now |-> clock]
<1>1. q \in Request
  BY AccountsAssumption DEF TypeOK, Request
<1>2. WorkersTyped
  BY DEF TypeOK, WorkersTyped, Steps
<1>3. pc' = [pc EXCEPT ![w] = "asked"] /\ req' = [req EXCEPT ![w] = q]
  BY DEF Begin
<1>4. WorkersTyped'
  BY <1>1, <1>2, <1>3, FillType DEF Steps
<1> QED
  BY <1>4, TablesKept DEF Begin, TypeOK

\* A request with another link or account is one.
LEMMA RequestFilled ==
  ASSUME TypeOK, NEW w \in Workers, pc[w] # "idle",
         NEW l \in Links, NEW e \in Emails
  PROVE  /\ [req[w] EXCEPT !.link = l] \in Request
         /\ [req[w] EXCEPT !.link = l].op = req[w].op
         /\ [req[w] EXCEPT !.link = l].email = req[w].email
         /\ [req[w] EXCEPT !.link = l].nif = req[w].nif
         /\ [req[w] EXCEPT !.link = l].now = req[w].now
         /\ [req[w] EXCEPT !.link = l].link = l
         /\ [req[w] EXCEPT !.email = e] \in Request
         /\ [req[w] EXCEPT !.email = e].op = req[w].op
         /\ [req[w] EXCEPT !.email = e].email = e
         /\ [req[w] EXCEPT !.email = e].nif = req[w].nif
         /\ [req[w] EXCEPT !.email = e].now = req[w].now
         /\ [req[w] EXCEPT !.email = e].link = req[w].link
         /\ [req EXCEPT ![w].link = l] =
              [req EXCEPT ![w] = [req[w] EXCEPT !.link = l]]
         /\ [req EXCEPT ![w].email = e] =
              [req EXCEPT ![w] = [req[w] EXCEPT !.email = e]]
<1>1. req[w] \in Request
  BY DEF TypeOK
<1> QED
  BY <1>1 DEF Request, TypeOK

\* The initial state has its type, and its workers hold nothing.
LEMMA InitType == Init => TypeOK /\ \A w \in Workers : SessionTyped(w)
  BY AccountsAssumption DEF Init, TypeOK, SessionTyped, FreeLink

\* The steps of those who issue links keep the types.
LEMMA IssueTypes ==
  ASSUME LinksInv, NEW w \in Workers, Issue(w)
  PROVE  TypeOK'
<1> USE DEF LinksInv
<1>w. WorkersTyped
  BY DEF TypeOK, WorkersTyped, Steps
<1>q. /\ pc[w] # "idle" => req[w] \in Request
      /\ pc[w] \in {"inserting", "issuing", "sent", "mailing"} =>
           req[w].email \in Emails
      /\ pc[w] \in {"sent", "mailing"} => req[w].link \in Links
  BY DEF TypeOK, SessionTyped
<1>1. CASE AskStart(w)
  BY <1>1, BeginType DEF AskStart, Issuing
<1>2. CASE AskAgain(w)
  BY <1>2, BeginType DEF AskAgain, Issuing
<1>3. CASE LookUp(w) \/ InsertAccount(w) \/ LockAccount(w)
  <2>1. pc[w] # "idle" /\ (Goto(w, "inserting") \/ Goto(w, "issuing"))
    BY <1>3 DEF LookUp, InsertAccount, LockAccount
  <2>2. WorkersTyped'
    BY <2>1, <1>w, GotoType DEF Steps
  <2> QED
    BY <1>3, <2>2, TablesKept DEF LookUp, InsertAccount, LockAccount, TypeOK
<1>4. CASE SendActivation(w)
  <2>1. PICK l \in Links :
          /\ link[l] = FreeLink
          /\ link' = [link EXCEPT ![l] = NewLink(w, "draft")]
          /\ mailed' = mailed \cup {l}
          /\ pc' = [pc EXCEPT ![w] = "sent"]
          /\ req' = [req EXCEPT ![w].link = l]
    BY <1>4 DEF SendActivation
  <2>2. pc[w] = "issuing" /\ UNCHANGED <<accountVars, signedBy, clock>>
    BY <1>4 DEF SendActivation
  <2>3. NewLink(w, "draft") \in LinkRow /\ NewLink(w, "draft").state = "draft"
    BY <2>2, NewLinkType
  <2>4. WorkersTyped'
    BY <2>1, <2>2, <1>q, <1>w, RequestFilled, FillType DEF Steps
  <2> QED
    BY <2>1, <2>2, <2>3, <2>4, LinksKept DEF TypeOK, accountVars
<1>5. CASE CommitActivation(w)
  <2> DEFINE l == req[w].link
             e == req[w].email
             row == [link[l] EXCEPT !.state = "live"]
  <2>1. /\ pc[w] = "sent"
        /\ Supersede(l, row)
        /\ status' = [status EXCEPT ![e] = "pending"]
        /\ nif' = IF status[e] = "none" THEN [nif EXCEPT ![e] = req[w].nif]
                                        ELSE nif
        /\ End(w)
        /\ UNCHANGED <<password, awarded, mailed, signedBy, clock>>
    BY <1>5 DEF CommitActivation
  <2>2. l \in Links /\ e \in Emails /\ link[l].state = "draft"
        /\ link[l].owner = e
    BY <2>1 DEF SessionTyped
  <2>3. row \in LinkRow /\ row.owner = e /\ row.kind = link[l].kind
    BY <2>2, StateEffect
  <2> HIDE DEF l, e, row
  <2>4. /\ link' \in [Links -> LinkRow \cup {FreeLink}]
        /\ link'[l] = row
        /\ \A m \in Links \ {l} :
             link'[m] = link[m] \/ (link'[m].owner = row.owner)
    BY <2>1, <2>2, <2>3, SupersedeEffect DEF LiveLinks, Stored
  <2>5. status[e] = "none" => req[w].nif \in Nifs /\ ~NifTaken(req[w].nif)
    BY <2>1, <2>2 DEF StillSo, SessionTyped, e
  <2>6. \A f, g \in Emails : nif'[f] = nif'[g] /\ nif'[f] # None => f = g
    BY <2>1, <2>2, <2>5 DEF NifTaken, TypeOK
  <2>7. nif' \in [Emails -> Nifs \cup {None}]
    BY <2>1, <2>5 DEF TypeOK
  <2>8. \A m \in Links : link'[m].state \in {"live", "used", "invalid"} =>
          status'[link'[m].owner] # "none"
    <3>1. \A f \in Emails : status[f] # "none" \/ f = e => status'[f] # "none"
      BY <2>1, <2>2 DEF TypeOK
    <3>2. \A m \in Links \ {l} : link[m].state \in {"live", "used", "invalid"} =>
            link[m].owner \in Emails /\ status[link[m].owner] # "none"
      BY RowType DEF TypeOK, LinkRow
    <3> QED
      BY <2>2, <2>3, <2>4, <3>1, <3>2
  <2>9. WorkersTyped'
    BY <2>1, <1>w, EndType
  <2> QED
    BY <2>1, <2>4, <2>6, <2>7, <2>8, <2>9 DEF TypeOK, WorkersTyped, Steps
<1>6. CASE StoreLink(w)
  <2>1. PICK l \in Links :
          /\ link[l] = FreeLink
          /\ Supersede(l, NewLink(w, "live"))
          /\ pc' = [pc EXCEPT ![w] = "mailing"]
          /\ req' = [req EXCEPT ![w].link = l]
    BY <1>6 DEF StoreLink
  <2>2. /\ pc[w] = "issuing"
        /\ req[w].op = "request"
        /\ UNCHANGED <<accountVars, mailed, signedBy, clock>>
    BY <1>6 DEF StoreLink
  <2>3. /\ NewLink(w, "live") \in LinkRow
        /\ NewLink(w, "live").owner = req[w].email
    BY <2>2, NewLinkType
  <2>4. status[req[w].email] # "none"
    BY <2>2 DEF StillSo
  <2>5. \A m \in Links : link'[m].state \in {"live", "used", "invalid"} =>
          status[link'[m].owner] # "none"
    BY <2>1, <2>3, <2>4, SupersedeEffect DEF TypeOK, LiveLinks, Stored
  <2>6. link' \in [Links -> LinkRow \cup {FreeLink}]
    BY <2>1, <2>3, SupersedeEffect
  <2>7. WorkersTyped'
    BY <2>1, <2>2, <1>q, <1>w, RequestFilled, FillType DEF Steps
  <2> QED
    BY <2>2, <2>5, <2>6, <2>7, LinksKept DEF TypeOK, accountVars
<1>7. CASE SendLink(w)
  BY <1>7, <1>w, <1>q, EndType, TablesKept DEF SendLink, TypeOK
<1>8. CASE DropLink(w)
  <2>1. WorkersTyped'
    BY <1>8, <1>w, EndType DEF DropLink
  <2>2. req[w].link \in Links /\ link[req[w].link].state # "free"
    BY <1>8 DEF DropLink, SessionTyped
  <2>3. /\ link' \in [Links -> LinkRow \cup {FreeLink}]
        /\ \A l \in Links : link'[l] = link[l] \/ link'[l].state = "gone"
    BY <1>8, <2>2, StateWritten DEF DropLink
  <2> QED
    BY <1>8, <2>1, <2>3, LinksKept DEF DropLink, TypeOK, accountVars
<1> QED
  BY <1>1, <1>2, <1>3, <1>4, <1>5, <1>6, <1>7, <1>8 DEF Issue

\* So do the steps of those who redeem them.
LEMMA RedeemTypes ==
  ASSUME LinksInv, NEW w \in Workers, Redeem(w)
  PROVE  TypeOK'
<1> USE DEF LinksInv
<1>w. WorkersTyped
  BY DEF TypeOK, WorkersTyped, Steps
<1>q. /\ pc[w] \in {"holding", "redeeming"} =>
           /\ req[w].link \in Links
           /\ link[req[w].link].state # "free"
           /\ link[req[w].link].owner = req[w].email
      /\ pc[w] = "asked" /\ req[w].op \in Redeeming => req[w].link \in mailed
      /\ pc[w] = "login" => req[w].link \in mailed
  BY DEF TypeOK, SessionTyped
<1>e. pc[w] \in {"holding", "redeeming"} =>
        req[w].email \in Emails /\ link[req[w].link] \in LinkRow
  BY <1>q, RowType DEF LinkRow
<1>1. CASE OpenActivation(w)
  BY <1>1, BeginType DEF OpenActivation, Redeeming, TypeOK
<1>2. CASE OpenLink(w)
  BY <1>2, BeginType DEF OpenLink, Redeeming, TypeOK
<1>3. CASE LockLink(w)
  <2> DEFINE l == req[w].link
  <2>1. l \in Links /\ link[l] \in LinkRow
    BY <1>3, <1>q, RowType DEF LockLink, RowsSound, TypeOK
  <2>2. link[l].owner \in Emails
    BY <2>1 DEF LinkRow
  <2>3. WorkersTyped'
    BY <1>3, <1>w, <2>1, <2>2, RequestFilled, FillType DEF LockLink, Steps
  <2> QED
    BY <1>3, <2>3, TablesKept DEF LockLink, TypeOK
<1>4. CASE LockOwner(w)
  BY <1>4, <1>w, GotoType, TablesKept DEF LockOwner, Steps, TypeOK
<1>5. CASE Complete(w)
  <2> DEFINE l == req[w].link
             e == req[w].email
             row == [link[l] EXCEPT !.state = "used"]
  <2>1. /\ pc[w] = "redeeming"
        /\ status' = [status EXCEPT ![e] = "active"]
        /\ password' = [password EXCEPT ![e] = l]
        /\ awarded' = awarded \cup {e}
        /\ Supersede(l, row)
        /\ Goto(w, "login")
        /\ UNCHANGED <<nif, mailed, signedBy, clock>>
    BY <1>5 DEF Complete
  <2>2. l \in Links /\ e \in Emails /\ link[l].state # "free"
        /\ link[l].owner = e
    BY <2>1, <1>q, <1>e
  <2>3. row \in LinkRow /\ row.owner = e
    BY <2>2, StateEffect
  <2> HIDE DEF l, e, row
  <2>4. /\ link' \in [Links -> LinkRow \cup {FreeLink}]
        /\ link'[l] = row
        /\ \A m \in Links \ {l} :
             link'[m] = link[m] \/ (link'[m].owner = row.owner)
    BY <2>1, <2>2, <2>3, SupersedeEffect DEF LiveLinks, Stored
  <2>5. \A m \in Links : link'[m].state \in {"live", "used", "invalid"} =>
          status'[link'[m].owner] # "none"
    <3>1. \A f \in Emails : status[f] # "none" \/ f = e => status'[f] # "none"
      BY <2>1, <2>2 DEF TypeOK
    <3>2. \A m \in Links \ {l} : link[m].state \in {"live", "used", "invalid"} =>
            link[m].owner \in Emails /\ status[link[m].owner] # "none"
      BY RowType DEF TypeOK, LinkRow
    <3> QED
      BY <2>2, <2>3, <2>4, <3>1, <3>2
  <2>6. WorkersTyped'
    BY <2>1, <1>w, GotoType DEF Steps
  <2>7. /\ status' \in [Emails -> {"none", "pending", "active", "suspended"}]
        /\ password' \in [Emails -> Links \cup {None}]
        /\ awarded' \subseteq Emails
    BY <2>1, <2>2 DEF TypeOK
  <2> QED
    BY <2>1, <2>4, <2>5, <2>6, <2>7 DEF TypeOK, WorkersTyped, Steps
<1>6. CASE Consume(w)
  <2> DEFINE l == req[w].link
  <2>1. WorkersTyped'
    BY <1>6, <1>w, GotoType DEF Consume, Steps
  <2>2. l \in Links /\ link[l].state \in {"live", "used", "invalid"}
    BY <1>6, <1>q DEF Consume, SessionTyped
  <2>3. /\ link' \in [Links -> LinkRow \cup {FreeLink}]
        /\ \A m \in Links : link'[m].owner = link[m].owner
        /\ \A m \in Links \ {l} : link'[m] = link[m]
    BY <1>6, <2>2, StateWritten DEF Consume
  <2>4. \A m \in Links : link'[m].state \in {"live", "used", "invalid"} =>
          status[link'[m].owner] # "none"
    <3>1. \A m \in Links : link[m].state \in {"live", "used", "invalid"} =>
            status[link[m].owner] # "none"
      BY DEF TypeOK
    <3> HIDE DEF LinksInv, l
    <3>2. status[link'[l].owner] # "none"
      BY <2>2, <2>3, <3>1
    <3>3. ASSUME NEW m \in Links \ {l},
                 link'[m].state \in {"live", "used", "invalid"}
          PROVE  status[link'[m].owner] # "none"
      BY <2>3, <3>1, <3>3
    <3> QED
      BY <3>2, <3>3
  <2>5. link' \in [Links -> LinkRow \cup {FreeLink}]
    BY <2>3
  <2> HIDE DEF LinksInv
  <2>6. TypeOK
    BY DEF LinksInv
  <2> QED
    BY <1>6, <2>1, <2>4, <2>5, <2>6, LinksKept DEF Consume, TypeOK, accountVars
<1>7. CASE SignIn(w)
  BY <1>7, <1>w, <1>q, EndType, TablesKept DEF SignIn, TypeOK
<1> QED
  BY <1>1, <1>2, <1>3, <1>4, <1>5, <1>6, <1>7 DEF Redeem

\* And everything else that happens
LEMMA OtherTypes ==
  ASSUME LinksInv,
         \/ \E w \in Workers : Refuse(w) \/ Abort(w)
         \/ \E e \in Emails : StaffWrites(e, "active")
                              \/ StaffWrites(e, "suspended")
         \/ Tick
         \/ UNCHANGED vars
  PROVE  TypeOK'
<1> USE DEF LinksInv
<1>w. WorkersTyped
  BY DEF TypeOK, WorkersTyped, Steps
<1>1. ASSUME NEW w \in Workers, Refuse(w) PROVE TypeOK'
  BY <1>1, <1>w, EndType, TablesKept DEF Refuse, TypeOK
<1>2. ASSUME NEW w \in Workers, Abort(w) PROVE TypeOK'
  <2>1. WorkersTyped'
    BY <1>2, <1>w, EndType DEF Abort
  <2>2. CASE pc[w] # "sent"
    BY <1>2, <2>1, <2>2, TablesKept DEF Abort, TypeOK
  <2>3. CASE pc[w] = "sent"
    <3>1. req[w].link \in Links /\ link[req[w].link].state # "free"
      BY <2>3 DEF SessionTyped
    <3>2. /\ link' \in [Links -> LinkRow \cup {FreeLink}]
          /\ \A l \in Links : link'[l] = link[l] \/ link'[l].state = "gone"
      BY <1>2, <2>3, <3>1, StateWritten DEF Abort
    <3> QED
      BY <1>2, <2>1, <3>2, LinksKept DEF Abort, TypeOK, accountVars
  <2> QED
    BY <2>2, <2>3
<1>3. ASSUME NEW e \in Emails, NEW new \in {"active", "suspended"},
             StaffWrites(e, new)
      PROVE  TypeOK'
  <2>1. \A f \in Emails : status[f] # "none" => status'[f] # "none"
    BY <1>3 DEF StaffWrites, TypeOK
  <2>2. \A l \in Links : link[l].state \in {"live", "used", "invalid"} =>
          link[l].owner \in Emails
    BY RowType DEF LinkRow
  <2> QED
    BY <1>3, <2>1, <2>2 DEF StaffWrites, TypeOK
<1>4. CASE Tick
  BY <1>4, <1>w, AccountsAssumption, TablesKept
     DEF Tick, TypeOK, WorkersTyped
<1>5. CASE UNCHANGED vars
  BY <1>5 DEF vars, accountVars, TypeOK
<1> QED
  BY <1>1, <1>2, <1>3, <1>4, <1>5

(***************************************************************************)
(* What a step of one worker does to the links and to the other workers.   *)
(***************************************************************************)

WorkerStep(w) == Issue(w) \/ Redeem(w) \/ Refuse(w) \/ Abort(w)

SameLink(l) == /\ link'[l].kind = link[l].kind
               /\ link'[l].owner = link[l].owner
               /\ link'[l].created = link[l].created
               /\ link'[l].expires = link[l].expires

\* w inserts l, supersedes it, or moves the link it has in hand.
Inserts(w, l) ==
  /\ pc[w] = "issuing"
  /\ link[l].state = "free"
  /\ link'[l].state \in {"draft", "live"}
  /\ link'[l].state = "live" => req[w].op = "request"
  /\ link'[l].owner = req[w].email
  /\ link'[l].kind = Kind(req[w].op)
  /\ link'[l].created = clock

Supersedes(w, l) ==
  /\ pc[w] \in {"issuing", "sent", "redeeming"}
  /\ l \in LiveLinks(req[w].email, Kind(req[w].op))
  /\ SameLink(l)
  /\ link'[l].state = "invalid"

Moves(w, l) ==
  /\ l = req[w].link
  /\ SameLink(l)
  /\ \/ pc[w] = "sent" /\ link'[l].state \in {"live", "gone"}
     \/ pc[w] = "mailing" /\ link'[l].state = "gone"
     \/ pc[w] = "redeeming" /\ link'[l].state = "used"

Writes(w) ==
  \A l \in Links : \/ link'[l] = link[l]
                   \/ Inserts(w, l) \/ Supersedes(w, l) \/ Moves(w, l)

\* Superseding is what SupersedeEffect says, told of w.
LEMMA SupersedeWrites ==
  ASSUME TypeOK, NEW w \in Workers, NEW l \in Links, NEW row \in LinkRow,
         Supersede(l, row), pc[w] \in {"issuing", "sent", "redeeming"},
         row.owner = req[w].email, row.kind = Kind(req[w].op)
  PROVE  /\ link'[l] = row
         /\ \A m \in Links \ {l} : link'[m] = link[m] \/ Supersedes(w, m)
  BY SupersedeEffect DEF Supersedes, SameLink

\* The row of a link whose state changes
LEMMA RowWithState ==
  ASSUME TypeOK, NEW w \in Workers, NEW l \in Links, link[l].state # "free",
         NEW state \in {"draft", "live", "used", "invalid", "gone"}
  PROVE  LET row == [link[l] EXCEPT !.state = state] IN
         /\ row \in LinkRow
         /\ row.owner = link[l].owner
         /\ row.kind = link[l].kind
         /\ link'[l] = row => SameLink(l) /\ link'[l].state = state
<1> DEFINE row == [link[l] EXCEPT !.state = state]
<1>1. /\ row \in LinkRow
      /\ row.state = state
      /\ row.kind = link[l].kind
      /\ row.owner = link[l].owner
      /\ row.created = link[l].created
      /\ row.expires = link[l].expires
  BY StateEffect
<1> HIDE DEF row
<1>2. link'[l] = row => SameLink(l) /\ link'[l].state = state
  BY <1>1 DEF SameLink
<1>3. QED
  BY <1>1, <1>2 DEF row

\* What a step of w does to the links
LEMMA StepWrites ==
  ASSUME LinksInv, NEW w \in Workers, WorkerStep(w)
  PROVE  Writes(w)
<1>0. TypeOK /\ SessionTyped(w)
  BY DEF LinksInv
<1>1. CASE UNCHANGED link
  BY <1>1 DEF Writes
<1>2. CASE SendActivation(w)
  <2>1. PICK l \in Links :
          link[l] = FreeLink /\ link' = [link EXCEPT ![l] = NewLink(w, "draft")]
    BY <1>2 DEF SendActivation
  <2>2. pc[w] = "issuing"
    BY <1>2 DEF SendActivation
  <2>3. link'[l] = NewLink(w, "draft")
        /\ \A m \in Links \ {l} : link'[m] = link[m]
    BY <1>0, <2>1 DEF TypeOK
  <2>4. Inserts(w, l)
    BY <1>0, <2>1, <2>2, <2>3, NewLinkType, RowType DEF Inserts
  <2> QED
    BY <2>3, <2>4 DEF Writes
<1>3. CASE StoreLink(w)
  <2>1. PICK l \in Links : link[l] = FreeLink /\ Supersede(l, NewLink(w, "live"))
    BY <1>3 DEF StoreLink
  <2>2. pc[w] = "issuing" /\ req[w].op = "request"
    BY <1>3 DEF StoreLink
  <2>3. /\ NewLink(w, "live") \in LinkRow
        /\ NewLink(w, "live").state = "live"
        /\ NewLink(w, "live").owner = req[w].email
        /\ NewLink(w, "live").kind = Kind(req[w].op)
        /\ NewLink(w, "live").created = clock
    BY <1>0, <2>2, NewLinkType
  <2>4. /\ link'[l] = NewLink(w, "live")
        /\ \A m \in Links \ {l} : link'[m] = link[m] \/ Supersedes(w, m)
    BY <1>0, <2>1, <2>2, <2>3, SupersedeWrites
  <2>5. Inserts(w, l)
    BY <1>0, <2>1, <2>2, <2>3, <2>4, RowType DEF Inserts
  <2> QED
    BY <2>4, <2>5 DEF Writes
<1>4. CASE CommitActivation(w)
  <2> DEFINE l == req[w].link
             row == [link[l] EXCEPT !.state = "live"]
  <2>1. pc[w] = "sent" /\ Supersede(l, row)
    BY <1>4 DEF CommitActivation
  <2>2. /\ l \in Links
        /\ link[l].state # "free"
        /\ link[l].kind = Kind(req[w].op)
        /\ link[l].owner = req[w].email
    BY <1>0, <2>1 DEF SessionTyped
  <2>3. /\ row \in LinkRow
        /\ row.owner = req[w].email
        /\ row.kind = Kind(req[w].op)
        /\ link'[l] = row => SameLink(l) /\ link'[l].state = "live"
    BY <1>0, <2>2, RowWithState
  <2> HIDE DEF row
  <2>4. /\ link'[l] = row
        /\ \A m \in Links \ {l} : link'[m] = link[m] \/ Supersedes(w, m)
    BY <1>0, <2>1, <2>2, <2>3, SupersedeWrites
  <2> QED
    BY <2>1, <2>3, <2>4 DEF Writes, Moves
<1>5. CASE Complete(w)
  <2> DEFINE l == req[w].link
             row == [link[l] EXCEPT !.state = "used"]
  <2>1. pc[w] = "redeeming" /\ Supersede(l, row)
    BY <1>5 DEF Complete
  <2>2. /\ l \in Links
        /\ link[l].state # "free"
        /\ link[l].kind = Kind(req[w].op)
        /\ link[l].owner = req[w].email
    BY <1>0, <2>1 DEF SessionTyped
  <2>3. /\ row \in LinkRow
        /\ row.owner = req[w].email
        /\ row.kind = Kind(req[w].op)
        /\ link'[l] = row => SameLink(l) /\ link'[l].state = "used"
    BY <1>0, <2>2, RowWithState
  <2> HIDE DEF row
  <2>4. /\ link'[l] = row
        /\ \A m \in Links \ {l} : link'[m] = link[m] \/ Supersedes(w, m)
    BY <1>0, <2>1, <2>2, <2>3, SupersedeWrites
  <2> QED
    BY <2>1, <2>3, <2>4 DEF Writes, Moves
<1>6. CASE DropLink(w)
  BY <1>0, <1>6, StateWritten DEF DropLink, SessionTyped, Writes, Moves, SameLink
<1>7. CASE Consume(w)
  BY <1>0, <1>7, StateWritten DEF Consume, SessionTyped, Writes, Moves, SameLink
<1>8. CASE Abort(w) /\ pc[w] = "sent"
  BY <1>0, <1>8, StateWritten DEF Abort, SessionTyped, Writes, Moves, SameLink
<1>9. UNCHANGED link \/ SendActivation(w) \/ StoreLink(w)
      \/ CommitActivation(w) \/ Complete(w) \/ DropLink(w) \/ Consume(w)
      \/ (Abort(w) /\ pc[w] = "sent")
  BY DEF WorkerStep, Issue, Redeem, AskStart, AskAgain, OpenActivation, OpenLink,
         Begin, LookUp, InsertAccount, LockAccount, SendLink, LockLink,
         LockOwner, SignIn, Refuse, Abort
<1> QED
  BY <1>1, <1>2, <1>3, <1>4, <1>5, <1>6, <1>7, <1>8, <1>9

\* What it does to everything else: the other workers keep their requests, and
\* an account changes only under the lock of the one who changes it.
StatusMoves(w, e) ==
  \/ status'[e] = status[e]
  \/ /\ pc[w] \in {"sent", "redeeming"}
     /\ e = req[w].email
     /\ status'[e] \in {"pending", "active"}

NifMoves(w, e) ==
  \/ nif'[e] = nif[e]
  \/ /\ pc[w] = "sent"
     /\ status[e] = "none"
     /\ e = req[w].email
     /\ nif'[e] = req[w].nif

\* A step of w leaves the other workers where they are, and says how rows move.
LEMMA StepOthers ==
  ASSUME LinksInv, NEW w \in Workers, WorkerStep(w)
  PROVE  /\ clock' = clock
         /\ \A r \in Workers \ {w} : pc'[r] = pc[r] /\ req'[r] = req[r]
         /\ \A e \in Emails : StatusMoves(w, e) /\ NifMoves(w, e)
         /\ \A l \in mailed : l \in mailed'
         /\ \A l \in mailed' \ mailed :
              \/ pc[w] = "issuing" /\ link[l].state = "free"
              \/ pc[w] = "mailing" /\ l = req[w].link
<1>0. TypeOK /\ SessionTyped(w)
  BY DEF LinksInv
<1>t. /\ pc \in [Workers -> Steps]
      /\ req \in [Workers -> Request \cup {None}]
      /\ status \in [Emails -> {"none", "pending", "active", "suspended"}]
      /\ nif \in [Emails -> Nifs \cup {None}]
      /\ pc[w] = "sent" => req[w].email \in Emails
  BY <1>0 DEF TypeOK, Steps, SessionTyped
<1> USE DEF StatusMoves, NifMoves
<1>1. CASE AskStart(w) \/ AskAgain(w) \/ OpenActivation(w) \/ OpenLink(w)
  BY <1>1, <1>t DEF AskStart, AskAgain, OpenActivation, OpenLink, Begin,
                    accountVars
<1>2. CASE LookUp(w) \/ InsertAccount(w) \/ LockAccount(w) \/ LockOwner(w)
  BY <1>2, <1>t DEF LookUp, InsertAccount, LockAccount, LockOwner, Goto,
                    accountVars
<1>3. CASE SendActivation(w)
  BY <1>3, <1>t DEF SendActivation, accountVars, FreeLink
<1>4. CASE CommitActivation(w)
  BY <1>4, <1>t DEF CommitActivation, End
<1>5. CASE StoreLink(w)
  BY <1>5, <1>t DEF StoreLink, accountVars
<1>6. CASE SendLink(w) \/ DropLink(w)
  BY <1>6, <1>t DEF SendLink, DropLink, End, accountVars
<1>7. CASE LockLink(w)
  BY <1>7, <1>t DEF LockLink, accountVars
<1>8. CASE Complete(w)
  BY <1>8, <1>t DEF Complete, Goto
<1>9. CASE Consume(w)
  BY <1>9, <1>t DEF Consume, Goto, accountVars
<1>10. CASE SignIn(w) \/ Refuse(w)
  BY <1>10, <1>t DEF SignIn, Refuse, End, accountVars
<1>11. CASE Abort(w)
  BY <1>11, <1>t DEF Abort, End, accountVars
<1> QED
  BY <1>1, <1>2, <1>3, <1>4, <1>5, <1>6, <1>7, <1>8, <1>9, <1>10, <1>11
     DEF WorkerStep, Issue, Redeem

\* The rows that another worker has in hand or has used are not touched, save
\* that a live one may be superseded.
LEMMA OthersLinks ==
  ASSUME LinksInv, NEW w \in Workers, WorkerStep(w),
         NEW r \in Workers, r # w
  PROVE  LET l == req[r].link IN
         /\ pc[r] = "sent" => link'[l] = link[l]
         /\ pc[r] = "mailing" =>
              /\ SameLink(l)
              /\ link'[l].state \in {"live", "invalid"}
         /\ pc[r] = "holding" =>
              /\ SameLink(l)
              /\ link'[l].state \in {"live", "used", "invalid"}
         /\ pc[r] = "redeeming" => link'[l] = link[l]
         /\ pc[r] = "login" => link'[l] = link[l]
<1> DEFINE l == req[r].link
<1>1. /\ SessionTyped(w)
      /\ SessionTyped(r)
      /\ Apart(w, r)
      /\ StillSo(w)
      /\ StillSo(r)
      /\ Writes(w)
      /\ \A m \in mailed : m \in Links
  BY StepWrites DEF LinksInv, TypeOK
<1>2. CASE pc[r] = "sent"
  <2>1. l \in Links /\ link[l].state = "draft"
    BY <1>1, <1>2 DEF SessionTyped
  <2>2. ~Moves(w, l)
    BY <1>1, <1>2, <2>1 DEF Moves, Apart, SessionTyped
  <2> QED
    BY <1>1, <1>2, <2>1, <2>2 DEF Writes, Inserts, Supersedes, LiveLinks
<1>3. CASE pc[r] = "mailing"
  <2>1. l \in Links /\ link[l].state \in {"live", "invalid"} /\ l \notin mailed
    BY <1>1, <1>3 DEF SessionTyped
  <2>2. ~Moves(w, l)
    BY <1>1, <1>3, <2>1 DEF Moves, Apart, SessionTyped
  <2> QED
    BY <1>1, <1>3, <2>1, <2>2 DEF Writes, Inserts, Supersedes, SameLink
<1>4. CASE pc[r] \in {"holding", "redeeming"}
  <2>1. /\ l \in Links
        /\ link[l].state \in {"live", "used", "invalid"}
        /\ l \in mailed
        /\ HoldsLink(r, l)
    BY <1>1, <1>4 DEF SessionTyped, HoldsLink
  <2>2. ~Moves(w, l)
    BY <1>1, <1>4, <2>1 DEF Moves, Apart, SessionTyped, HoldsLink
  <2>3. pc[r] = "redeeming" => ~Supersedes(w, l)
    <3>1. pc[r] = "redeeming" => link[l].owner = req[r].email
                                 /\ HoldsAccount(r, req[r].email)
                                 /\ link[l].owner \in Emails
      BY <1>1, <2>1, RowType DEF SessionTyped, HoldsAccount, LinkRow, LinksInv
    <3>2. Supersedes(w, l) => link[l].owner = req[w].email
                              /\ HoldsAccount(w, req[w].email)
      BY DEF Supersedes, HoldsAccount, LiveLinks, Stored
    <3> QED
      BY <1>1, <3>1, <3>2 DEF Apart
  <2> QED
    BY <1>1, <1>4, <2>1, <2>2, <2>3 DEF Writes, Inserts, Supersedes, SameLink
<1>5. CASE pc[r] = "login"
  <2>1. l \in Links /\ link[l].state = "used" /\ l \in mailed
    BY <1>1, <1>5 DEF SessionTyped
  <2>2. ~Moves(w, l)
    BY <1>1, <1>5, <2>1 DEF Moves, SessionTyped, StillSo, Redeemable
  <2> QED
    BY <1>1, <1>5, <2>1, <2>2 DEF Writes, Inserts, Supersedes, LiveLinks
<1> QED
  BY <1>2, <1>3, <1>4, <1>5

\* The links keep what they are; those that were mailed stay mailed.
LEMMA KeepsKind ==
  ASSUME LinksInv, NEW w \in Workers, WorkerStep(w), NEW l \in Links,
         link[l].state # "free"
  PROVE  SameLink(l)
  BY StepWrites DEF LinksInv, Writes, Inserts, Supersedes, Moves, SameLink

\* A worker that did not step stays typed.
LEMMA OthersTyped ==
  ASSUME LinksInv, NEW w \in Workers, WorkerStep(w),
         NEW r \in Workers, r # w
  PROVE  SessionTyped(r)'
<1> DEFINE l == req[r].link
<1>1. SessionTyped(r) /\ SessionTyped(w) /\ Apart(w, r)
  BY DEF LinksInv
<1>2. /\ clock' = clock
      /\ pc'[r] = pc[r]
      /\ req'[r] = req[r]
      /\ \A m \in mailed : m \in mailed'
  BY StepOthers
<1>3. pc[r] = "asked" /\ req[r].op \in Redeeming => SameLink(l)
  BY <1>1, KeepsKind DEF LinksInv, TypeOK, SessionTyped, RowsSound
<1>4. pc[r] = "mailing" => l \notin mailed'
  BY <1>1, StepOthers DEF SessionTyped, Apart
<1> QED
  BY <1>1, <1>2, <1>3, <1>4, OthersLinks DEF SessionTyped, SameLink

\* A worker that steps is typed by what the step does.
LEMMA StepperTyped ==
  ASSUME LinksInv, NEW w \in Workers, WorkerStep(w)
  PROVE  SessionTyped(w)'
<1>0. TypeOK /\ TypeOK' /\ SessionTyped(w)
  BY IssueTypes, RedeemTypes, OtherTypes DEF LinksInv, WorkerStep
<1>t. /\ pc \in [Workers -> Steps]
      /\ req \in [Workers -> Request \cup {None}]
      /\ pc[w] # "idle" => req[w] \in Request
      /\ clock' = clock
      /\ clock \in Nat
  BY <1>0, StepOthers, AccountsAssumption DEF TypeOK, Steps
<1> USE DEF SessionTyped
<1>1. CASE AskStart(w) \/ AskAgain(w)
  BY <1>1, <1>t DEF AskStart, AskAgain, Begin, Issuing, Redeeming
<1>2. CASE OpenActivation(w) \/ OpenLink(w)
  BY <1>2, <1>t DEF OpenActivation, OpenLink, Pending, Begin, Issuing,
                    Redeeming, Kind
<1>3. CASE LookUp(w) \/ InsertAccount(w) \/ LockAccount(w)
  BY <1>0, <1>3, <1>t DEF LookUp, InsertAccount, LockAccount, NeedsAccount,
                          Goto, Issuing
<1>4. CASE LockOwner(w)
  BY <1>0, <1>4, <1>t DEF LockOwner, Goto
<1>5. CASE End(w)
  BY <1>5, <1>t DEF End
<1>6. CASE SendActivation(w)
  <2>1. PICK l \in Links :
          /\ link' = [link EXCEPT ![l] = NewLink(w, "draft")]
          /\ mailed' = mailed \cup {l}
          /\ pc' = [pc EXCEPT ![w] = "sent"]
          /\ req' = [req EXCEPT ![w].link = l]
    BY <1>6 DEF SendActivation
  <2>2. pc[w] = "issuing" /\ req[w].op # "request"
    BY <1>6 DEF SendActivation
  <2>3. req' = [req EXCEPT ![w] = [req[w] EXCEPT !.link = l]]
    BY <1>0, <2>1 DEF TypeOK
  <2> QED
    BY <1>0, <1>t, <2>1, <2>2, NewLinkType DEF TypeOK, Request
<1>7. CASE StoreLink(w)
  <2>1. PICK l \in Links :
          /\ link[l] = FreeLink
          /\ Supersede(l, NewLink(w, "live"))
          /\ pc' = [pc EXCEPT ![w] = "mailing"]
          /\ req' = [req EXCEPT ![w].link = l]
    BY <1>7 DEF StoreLink
  <2>2. pc[w] = "issuing" /\ req[w].op = "request" /\ mailed' = mailed
    BY <1>7 DEF StoreLink
  <2>3. /\ NewLink(w, "live") \in LinkRow
        /\ NewLink(w, "live").state = "live"
        /\ NewLink(w, "live").owner = req[w].email
        /\ NewLink(w, "live").kind = Kind(req[w].op)
    BY <1>0, <2>2, NewLinkType
  <2>4. link'[l] = NewLink(w, "live")
    BY <1>0, <2>1, <2>3, SupersedeEffect
  <2>5. l \notin mailed
    BY <2>1 DEF LinksInv, RowsSound, FreeLink
  <2> QED
    BY <1>0, <1>t, <2>1, <2>2, <2>3, <2>4, <2>5 DEF Request, Issuing
<1>8. CASE LockLink(w)
  <2> DEFINE l == req[w].link
  <2>1. /\ l \in Links
        /\ l \in mailed
        /\ link[l].state \in {"live", "used", "invalid"}
    BY <1>0, <1>8, RowType DEF LockLink, LinksInv, RowsSound, TypeOK, LinkRow
  <2> QED
    BY <1>0, <1>8, <1>t, <2>1 DEF LockLink, Request
<1>9. CASE Complete(w) \/ Consume(w)
  <2>1. pc[w] = "redeeming" /\ Goto(w, "login") /\ UNCHANGED mailed
    BY <1>9 DEF Complete, Consume
  <2>2. req[w].link \in Links
    BY <1>0, <2>1
  <2>3. link'[req[w].link].state = "used"
    <3>1. CASE Consume(w)
      BY <1>0, <2>1, <3>1, StateWritten DEF Consume
    <3>2. CASE Complete(w)
      <4> DEFINE row == [link[req[w].link] EXCEPT !.state = "used"]
      <4>1. row \in LinkRow /\ row.state = "used"
        BY <1>0, <2>1, StateEffect
      <4>2. Supersede(req[w].link, row)
        BY <3>2 DEF Complete
      <4> HIDE DEF row
      <4> QED
        BY <1>0, <2>2, <4>1, <4>2, SupersedeEffect
    <3> QED
      BY <1>9, <3>1, <3>2
  <2> QED
    BY <1>0, <1>t, <2>1, <2>3 DEF Goto
<1> QED
  BY <1>1, <1>2, <1>3, <1>4, <1>5, <1>6, <1>7, <1>8, <1>9
     DEF WorkerStep, Issue, Redeem, CommitActivation, SendLink, DropLink,
         SignIn, Refuse, Abort

(***************************************************************************)
(* Locks: what is tested stays so.                                         *)
(***************************************************************************)

\* Nothing is stored for an account by those who do not hold it.
LEMMA StoredByHolder ==
  ASSUME LinksInv, NEW w \in Workers, WorkerStep(w),
         NEW e \in Emails, NEW k \in Kinds,
         ~HoldsAccount(w, e) \/ ~(pc[w] \in {"issuing", "sent"})
  PROVE  /\ Stored(e, k)' \subseteq Stored(e, k)
         /\ LiveLinks(e, k)' \subseteq LiveLinks(e, k)
         /\ \A l \in Stored(e, k)' : link'[l].created = link[l].created
<1>1. Writes(w) /\ SessionTyped(w)
  BY StepWrites DEF LinksInv
<1>2. ASSUME NEW l \in Links, link'[l].state \in {"live", "used", "invalid"},
             link'[l].owner = e, link'[l].kind = k
      PROVE  /\ l \in Stored(e, k)
             /\ link'[l].created = link[l].created
             /\ link'[l].state = "live" => link[l].state = "live"
  <2>1. CASE link'[l] = link[l]
    BY <1>2, <2>1 DEF Stored
  <2>2. CASE Inserts(w, l)
    BY <1>1, <1>2, <2>2 DEF Inserts, HoldsAccount
  <2>3. CASE Supersedes(w, l)
    BY <1>2, <2>3 DEF Supersedes, SameLink, LiveLinks, Stored
  <2>4. CASE Moves(w, l)
    BY <1>1, <1>2, <2>4 DEF Moves, SameLink, HoldsAccount, SessionTyped, Stored
  <2> QED
    BY <1>1, <2>1, <2>2, <2>3, <2>4 DEF Writes
<1> QED
  BY <1>2 DEF Stored, LiveLinks

\* The tests of a worker that did not step still hold.
LEMMA OthersStillSo ==
  ASSUME LinksInv, NEW w \in Workers, WorkerStep(w),
         NEW r \in Workers, r # w
  PROVE  StillSo(r)'
<1> DEFINE e == req[r].email
           l == req[r].link
<1>1. /\ SessionTyped(r) /\ SessionTyped(w) /\ Apart(w, r)
      /\ StillSo(r) /\ StillSo(w) /\ TypeOK
  BY DEF LinksInv
<1>2. pc'[r] = pc[r] /\ req'[r] = req[r]
  BY StepOthers
<1>3. CASE pc[r] \in {"issuing", "sent"}
  <2>1. e \in Emails /\ HoldsAccount(r, e) /\ ~HoldsAccount(w, e)
    BY <1>1, <1>3 DEF SessionTyped, HoldsAccount, Apart
  <2>2. status'[e] = status[e]
    BY <2>1, StepOthers DEF StatusMoves, HoldsAccount
  <2>3. status[e] = "none" => ~NifTaken(req[r].nif)'
    BY <1>1, <1>3, <2>1, StepOthers DEF StillSo, NifTaken, NifMoves, Apart
  <2>4. Kind(req[r].op) \in Kinds
    BY DEF Kind, Kinds
  <2>5. ASSUME NEW f \in Emails, f = e, NEW k \in Kinds, k = Kind(req[r].op)
        PROVE  \A m \in Stored(f, k)' : link'[m].created + Cooldown < req[r].now
    BY <1>1, <1>3, <2>1, <2>5, StoredByHolder DEF StillSo
  <2>6. pc[r] = "sent" => link'[l] = link[l]
    BY OthersLinks
  <2> QED
    BY <1>1, <1>2, <1>3, <2>1, <2>2, <2>3, <2>4, <2>5, <2>6
       DEF StillSo, MayAsk, Stored, Kind
<1>4. CASE pc[r] = "redeeming"
  <2>1. e \in Emails /\ HoldsAccount(r, e) /\ ~HoldsAccount(w, e)
    BY <1>1, <1>4, RowType DEF SessionTyped, HoldsAccount, Apart, LinkRow
  <2>2. status'[e] = status[e]
    BY <2>1, StepOthers DEF StatusMoves, HoldsAccount
  <2>3. link'[l] = link[l]
    BY <1>4, OthersLinks
  <2> QED
    BY <1>1, <1>2, <1>4, <2>2, <2>3 DEF StillSo, Redeemable
<1> QED
  BY <1>2, <1>3, <1>4 DEF StillSo

\* A worker that steps has just tested what it goes on with.
LEMMA StepperStillSo ==
  ASSUME LinksInv, NEW w \in Workers, WorkerStep(w)
  PROVE  StillSo(w)'
<1>0. /\ TypeOK /\ TypeOK' /\ SessionTyped(w) /\ SessionTyped(w)'
      /\ StillSo(w)
  BY IssueTypes, RedeemTypes, OtherTypes, StepperTyped DEF LinksInv, WorkerStep
<1>t. /\ pc \in [Workers -> Steps]
      /\ req \in [Workers -> Request \cup {None}]
      /\ pc[w] # "idle" => req[w] \in Request
  BY <1>0 DEF TypeOK, Steps
<1>1. CASE pc'[w] \notin {"issuing", "sent", "redeeming"}
  BY <1>1 DEF StillSo
<1>2. CASE InsertAccount(w)
  <2>1. Stored(req[w].email, Kind(req[w].op)) = {}
    BY <1>0, <1>2 DEF InsertAccount, Stored, TypeOK
  <2>2. UNCHANGED <<status, nif, link>> /\ Goto(w, "issuing")
    BY <1>2 DEF InsertAccount, accountVars
  <2>3. pc'[w] = "issuing" /\ req'[w] = req[w]
    BY <1>t, <2>2 DEF Goto
  <2> QED
    BY <1>0, <1>2, <2>1, <2>2, <2>3
       DEF InsertAccount, StillSo, Stored, NifTaken, SessionTyped
<1>3. CASE LockAccount(w)
  <2>1. UNCHANGED <<status, nif, link>> /\ Goto(w, "issuing")
    BY <1>3 DEF LockAccount, accountVars
  <2>2. pc'[w] = "issuing" /\ req'[w] = req[w]
    BY <1>t, <2>1 DEF Goto
  <2>3. \A l \in Stored(req[w].email, Kind(req[w].op)) :
          link[l].created + Cooldown < req[w].now
    <3>1. ASSUME NEW l \in Stored(req[w].email, Kind(req[w].op))
          PROVE  link[l].created \in Nat /\ req[w].now \in Nat
      BY <1>0, <1>3, <1>t, RowType DEF LockAccount, Stored, LinkRow, Request
    <3> QED
      BY <1>3, <3>1, AccountsAssumption DEF LockAccount, Recent
  <2> QED
    BY <1>3, <2>1, <2>2, <2>3
       DEF LockAccount, StillSo, Stored, MayAsk, NeedsAccount
<1>4. CASE SendActivation(w)
  <2>1. PICK l \in Links :
          /\ link[l] = FreeLink
          /\ link' = [link EXCEPT ![l] = NewLink(w, "draft")]
          /\ req' = [req EXCEPT ![w].link = l]
    BY <1>4 DEF SendActivation
  <2>2. pc[w] = "issuing" /\ pc' = [pc EXCEPT ![w] = "sent"]
        /\ UNCHANGED <<status, nif>>
    BY <1>4 DEF SendActivation, accountVars
  <2>3. /\ req'[w].op = req[w].op
        /\ req'[w].email = req[w].email
        /\ req'[w].nif = req[w].nif
        /\ req'[w].now = req[w].now
        /\ req'[w].link = l
        /\ pc'[w] = "sent"
    BY <1>t, <2>1, <2>2 DEF Request
  <2>4. link'[l].created = clock /\ link'[l].state = "draft"
    BY <1>0, <2>1, <2>2, NewLinkType DEF TypeOK
  <2>5. \A m \in Links \ {l} : link'[m] = link[m]
    BY <1>0, <2>1 DEF TypeOK
  <2>6. Stored(req[w].email, Kind(req[w].op))' \subseteq
          Stored(req[w].email, Kind(req[w].op)) \ {l}
    BY <2>3, <2>4, <2>5 DEF Stored
  <2> QED
    BY <1>0, <2>2, <2>3, <2>4, <2>5, <2>6 DEF StillSo, MayAsk, NifTaken,
       SessionTyped, Stored
<1>5. CASE LockOwner(w)
  <2>1. UNCHANGED <<status, link>> /\ Goto(w, "redeeming")
    BY <1>5 DEF LockOwner, accountVars
  <2>2. pc'[w] = "redeeming" /\ req'[w] = req[w]
    BY <1>t, <2>1 DEF Goto
  <2> QED
    BY <1>5, <2>1, <2>2 DEF LockOwner, StillSo, Redeemable
<1>6. \/ InsertAccount(w) \/ LockAccount(w) \/ SendActivation(w)
      \/ LockOwner(w) \/ pc'[w] \notin {"issuing", "sent", "redeeming"}
  BY <1>t DEF WorkerStep, Issue, Redeem, AskStart, AskAgain, OpenActivation,
     OpenLink, Begin, LookUp, StoreLink, SendLink, DropLink, CommitActivation,
     LockLink, Complete, Consume, SignIn, Refuse, Abort, End, Goto
<1> QED
  BY <1>1, <1>2, <1>3, <1>4, <1>5, <1>6

\* A worker that does not step locks nothing more.
LEMMA OthersLocks ==
  ASSUME LinksInv, NEW w \in Workers, WorkerStep(w),
         NEW r \in Workers, r # w
  PROVE  /\ \A e \in Emails : HoldsAccount(r, e)' => HoldsAccount(r, e)
         /\ \A l \in Links : HoldsLink(r, l)' => HoldsLink(r, l)
<1>1. pc'[r] = pc[r] /\ req'[r] = req[r]
  BY StepOthers
<1>2. ASSUME NEW l \in Links, pc[r] = "sent",
             l \in LiveLinks(req[r].email, "registration")'
      PROVE  l \in LiveLinks(req[r].email, "registration")
  <2>1. /\ req[r].email \in Emails
        /\ HoldsAccount(r, req[r].email)
        /\ ~HoldsAccount(w, req[r].email)
    BY <1>2 DEF LinksInv, SessionTyped, HoldsAccount, Apart
  <2>2. ASSUME NEW e \in Emails, e = req[r].email
        PROVE  LiveLinks(e, "registration")' \subseteq
                 LiveLinks(e, "registration")
    BY <2>1, <2>2, StoredByHolder DEF Kinds
  <2> QED
    BY <1>1, <1>2, <2>1, <2>2 DEF LiveLinks, Stored
<1> QED
  BY <1>1, <1>2 DEF HoldsAccount, HoldsLink

\* A worker that steps locks only what nobody else holds.
LEMMA StepperLocks ==
  ASSUME LinksInv, NEW w \in Workers, WorkerStep(w),
         NEW r \in Workers, r # w
  PROVE  /\ \A e \in Emails : HoldsAccount(w, e)' => ~HoldsAccount(r, e)
         /\ \A l \in Links : HoldsLink(w, l)' => ~HoldsLink(r, l)
<1>0. /\ TypeOK /\ SessionTyped(w) /\ SessionTyped(r) /\ StillSo(r)
      /\ Apart(w, r)
  BY DEF LinksInv
<1>t. /\ pc \in [Workers -> Steps]
      /\ req \in [Workers -> Request \cup {None}]
      /\ pc[w] # "idle" => req[w] \in Request
  BY <1>0 DEF TypeOK, Steps
<1>1. CASE pc'[w] \notin {"issuing", "sent", "holding", "redeeming"}
  BY <1>1 DEF HoldsAccount, HoldsLink
<1>2. CASE InsertAccount(w)
  <2>1. pc'[w] = "issuing" /\ req'[w] = req[w]
    BY <1>2, <1>t DEF InsertAccount, Goto
  <2>2. status[req[w].email] = "none" /\ NoRival(w)
    BY <1>2 DEF InsertAccount
  <2>3. ~HoldsAccount(r, req[w].email)
    BY <1>0, <2>2 DEF HoldsAccount, NoRival, StillSo, Redeemable
  <2> QED
    BY <2>1, <2>3 DEF HoldsAccount, HoldsLink
<1>3. CASE LockAccount(w)
  <2>1. pc'[w] = "issuing" /\ req'[w] = req[w]
    BY <1>3, <1>t DEF LockAccount, Goto
  <2>2. ~HoldsAccount(r, req[w].email)
    BY <1>3 DEF LockAccount, AccountFree
  <2> QED
    BY <2>1, <2>2 DEF HoldsAccount, HoldsLink
<1>4. CASE SendActivation(w)
  <2>1. PICK l \in Links :
          /\ link[l] = FreeLink
          /\ link' = [link EXCEPT ![l] = NewLink(w, "draft")]
          /\ req' = [req EXCEPT ![w].link = l]
    BY <1>4 DEF SendActivation
  <2>2. /\ pc[w] = "issuing" /\ pc' = [pc EXCEPT ![w] = "sent"]
        /\ req[w].op # "request"
        /\ \A m \in NextLinks(w) : LinkFree(w, m)
    BY <1>4 DEF SendActivation
  <2>3. pc'[w] = "sent" /\ req'[w].email = req[w].email
    BY <1>t, <2>1, <2>2 DEF Request
  <2>4. Kind(req[w].op) = "registration"
    BY <1>0, <2>2 DEF SessionTyped, Issuing, Kind
  <2>5. \A m \in Links : m \in LiveLinks(req[w].email, "registration")' =>
          m \in LiveLinks(req[w].email, "registration")
    BY <1>0, <2>1, <2>2, <2>3, NewLinkType DEF LiveLinks, Stored, TypeOK
  <2>6. \A m \in LiveLinks(req[w].email, "registration") : ~HoldsLink(r, m)
    BY <2>2, <2>4 DEF NextLinks, LinkFree, LiveLinks, Stored
  <2>7. \A m \in Links : HoldsLink(w, m)' => ~HoldsLink(r, m)
    BY <2>3, <2>5, <2>6 DEF HoldsLink
  <2>8. \A e \in Emails : HoldsAccount(w, e)' => ~HoldsAccount(r, e)
    BY <1>0, <2>2, <2>3 DEF HoldsAccount, Apart
  <2> QED
    BY <2>7, <2>8
<1>5. CASE LockLink(w)
  <2>1. pc'[w] = "holding" /\ req'[w].link = req[w].link
    BY <1>5, <1>t DEF LockLink, Request
  <2>2. ~HoldsLink(r, req[w].link)
    BY <1>5 DEF LockLink, LinkFree
  <2> QED
    BY <2>1, <2>2 DEF HoldsAccount, HoldsLink
<1>6. CASE LockOwner(w)
  <2>1. pc[w] = "holding" /\ pc'[w] = "redeeming" /\ req'[w] = req[w]
    BY <1>6, <1>t DEF LockOwner, Goto
  <2>2. ~HoldsAccount(r, req[w].email)
    BY <1>6 DEF LockOwner, AccountFree
  <2> QED
    BY <1>0, <2>1, <2>2 DEF HoldsAccount, HoldsLink, Apart
<1>7. \/ InsertAccount(w) \/ LockAccount(w) \/ SendActivation(w)
      \/ LockLink(w) \/ LockOwner(w)
      \/ pc'[w] \notin {"issuing", "sent", "holding", "redeeming"}
  BY <1>t DEF WorkerStep, Issue, Redeem, AskStart, AskAgain, OpenActivation,
     OpenLink, Begin, LookUp, StoreLink, SendLink, DropLink, CommitActivation,
     Complete, Consume, SignIn, Refuse, Abort, End, Goto
<1> QED
  BY <1>1, <1>2, <1>3, <1>4, <1>5, <1>6, <1>7

\* A step keeps all workers apart.
LEMMA StepperApart ==
  ASSUME LinksInv, NEW w \in Workers, WorkerStep(w),
         NEW r \in Workers, r # w
  PROVE  Apart(w, r)'
<1>0. /\ TypeOK /\ SessionTyped(w) /\ SessionTyped(r)
      /\ Apart(w, r)
  BY DEF LinksInv
<1>t. /\ pc \in [Workers -> Steps]
      /\ req \in [Workers -> Request \cup {None}]
      /\ pc[w] # "idle" => req[w] \in Request
  BY <1>0 DEF TypeOK, Steps
<1>r. pc'[r] = pc[r] /\ req'[r] = req[r]
  BY StepOthers
<1>s. pc[r] \in {"issuing", "sent"} =>
        req[r].email \in Emails
        /\ (status'[req[r].email] = "none" => status[req[r].email] = "none")
  BY <1>0, StepOthers DEF SessionTyped, StatusMoves
<1>1. \A e \in Emails : ~(HoldsAccount(w, e)' /\ HoldsAccount(r, e)')
  BY StepperLocks, OthersLocks
<1>2. \A l \in Links : ~(HoldsLink(w, l)' /\ HoldsLink(r, l)')
  BY StepperLocks, OthersLocks
<1>3. pc'[w] \in {"issuing", "sent"} /\ status'[req'[w].email] = "none"
      /\ pc[r] \in {"issuing", "sent"} /\ status'[req[r].email] = "none"
      => req'[w].nif # req[r].nif
  <2>1. CASE InsertAccount(w)
    BY <1>s, <1>t, <2>1 DEF InsertAccount, Goto, NoRival
  <2>2. CASE LockAccount(w)
    BY <1>t, <2>2 DEF LockAccount, Goto, NeedsAccount, accountVars, MayAsk
  <2>3. CASE SendActivation(w)
    <3>1. /\ pc[w] = "issuing"
          /\ UNCHANGED status
          /\ \E l \in Links : req' = [req EXCEPT ![w].link = l]
      BY <2>3 DEF SendActivation, accountVars
    <3>2. req'[w].email = req[w].email /\ req'[w].nif = req[w].nif
      BY <1>t, <3>1 DEF Request
    <3> QED
      BY <1>0, <1>s, <3>1, <3>2 DEF Apart
  <2>4. CASE pc'[w] \notin {"issuing", "sent"}
    BY <2>4
  <2>5. \/ InsertAccount(w) \/ LockAccount(w) \/ SendActivation(w)
        \/ pc'[w] \notin {"issuing", "sent"}
    BY <1>t DEF WorkerStep, Issue, Redeem, AskStart, AskAgain, OpenActivation,
       OpenLink, Begin, LookUp, StoreLink, SendLink, DropLink,
       CommitActivation, LockLink, LockOwner, Complete, Consume, SignIn, Refuse,
       Abort, End, Goto
  <2> QED
    BY <2>1, <2>2, <2>3, <2>4, <2>5
<1>4. pc'[w] \in {"sent", "mailing"} /\ pc[r] \in {"sent", "mailing"} =>
        req'[w].link # req[r].link
  <2>1. CASE SendActivation(w) \/ StoreLink(w)
    <3>1. PICK l \in Links : link[l] = FreeLink
                             /\ req' = [req EXCEPT ![w].link = l]
      BY <2>1 DEF SendActivation, StoreLink
    <3>2. pc[w] = "issuing"
      BY <2>1 DEF SendActivation, StoreLink
    <3>3. req'[w].link = l
      BY <1>t, <3>1, <3>2 DEF Request
    <3> QED
      BY <1>0, <3>1, <3>3 DEF SessionTyped, FreeLink
  <2>2. CASE pc'[w] \notin {"sent", "mailing"}
    BY <2>2
  <2>3. SendActivation(w) \/ StoreLink(w) \/ pc'[w] \notin {"sent", "mailing"}
    BY <1>t DEF WorkerStep, Issue, Redeem, AskStart, AskAgain, OpenActivation,
       OpenLink, Begin, LookUp, InsertAccount, LockAccount, SendLink, DropLink,
       CommitActivation, LockLink, LockOwner, Complete, Consume, SignIn, Refuse,
       Abort, End, Goto
  <2> QED
    BY <2>1, <2>2, <2>3
<1> QED
  BY <1>r, <1>1, <1>2, <1>3, <1>4 DEF Apart

\* Two other workers stay apart.
LEMMA OthersApart ==
  ASSUME LinksInv, NEW w \in Workers, WorkerStep(w),
         NEW x \in Workers \ {w}, NEW y \in Workers \ {w}, x # y
  PROVE  Apart(x, y)'
<1>0. SessionTyped(x) /\ SessionTyped(y) /\ Apart(x, y)
  BY DEF LinksInv
<1>1. /\ pc'[x] = pc[x] /\ req'[x] = req[x]
      /\ pc'[y] = pc[y] /\ req'[y] = req[y]
  BY StepOthers
<1>2. \A e \in Emails : status'[e] = "none" => status[e] = "none"
  BY StepOthers DEF StatusMoves
<1>3. \A e \in Emails : ~(HoldsAccount(x, e)' /\ HoldsAccount(y, e)')
  BY <1>0, OthersLocks DEF Apart
<1>4. \A l \in Links : ~(HoldsLink(x, l)' /\ HoldsLink(y, l)')
  BY <1>0, OthersLocks DEF Apart
<1> QED
  BY <1>0, <1>1, <1>2, <1>3, <1>4 DEF Apart, SessionTyped

\* After a step of w any two workers are apart.
LEMMA StepApart ==
  ASSUME LinksInv, NEW w \in Workers, WorkerStep(w),
         NEW x \in Workers, NEW y \in Workers, x # y
  PROVE  Apart(x, y)'
<1>1. CASE x = w
  BY <1>1, StepperApart
<1>2. CASE y = w
  <2>1. Apart(w, x)'
    BY <1>2, StepperApart
  <2> QED
    BY <1>2, <2>1 DEF Apart
<1>3. CASE x # w /\ y # w
  BY <1>3, OthersApart
<1> QED
  BY <1>1, <1>2, <1>3

(***************************************************************************)
(* What the tables keep.                                                   *)
(***************************************************************************)

\* Who is signed in, who gets a password and points, and what is mailed
LEMMA StepTables ==
  ASSUME LinksInv, NEW w \in Workers, WorkerStep(w)
  PROVE  /\ \/ signedBy' = signedBy
            \/ /\ pc[w] = "login"
               /\ pc'[w] = "idle"
               /\ signedBy' = signedBy \cup {req[w].link}
         /\ Complete(w) \/ UNCHANGED <<password, awarded>>
         /\ Complete(w) \/ CommitActivation(w) \/ UNCHANGED status
         /\ \A l \in mailed' \ mailed :
              \/ pc'[w] = "sent" /\ l = req'[w].link
              \/ pc[w] = "mailing" /\ l = req[w].link
<1>t. /\ pc \in [Workers -> Steps]
      /\ req \in [Workers -> Request \cup {None}]
      /\ pc[w] # "idle" => req[w] \in Request
  BY DEF LinksInv, TypeOK, Steps
<1>1. CASE SendActivation(w)
  <2>1. PICK l \in Links : /\ mailed' = mailed \cup {l}
                           /\ req' = [req EXCEPT ![w].link = l]
    BY <1>1 DEF SendActivation
  <2>2. /\ pc[w] = "issuing"
        /\ pc' = [pc EXCEPT ![w] = "sent"]
        /\ UNCHANGED <<accountVars, signedBy>>
    BY <1>1 DEF SendActivation
  <2> QED
    BY <1>t, <2>1, <2>2 DEF Request, accountVars
<1>2. CASE SignIn(w) \/ SendLink(w) \/ CommitActivation(w) \/ Complete(w)
  BY <1>2, <1>t DEF SignIn, SendLink, CommitActivation, Complete, End,
                    accountVars
<1>3. \/ SendActivation(w) \/ SignIn(w) \/ SendLink(w) \/ CommitActivation(w)
      \/ Complete(w) \/ UNCHANGED <<accountVars, mailed, signedBy>>
  BY DEF WorkerStep, Issue, Redeem, AskStart, AskAgain, OpenActivation, OpenLink,
         Begin, LookUp, InsertAccount, LockAccount, StoreLink, DropLink,
         LockLink, LockOwner, Consume, Refuse, Abort
<1> QED
  BY <1>1, <1>2, <1>3 DEF accountVars

\* A link is used by the request that holds it, and from then on stays used.
LEMMA UsedOnce ==
  ASSUME LinksInv, NEW w \in Workers, WorkerStep(w), NEW l \in Links
  PROVE  /\ link[l].state = "used" => link'[l] = link[l]
         /\ link'[l].state = "used" /\ link[l].state # "used" =>
              /\ pc[w] = "redeeming"
              /\ l = req[w].link
              /\ link[l].state = "live"
<1>1. Writes(w) /\ SessionTyped(w) /\ StillSo(w)
  BY StepWrites DEF LinksInv
<1> QED
  BY <1>1 DEF Writes, Inserts, Supersedes, LiveLinks, Stored, Moves,
              SessionTyped, StillSo, Redeemable

\* A step of a worker keeps what RowsSound says of the rows.
LEMMA StepSound ==
  ASSUME LinksInv, NEW w \in Workers, WorkerStep(w)
  PROVE  RowsSound'
<1>1. /\ Writes(w) /\ SessionTyped(w) /\ SessionTyped(w)' /\ StillSo(w)
      /\ RowsSound /\ TypeOK
      /\ mailed \subseteq mailed'
      /\ mailed' \subseteq Links
  BY StepWrites, StepOthers, StepperTyped, IssueTypes, RedeemTypes, OtherTypes
     DEF LinksInv, WorkerStep, TypeOK
<1>2. \A l \in Links : link[l].state # "free" => link'[l].state # "free"
  BY <1>1 DEF Writes, Inserts, Supersedes, Moves
<1>3. \A l \in mailed' : link'[l].state # "free"
  BY <1>1, <1>2, StepTables DEF RowsSound, SessionTyped
<1>4. \A l \in signedBy' : link'[l].state = "used"
  <2>1. pc[w] = "login" => /\ req[w].link \in Links
                           /\ link[req[w].link].state = "used"
    BY <1>1 DEF SessionTyped, TypeOK
  <2> QED
    BY <1>1, <2>1, StepTables, UsedOnce DEF RowsSound, TypeOK
<1>5. \A l \in Links : link'[l].state = "used" => l \in mailed'
  BY <1>1, UsedOnce DEF RowsSound, SessionTyped
<1>6. ASSUME NEW l \in Links, link'[l].state \in {"live", "used", "invalid"},
             link'[l].kind = "registration"
      PROVE  l \in mailed'
  <2>1. CASE link'[l] = link[l]
    BY <1>1, <1>6, <2>1 DEF RowsSound
  <2>2. ~Inserts(w, l)
    BY <1>6 DEF Inserts, Kind
  <2>3. CASE Supersedes(w, l)
    BY <1>1, <1>6, <2>3 DEF RowsSound, Supersedes, LiveLinks, Stored, SameLink
  <2>4. CASE Moves(w, l)
    BY <1>1, <1>6, <2>4 DEF Moves, SessionTyped
  <2> QED
    BY <1>1, <2>1, <2>2, <2>3, <2>4 DEF Writes
<1>7. ASSUME NEW e \in Emails, status'[e] \in {"none", "pending"}
      PROVE  password'[e] = None
  <2>1. CASE Complete(w)
    <3>1. /\ status' = [status EXCEPT ![req[w].email] = "active"]
          /\ password' = [password EXCEPT ![req[w].email] = req[w].link]
      BY <2>1 DEF Complete
    <3> QED
      BY <1>1, <1>7, <3>1 DEF TypeOK, RowsSound
  <2>2. CASE CommitActivation(w)
    <3>1. /\ pc[w] = "sent"
          /\ status' = [status EXCEPT ![req[w].email] = "pending"]
          /\ password' = password
      BY <2>2 DEF CommitActivation
    <3>2. status[req[w].email] \in {"none", "pending"}
      BY <1>1, <3>1 DEF StillSo, MayAsk, SessionTyped
    <3> QED
      BY <1>1, <1>7, <3>1, <3>2 DEF TypeOK, RowsSound
  <2>3. CASE UNCHANGED <<status, password>>
    BY <1>1, <1>7, <2>3 DEF RowsSound
  <2> QED
    BY <2>1, <2>2, <2>3, StepTables
<1> QED
  BY <1>3, <1>4, <1>5, <1>6, <1>7 DEF RowsSound

\* n is what the step stores for e: it is the only live link that e has then,
\* and every other was created more than the cooldown before it.
Stores(n, e, k) ==
  /\ Stored(e, k)' \subseteq Stored(e, k) \cup {n}
  /\ LiveLinks(e, k)' \subseteq {n}
  /\ \A m \in Stored(e, k) :
       /\ m # n
       /\ link'[m].created = link[m].created
       /\ link[m].created + Cooldown < link'[n].created

\* A row that w stores is all that.
LEMMA SupersedeStores ==
  ASSUME LinksInv, NEW w \in Workers, pc[w] \in {"issuing", "sent"},
         NEW n \in Links, NEW row \in LinkRow, Supersede(n, row),
         NEW e \in Emails, NEW k \in Kinds,
         e = req[w].email, k = Kind(req[w].op),
         row.owner = e, row.kind = k, req[w].now <= row.created,
         link[n].state \in {"free", "draft"}
  PROVE  Stores(n, e, k)
<1>1. TypeOK /\ StillSo(w)
  BY DEF LinksInv
<1>2. /\ link'[n] = row
      /\ \A m \in Links \ {n} :
           IF m \in LiveLinks(e, k)
           THEN /\ link'[m].state = "invalid"
                /\ link'[m].kind = link[m].kind
                /\ link'[m].owner = link[m].owner
                /\ link'[m].created = link[m].created
           ELSE link'[m] = link[m]
  BY <1>1, SupersedeEffect
<1>3. \A m \in Stored(e, k) : m \in Links \ {n}
  BY DEF Stored
<1>4. \A m \in Links \ {n} : m \in Stored(e, k)' => m \in Stored(e, k)
  BY <1>2 DEF Stored, LiveLinks
<1>5. \A m \in Links \ {n} : m \notin LiveLinks(e, k)'
  BY <1>2, <1>4 DEF Stored, LiveLinks
<1>6. \A m \in Stored(e, k) : link'[m].created = link[m].created
  BY <1>2, <1>3
<1>7. ASSUME NEW m \in Stored(e, k)
      PROVE  link[m].created + Cooldown < link'[n].created
  <2>1. link[m].created + Cooldown < req[w].now
    BY <1>1 DEF StillSo
  <2>2. /\ link[m].created \in Nat
        /\ row.created \in Nat
        /\ req[w].now \in Nat
    BY <1>1, RowType, AccountsAssumption
       DEF Stored, LinkRow, TypeOK, Request
  <2> QED
    BY <1>2, <2>1, <2>2, AccountsAssumption
<1> QED
  BY <1>3, <1>4, <1>5, <1>6, <1>7 DEF Stores, Stored, LiveLinks

\* Either nothing is stored for an account, or one link is that supersedes the
\* others.
LEMMA StoredByStep ==
  ASSUME LinksInv, NEW w \in Workers, WorkerStep(w),
         NEW e \in Emails, NEW k \in Kinds
  PROVE  \/ /\ Stored(e, k)' \subseteq Stored(e, k)
            /\ LiveLinks(e, k)' \subseteq LiveLinks(e, k)
            /\ \A l \in Stored(e, k)' : link'[l].created = link[l].created
         \/ \E n \in Links : Stores(n, e, k)
<1>0. /\ TypeOK /\ SessionTyped(w) /\ StillSo(w) /\ Writes(w)
  BY StepWrites DEF LinksInv
<1>1. CASE ~HoldsAccount(w, e) \/ ~(pc[w] \in {"issuing", "sent"})
  BY <1>1, StoredByHolder
<1>2. CASE /\ HoldsAccount(w, e) /\ pc[w] \in {"issuing", "sent"}
           /\ k = Kind(req[w].op)
  <2>0. e = req[w].email
    BY <1>2 DEF HoldsAccount
  <2>1. CASE StoreLink(w)
    <3>1. PICK l \in Links : link[l] = FreeLink /\ Supersede(l, NewLink(w, "live"))
      BY <2>1 DEF StoreLink
    <3>2. pc[w] = "issuing"
      BY <2>1 DEF StoreLink
    <3>3. /\ NewLink(w, "live") \in LinkRow
          /\ NewLink(w, "live").owner = e
          /\ NewLink(w, "live").kind = k
          /\ NewLink(w, "live").created = clock
      BY <1>0, <1>2, <2>0, <3>2, NewLinkType
    <3>4. link[l].state = "free" /\ req[w].now <= clock
      BY <1>0, <3>1, <3>2 DEF FreeLink, SessionTyped
    <3> QED
      BY <1>2, <2>0, <3>1, <3>3, <3>4, SupersedeStores
  <2>2. CASE CommitActivation(w)
    <3> DEFINE l == req[w].link
               row == [link[l] EXCEPT !.state = "live"]
    <3>1. pc[w] = "sent" /\ Supersede(l, row)
      BY <2>2 DEF CommitActivation
    <3>2. /\ l \in Links
          /\ link[l].state = "draft"
          /\ link[l].kind = k
          /\ link[l].owner = e
          /\ req[w].now <= link[l].created
      BY <1>0, <1>2, <2>0, <3>1 DEF SessionTyped, StillSo
    <3>3. row \in LinkRow /\ row.owner = e /\ row.kind = k
          /\ row.created = link[l].created
      BY <1>0, <3>2, StateEffect
    <3> HIDE DEF row
    <3> QED
      BY <1>2, <2>0, <3>1, <3>2, <3>3, SupersedeStores
  <2>3. CASE UNCHANGED link
    BY <2>3 DEF Stored, LiveLinks
  <2>4. CASE \A l \in Links : link'[l] = link[l] \/ link'[l].state \in {"draft", "gone"}
    BY <2>4 DEF Stored, LiveLinks
  <2>5. CASE SendActivation(w)
    <3>1. PICK l \in Links : link' = [link EXCEPT ![l] = NewLink(w, "draft")]
      BY <2>5 DEF SendActivation
    <3>2. NewLink(w, "draft").state = "draft"
      BY <1>0, <2>5, NewLinkType DEF SendActivation
    <3> QED
      BY <1>0, <2>4, <3>1, <3>2 DEF TypeOK
  <2>6. CASE Abort(w) /\ pc[w] = "sent"
    BY <1>0, <2>4, <2>6, StateWritten DEF Abort, SessionTyped
  <2>7. \/ StoreLink(w) \/ CommitActivation(w) \/ UNCHANGED link
        \/ SendActivation(w) \/ (Abort(w) /\ pc[w] = "sent")
    BY <1>2 DEF WorkerStep, Issue, Redeem, AskStart, AskAgain, OpenActivation,
       OpenLink, Begin, LookUp, InsertAccount, LockAccount, SendLink, DropLink,
       LockLink, LockOwner, Complete, Consume, SignIn, Refuse, Abort
  <2> QED
    BY <2>1, <2>2, <2>3, <2>5, <2>6, <2>7
<1>3. CASE k # Kind(req[w].op) /\ pc[w] \in {"issuing", "sent"}
  <2>1. ASSUME NEW l \in Links, link'[l] # link[l]
        PROVE  link'[l].kind # k
    BY <1>0, <1>3, <2>1 DEF Writes, Inserts, Supersedes, LiveLinks, Stored,
                            SameLink, Moves, SessionTyped
  <2> QED
    BY <2>1 DEF Stored, LiveLinks
<1> QED
  BY <1>1, <1>2, <1>3

\* A step of a worker keeps the links apart and the newest one live.
LEMMA StepNewest ==
  ASSUME LinksInv, NEW w \in Workers, WorkerStep(w)
  PROVE  LinksApart' /\ LiveIsNewest'
<1>0. /\ TypeOK /\ TypeOK' /\ LinksApart /\ LiveIsNewest
  BY IssueTypes, RedeemTypes, OtherTypes DEF LinksInv, WorkerStep
<1>n. \A e \in Emails, k \in Kinds :
        /\ \A l \in Stored(e, k) : link[l].created \in Nat
        /\ \A l \in Stored(e, k)' : link'[l].created \in Nat
  <2>1. \A l \in Links : link[l].state # "free" => link[l].created \in Nat
    BY <1>0, RowType DEF LinkRow
  <2>2. \A l \in Links : link'[l].state # "free" => link'[l].created \in Nat
    BY <1>0 DEF TypeOK, LinkRow, FreeLink
  <2> QED
    BY <2>1, <2>2 DEF Stored
<1>1. ASSUME NEW e \in Emails, NEW k \in Kinds
      PROVE  /\ \A l, m \in Stored(e, k)' :
                  link'[l].created <= link'[m].created /\ l # m =>
                    link'[l].created + Cooldown < link'[m].created
             /\ \A l \in LiveLinks(e, k)' : \A m \in Stored(e, k)' \ {l} :
                  link'[m].created < link'[l].created
  <2>1. CASE /\ Stored(e, k)' \subseteq Stored(e, k)
             /\ LiveLinks(e, k)' \subseteq LiveLinks(e, k)
             /\ \A l \in Stored(e, k)' : link'[l].created = link[l].created
    <3>1. \A l \in LiveLinks(e, k)' : l \in Stored(e, k)'
      BY DEF LiveLinks
    <3>2. \A l, m \in Stored(e, k) :
            link[l].created <= link[m].created /\ l # m =>
              link[l].created + Cooldown < link[m].created
      BY <1>0 DEF LinksApart
    <3>3. \A l \in LiveLinks(e, k) : \A m \in Stored(e, k) \ {l} :
            link[m].created < link[l].created
      BY <1>0 DEF LiveIsNewest
    <3> QED
      BY <2>1, <3>1, <3>2, <3>3
  <2>2. ASSUME NEW n \in Links, Stores(n, e, k)
        PROVE  /\ \A l, m \in Stored(e, k)' :
                    link'[l].created <= link'[m].created /\ l # m =>
                      link'[l].created + Cooldown < link'[m].created
               /\ \A l \in LiveLinks(e, k)' : \A m \in Stored(e, k)' \ {l} :
                    link'[m].created < link'[l].created
    <3>1. \A m \in Stored(e, k)' \ {n} :
            /\ m \in Stored(e, k)
            /\ link'[m].created = link[m].created
            /\ link'[m].created \in Nat
            /\ link'[m].created + Cooldown < link'[n].created
      BY <1>n, <2>2 DEF Stores
    <3>2. ASSUME NEW l \in Stored(e, k)', NEW m \in Stored(e, k)',
                 link'[l].created <= link'[m].created, l # m
          PROVE  link'[l].created + Cooldown < link'[m].created
      <4>1. CASE m = n
        BY <3>1, <3>2, <4>1
      <4>2. CASE l = n
        <5>1. link'[m].created + Cooldown < link'[n].created
              /\ link'[m].created \in Nat /\ link'[n].created \in Nat
          BY <1>n, <3>1, <3>2, <4>2
        <5> QED
          BY <3>2, <4>2, <5>1, AccountsAssumption
      <4>3. CASE l # n /\ m # n
        BY <1>0, <3>1, <3>2, <4>3 DEF LinksApart
      <4> QED
        BY <4>1, <4>2, <4>3
    <3>3. ASSUME NEW l \in LiveLinks(e, k)', NEW m \in Stored(e, k)' \ {l}
          PROVE  link'[m].created < link'[l].created
      <4>1. l = n
        BY <2>2 DEF Stores
      <4>2. l \in Stored(e, k)'
        BY DEF LiveLinks
      <4> QED
        BY <1>n, <3>1, <4>1, <4>2, AccountsAssumption
    <3> QED
      BY <3>2, <3>3
  <2> QED
    BY <2>1, <2>2, StoredByStep
<1> QED
  BY <1>1 DEF LinksApart, LiveIsNewest

\* An activation that was mailed stays on the table.
LEMMA StepMailed ==
  ASSUME LinksInv, NEW w \in Workers, WorkerStep(w)
  PROVE  PendingWasMailed'
<1>0. /\ TypeOK /\ PendingWasMailed /\ SessionTyped(w) /\ StillSo(w) /\ Writes(w)
      /\ mailed \subseteq mailed'
  BY StepWrites, StepOthers DEF LinksInv
<1>1. ASSUME NEW e \in Emails, NEW l \in Stored(e, "registration"), l \in mailed
      PROVE  l \in Stored(e, "registration")' \cap mailed'
  BY <1>0, <1>1 DEF Writes, Stored, Inserts, Supersedes, Moves, SameLink,
                    SessionTyped
<1>2. ASSUME NEW e \in Emails, status'[e] = "pending", status[e] # "pending"
      PROVE  Stored(e, "registration")' \cap mailed' # {}
  <2>1. CommitActivation(w) /\ e = req[w].email
    <3>1. status \in [Emails -> {"none", "pending", "active", "suspended"}]
      BY <1>0 DEF TypeOK
    <3>2. Complete(w) => status' = [status EXCEPT ![req[w].email] = "active"]
      BY DEF Complete
    <3>3. CommitActivation(w) =>
            status' = [status EXCEPT ![req[w].email] = "pending"]
      BY DEF CommitActivation
    <3>4. Complete(w) \/ CommitActivation(w) \/ status' = status
      BY StepTables
    <3> QED
      BY <1>2, <3>1, <3>2, <3>3, <3>4
  <2> DEFINE l == req[w].link
             row == [link[l] EXCEPT !.state = "live"]
  <2>2. pc[w] = "sent" /\ Supersede(l, row)
    BY <2>1 DEF CommitActivation
  <2>3. /\ l \in Links
        /\ l \in mailed
        /\ link[l].state = "draft"
        /\ link[l].kind = "registration"
        /\ link[l].owner = e
    BY <1>0, <2>1, <2>2 DEF SessionTyped, Kind, Issuing
  <2>4. /\ row \in LinkRow
        /\ row.state = "live"
        /\ row.owner = e
        /\ row.kind = "registration"
    BY <1>0, <2>3, StateEffect
  <2> HIDE DEF row
  <2>5. link'[l] = row
    BY <1>0, <2>2, <2>3, <2>4, SupersedeEffect
  <2> QED
    BY <1>0, <2>3, <2>4, <2>5 DEF Stored
<1> QED
  BY <1>0, <1>1, <1>2 DEF PendingWasMailed

\* The activations of an account that were used
Used(e) == {l \in Stored(e, "registration") : link[l].state = "used"}

\* A step of a worker gives points for the one activation that is used.
LEMMA StepRewarded ==
  ASSUME LinksInv, NEW w \in Workers, WorkerStep(w)
  PROVE  RewardedForCompleting'
<1>0. /\ TypeOK /\ SessionTyped(w) /\ StillSo(w) /\ RowsSound
      /\ \A e \in Emails : /\ Used(e) = {password[e]} \ {None}
                           /\ e \in awarded <=> Used(e) # {}
  BY DEF LinksInv, RewardedForCompleting, Used
<1>u. ASSUME NEW e \in Emails, NEW l \in Links,
             ~Complete(w) \/ e # req[w].email
      PROVE  l \in Used(e)' <=> l \in Used(e)
  <2>1. CASE link[l].state = "used"
    BY <2>1, UsedOnce DEF Used, Stored
  <2>2. CASE link[l].state # "used" /\ link'[l].state = "used"
    <3>1. pc[w] = "redeeming" /\ l = req[w].link /\ link[l].state = "live"
      BY <2>2, UsedOnce
    <3>2. /\ link[l].owner = req[w].email
          /\ link[l].kind = Kind(req[w].op)
          /\ req[w].op \in Redeeming
          /\ SameLink(l)
      BY <1>0, <3>1, KeepsKind DEF SessionTyped
    <3>3. Complete(w) \/ Consume(w) \/ UNCHANGED link
      BY <3>1 DEF WorkerStep, Issue, Redeem, AskStart, AskAgain, OpenActivation,
         OpenLink, Begin, LookUp, InsertAccount, LockAccount, SendLink,
         DropLink, SendActivation, StoreLink, CommitActivation, LockLink,
         LockOwner, SignIn, Refuse, Abort
    <3>4. CASE Complete(w)
      BY <1>u, <3>2, <3>4 DEF Used, Stored, SameLink
    <3>5. CASE Consume(w)
      BY <3>2, <3>5 DEF Consume, Kind, Used, Stored, SameLink
    <3> QED
      BY <2>2, <3>3, <3>4, <3>5
  <2>3. CASE link[l].state # "used" /\ link'[l].state # "used"
    BY <2>3 DEF Used, Stored
  <2> QED
    BY <2>1, <2>2, <2>3
<1>v. \A e \in Emails : Used(e) \subseteq Links /\ Used(e)' \subseteq Links
  BY DEF Used, Stored
<1>1. ASSUME NEW e \in Emails, ~Complete(w) \/ e # req[w].email
      PROVE  Used(e)' = Used(e)
  BY <1>1, <1>u, <1>v
<1>2. ASSUME Complete(w), NEW e \in Emails, e = req[w].email
      PROVE  Used(e)' = {req[w].link}
  <2> DEFINE l == req[w].link
  <2>1. /\ pc[w] = "redeeming"
        /\ l \in Links
        /\ req[w].op = "complete"
        /\ link[l].state = "live"
        /\ link[l].owner = e
        /\ link[l].kind = "registration"
        /\ status[e] = "pending"
    BY <1>0, <1>2 DEF Complete, SessionTyped, StillSo, Redeemable, Kind
  <2>2. Used(e) = {}
    BY <1>0, <2>1 DEF RowsSound
  <2>3. SessionTyped(w)' /\ pc'[w] = "login" /\ req'[w] = req[w]
    BY <1>0, <1>2, StepperTyped DEF Complete, Goto, TypeOK
  <2>4. link'[l].state = "used" /\ SameLink(l)
    BY <2>1, <2>3, KeepsKind DEF SessionTyped
  <2>5. l \in Used(e)'
    BY <2>1, <2>4 DEF Used, Stored, SameLink
  <2>6. ASSUME NEW m \in Links, m \in Used(e)' PROVE m = l
    <3>1. link'[m].state = "used" /\ link'[m].owner = e
          /\ link'[m].kind = "registration"
      BY <2>6 DEF Used, Stored
    <3>2. link[m].state # "used"
      BY <2>2, <3>1, UsedOnce DEF Used, Stored
    <3> QED
      BY <3>1, <3>2, UsedOnce
  <2> QED
    BY <1>v, <2>5, <2>6
<1>3. ASSUME NEW e \in Emails
      PROVE  /\ Used(e)' = {password'[e]} \ {None}
             /\ e \in awarded' <=> Used(e)' # {}
  <2>1. CASE Complete(w)
    <3>1. /\ password' = [password EXCEPT ![req[w].email] = req[w].link]
          /\ awarded' = awarded \cup {req[w].email}
          /\ pc[w] = "redeeming"
      BY <2>1 DEF Complete
    <3>2. req[w].link \in Links /\ req[w].link # None
      BY <1>0, <3>1, AccountsAssumption DEF SessionTyped
    <3>3. CASE e = req[w].email
      BY <1>0, <1>2, <2>1, <3>1, <3>2, <3>3 DEF TypeOK
    <3>4. CASE e # req[w].email
      BY <1>0, <1>1, <3>1, <3>4 DEF TypeOK
    <3> QED
      BY <3>3, <3>4
  <2>2. CASE ~Complete(w)
    BY <1>0, <1>1, <2>2, StepTables
  <2> QED
    BY <2>1, <2>2
<1> QED
  BY <1>3 DEF RewardedForCompleting, Used

\* A step of a worker signs nobody in twice with one link.
LEMMA StepSignsInOnce ==
  ASSUME LinksInv, NEW w \in Workers, WorkerStep(w)
  PROVE  SignsInOnce'
<1>0. /\ TypeOK /\ RowsSound /\ SignsInOnce
      /\ \A x \in Workers : SessionTyped(x) /\ StillSo(x)
  BY DEF LinksInv
<1>t. /\ pc \in [Workers -> Steps]
      /\ req \in [Workers -> Request \cup {None}]
  BY <1>0 DEF TypeOK, Steps
<1>1. \A r \in Workers \ {w} : pc'[r] = pc[r] /\ req'[r] = req[r]
  BY StepOthers
<1>2. ASSUME pc'[w] = "login"
      PROVE  /\ signedBy' = signedBy
             /\ req'[w].link \notin signedBy
             /\ \A r \in Workers \ {w} :
                  pc[r] = "login" => req[r].link # req'[w].link
  <2>1. Complete(w) \/ Consume(w)
    BY <1>2, <1>t DEF WorkerStep, Issue, Redeem, AskStart, AskAgain,
       OpenActivation, OpenLink, Begin, LookUp, InsertAccount, LockAccount,
       SendActivation, CommitActivation, StoreLink, SendLink, DropLink,
       LockLink, LockOwner, SignIn, Refuse, Abort, End, Goto
  <2>2. pc[w] = "redeeming" /\ req' = req /\ signedBy' = signedBy
    BY <2>1 DEF Complete, Consume, Goto
  <2>3. link[req[w].link].state = "live"
    BY <1>0, <2>2 DEF StillSo, Redeemable
  <2> QED
    BY <1>0, <2>2, <2>3 DEF RowsSound, SessionTyped
<1>3. ASSUME NEW r \in Workers \ {w}, pc[r] = "login"
      PROVE  req[r].link \notin signedBy'
  BY <1>0, <1>3, StepTables DEF SignsInOnce
<1>4. ASSUME NEW r \in Workers, pc'[r] = "login"
      PROVE  /\ req'[r].link \notin signedBy'
             /\ \A x \in Workers \ {r} :
                  pc'[x] = "login" => req'[x].link # req'[r].link
  <2>1. CASE r = w
    BY <1>1, <1>2, <1>4, <2>1
  <2>2. CASE r # w
    BY <1>0, <1>1, <1>2, <1>3, <1>4, <2>2 DEF SignsInOnce
  <2> QED
    BY <2>1, <2>2
<1> QED
  BY <1>4 DEF SignsInOnce

\* A step of a worker keeps the invariant.
LEMMA WorkerKeeps ==
  ASSUME LinksInv, NEW w \in Workers, WorkerStep(w)
  PROVE  LinksInv'
<1>1. TypeOK'
  BY IssueTypes, RedeemTypes, OtherTypes DEF WorkerStep
<1>2. \A r \in Workers : SessionTyped(r)'
  BY StepperTyped, OthersTyped
<1>3. \A r \in Workers : StillSo(r)'
  BY StepperStillSo, OthersStillSo
<1>4. \A x, y \in Workers : x # y => Apart(x, y)'
  BY StepApart
<1> QED
  BY <1>1, <1>2, <1>3, <1>4, StepSound, StepNewest, StepMailed, StepRewarded,
     StepSignsInOnce DEF LinksInv

(***************************************************************************)
(* The staff and the clock.                                                *)
(***************************************************************************)

\* The staff write to accounts that nobody holds.
LEMMA StaffKeeps ==
  ASSUME LinksInv, NEW e \in Emails, NEW new \in {"active", "suspended"},
         StaffWrites(e, new)
  PROVE  LinksInv'
<1>1. TypeOK /\ TypeOK'
  BY OtherTypes DEF LinksInv
<1>2. /\ status' = [status EXCEPT ![e] = new]
      /\ UNCHANGED <<nif, password, awarded, link, mailed, signedBy, clock,
                     pc, req>>
      /\ \A w \in Workers : ~HoldsAccount(w, e)
  BY DEF StaffWrites
<1>3. /\ \A f \in Emails \ {e} : status'[f] = status[f]
      /\ status'[e] \notin {"none", "pending"}
  BY <1>1, <1>2 DEF TypeOK
<1>4. ASSUME NEW w \in Workers PROVE SessionTyped(w)' /\ StillSo(w)'
  <2>1. SessionTyped(w) /\ StillSo(w)
    BY DEF LinksInv
  <2>2. SessionTyped(w)'
    BY <1>2, <2>1 DEF SessionTyped
  <2>3. pc[w] \in {"issuing", "sent", "redeeming"} =>
          req[w].email \in Emails \ {e}
    BY <1>1, <1>2, <2>1, RowType DEF SessionTyped, HoldsAccount, LinkRow
  <2>4. pc[w] \in {"issuing", "sent", "redeeming"} =>
          status'[req[w].email] = status[req[w].email]
    BY <1>3, <2>3
  <2> QED
    BY <1>2, <2>1, <2>2, <2>4
       DEF StillSo, MayAsk, NifTaken, Stored, Redeemable
<1>5. ASSUME NEW x \in Workers, NEW y \in Workers, x # y PROVE Apart(x, y)'
  <2>1. Apart(x, y) /\ SessionTyped(x) /\ SessionTyped(y)
    BY <1>5 DEF LinksInv
  <2>2. \A f \in Emails : status'[f] = "none" => status[f] = "none"
    BY <1>3
  <2> QED
    BY <1>2, <2>1, <2>2 DEF Apart, SessionTyped, HoldsAccount, HoldsLink,
                            LiveLinks, Stored
<1>6. RowsSound'
  BY <1>2, <1>3 DEF LinksInv, RowsSound
<1>7. LinksApart' /\ LiveIsNewest' /\ RewardedForCompleting' /\ SignsInOnce'
  BY <1>2 DEF LinksInv, LinksApart, LiveIsNewest, RewardedForCompleting,
              SignsInOnce, LiveLinks, Stored
<1>8. PendingWasMailed'
  BY <1>2, <1>3 DEF LinksInv, PendingWasMailed, Stored
<1> QED
  BY <1>1, <1>4, <1>5, <1>6, <1>7, <1>8 DEF LinksInv

\* Time passes; or nothing happens.
LEMMA TimeKeeps ==
  ASSUME LinksInv, Tick \/ UNCHANGED vars
  PROVE  LinksInv'
<1>1. TypeOK /\ TypeOK'
  BY OtherTypes DEF LinksInv
<1>2. UNCHANGED <<status, nif, password, awarded, link, mailed, signedBy, pc, req>>
  BY DEF Tick, vars, accountVars
<1>3. /\ clock \in Nat
      /\ clock' \in Nat
      /\ clock <= clock'
  BY <1>1, AccountsAssumption DEF TypeOK, Tick, vars
<1>4. ASSUME NEW w \in Workers PROVE SessionTyped(w)'
  <2>1. SessionTyped(w) /\ (pc[w] # "idle" => req[w].now \in Nat)
    BY <1>1 DEF LinksInv, TypeOK, Request
  <2>2. pc[w] # "idle" => req[w].now <= clock'
    BY <1>3, <2>1 DEF SessionTyped
  <2> QED
    BY <1>2, <2>1, <2>2 DEF SessionTyped
<1>5. ASSUME NEW w \in Workers PROVE StillSo(w)'
  BY <1>2 DEF LinksInv, StillSo, MayAsk, NifTaken, Stored, Redeemable
<1>6. ASSUME NEW x \in Workers, NEW y \in Workers, x # y PROVE Apart(x, y)'
  BY <1>2, <1>6 DEF LinksInv, Apart, HoldsAccount, HoldsLink, LiveLinks, Stored
<1>7. RowsSound' /\ PendingWasMailed' /\ SignsInOnce'
  BY <1>2 DEF LinksInv, RowsSound, PendingWasMailed, SignsInOnce, Stored
<1>8. LinksApart' /\ LiveIsNewest' /\ RewardedForCompleting'
  BY <1>2 DEF LinksInv, LinksApart, LiveIsNewest, RewardedForCompleting,
              LiveLinks, Stored
<1> QED
  BY <1>1, <1>4, <1>5, <1>6, <1>7, <1>8 DEF LinksInv

(***************************************************************************)
(* The theorems.                                                           *)
(***************************************************************************)

\* The initial states satisfy the invariant.
LEMMA InitInv == Init => LinksInv
<1> SUFFICES ASSUME Init PROVE LinksInv
  OBVIOUS
<1>1. TypeOK /\ \A w \in Workers : SessionTyped(w)
  BY InitType
<1>2. /\ \A w \in Workers : pc[w] = "idle"
      /\ \A l \in Links : link[l].state = "free"
      /\ \A e \in Emails : status[e] # "pending" /\ password[e] = None
      /\ awarded = {} /\ mailed = {} /\ signedBy = {}
  BY DEF Init, FreeLink
<1>3. \A w \in Workers : StillSo(w)
  BY <1>2 DEF StillSo
<1>4. \A w, r \in Workers : Apart(w, r)
  BY <1>2 DEF Apart, HoldsAccount, HoldsLink
<1>5. \A e \in Emails, k \in Kinds : Stored(e, k) = {} /\ LiveLinks(e, k) = {}
  BY <1>2 DEF Stored, LiveLinks
<1>6. RowsSound /\ PendingWasMailed /\ SignsInOnce
  BY <1>2 DEF RowsSound, PendingWasMailed, SignsInOnce
<1>7. LinksApart /\ LiveIsNewest
  BY <1>5 DEF LinksApart, LiveIsNewest
<1>8. RewardedForCompleting
  BY <1>2, <1>5 DEF RewardedForCompleting, Kinds
<1> QED
  BY <1>1, <1>3, <1>4, <1>6, <1>7, <1>8 DEF LinksInv

\* Every step keeps the invariant.
LEMMA NextInv == LinksInv /\ [Next]_vars => LinksInv'
<1> SUFFICES ASSUME LinksInv, [Next]_vars PROVE LinksInv'
  OBVIOUS
<1>1. ASSUME NEW w \in Workers, Issue(w) \/ Redeem(w) \/ Refuse(w) \/ Abort(w)
      PROVE  LinksInv'
  BY <1>1, WorkerKeeps DEF WorkerStep
<1>2. ASSUME NEW e \in Emails,
             StaffWrites(e, "active") \/ StaffWrites(e, "suspended")
      PROVE  LinksInv'
  BY <1>2, StaffKeeps
<1>3. CASE Tick \/ UNCHANGED vars
  BY <1>3, TimeKeeps
<1> QED
  BY <1>1, <1>2, <1>3 DEF Next

\* Every reachable state of registration and of the magic links keeps the
\* invariant: rows have their types, workers hold rows apart, and what they
\* tested under a lock is still so when they write.
THEOREM AccountsInvariant == Spec => []LinksInv
  BY InitInv, NextInv, PTL DEF Spec

\* Accounts, links and requests have their types; the NIF stays unique, and no
\* link is stored for an account that does not exist, though start looks both
\* up before anything is locked.
THEOREM AccountsTypes == Spec => []TypeOK
<1>1. LinksInv => TypeOK
  BY DEF LinksInv
<1> QED
  BY <1>1, AccountsInvariant, PTL

\* The link of an account that works is the newest one stored for it, in
\* whatever order the requests that issued them ran.
THEOREM NewestLinkWorks == Spec => []LiveIsNewest
<1>1. LinksInv => LiveIsNewest
  BY DEF LinksInv
<1> QED
  BY <1>1, AccountsInvariant, PTL

\* Two links of a kind that one account got are more than the cooldown apart,
\* however many asked at once.
THEOREM CooldownKept == Spec => []LinksApart
<1>1. LinksInv => LinksApart
  BY DEF LinksInv
<1> QED
  BY <1>1, AccountsInvariant, PTL

\* No account waits for an activation that was never mailed.
THEOREM PendingMailed == Spec => []PendingWasMailed
<1>1. LinksInv => PendingWasMailed
  BY DEF LinksInv
<1> QED
  BY <1>1, AccountsInvariant, PTL

\* An account has the points of registration, and a password that was chosen
\* through the mail, exactly when one of its activations was used.
THEOREM RewardedOnce == Spec => []RewardedForCompleting
<1>1. LinksInv => RewardedForCompleting
  BY DEF LinksInv
<1> QED
  BY <1>1, AccountsInvariant, PTL

\* No two browsers are signed in with one link.
THEOREM OneSignIn == Spec => []SignsInOnce
<1>1. LinksInv => SignsInOnce
  BY DEF LinksInv
<1> QED
  BY <1>1, AccountsInvariant, PTL

\* What a link is redeemed for is tested under the locks of the link and of its
\* account, and is still so when the link is marked as used.
THEOREM OnlyRightlyRedeemed == Spec => RedeemedRightly
<1>1. ASSUME LinksInv, [Next]_vars, NEW l \in Links,
             link'[l].state = "used", link[l].state # "used"
      PROVE  /\ link[l].state = "live"
             /\ \E w \in Workers : /\ req[w] # None
                                   /\ req[w].link = l
                                   /\ req[w].now < link[l].expires
             /\ status[link[l].owner] = IF link[l].kind = "registration"
                                        THEN "pending" ELSE "active"
  <2>1. PICK w \in Workers : WorkerStep(w)
    BY <1>1 DEF Next, WorkerStep, StaffWrites, Tick, vars
  <2>2. pc[w] = "redeeming" /\ l = req[w].link /\ link[l].state = "live"
    BY <1>1, <2>1, UsedOnce
  <2>3. /\ Redeemable(w)
        /\ SessionTyped(w)
        /\ req[w] # None
        /\ req[w].now \in Nat
        /\ link[l].expires \in Nat
    BY <1>1, <2>2, RowType DEF LinksInv, StillSo, TypeOK, LinkRow, Request
  <2>4. req[w].now < link[l].expires
    BY <2>2, <2>3 DEF Redeemable
  <2>5. status[link[l].owner] = IF link[l].kind = "registration"
                                THEN "pending" ELSE "active"
    BY <2>2, <2>3 DEF Redeemable, SessionTyped, Kind, Redeeming
  <2> QED
    BY <2>2, <2>3, <2>4, <2>5
<1>2. LinksInv /\ [Next]_vars =>
        [\A l \in Links :
           link'[l].state = "used" /\ link[l].state # "used" =>
             /\ link[l].state = "live"
             /\ \E w \in Workers : /\ req[w] # None
                                   /\ req[w].link = l
                                   /\ req[w].now < link[l].expires
             /\ status[link[l].owner] = IF link[l].kind = "registration"
                                        THEN "pending" ELSE "active"]_vars
  BY <1>1
<1> QED
  BY <1>2, AccountsInvariant, PTL DEF Spec, RedeemedRightly

\* Two workers wait for each other only where one, with the live link in hand,
\* wants the account, and the other, with the account, wants its live links.
\* A second activation has no other live link to wait for: there is one.
THEOREM RenewalCrosses == Spec => []CrossedOnlyByRenewal
<1>1. ASSUME LinksInv, NEW w \in Workers, NEW r \in Workers, w # r,
             \E l \in NextLinks(r) : HoldsLink(w, l)
      PROVE  \/ /\ pc[w] = "holding" /\ pc[r] = "issuing"
                /\ link[req[w].link].state = "live"
             \/ /\ pc[w] \in {"sent", "redeeming", "holding"}
                /\ pc[r] = "asked"
  <2>0. /\ SessionTyped(w) /\ SessionTyped(r) /\ StillSo(r) /\ Apart(w, r)
        /\ TypeOK /\ LiveIsNewest
    BY <1>1 DEF LinksInv
  <2>1. PICK l \in Links : l \in NextLinks(r) /\ HoldsLink(w, l)
    BY <1>1 DEF NextLinks
  <2>2. CASE pc[r] = "asked"
    BY <2>1, <2>2 DEF HoldsLink
  <2>3. CASE pc[r] \in {"issuing", "redeeming"}
    <3>1. /\ link[l].state = "live"
          /\ link[l].owner = req[r].email
          /\ req[r].email \in Emails
          /\ HoldsAccount(r, req[r].email)
      BY <2>0, <2>1, <2>3, RowType
         DEF NextLinks, LiveLinks, Stored, HoldsAccount, LinkRow
    <3>2. pc[w] = "holding" /\ req[w].link = l
      BY <2>0, <2>1, <3>1
         DEF HoldsLink, HoldsAccount, LiveLinks, Stored, Apart, SessionTyped
    <3>3. pc[r] # "redeeming"
      <4>1. SUFFICES ASSUME pc[r] = "redeeming" PROVE FALSE
        OBVIOUS
      <4> DEFINE m == req[r].link
      <4>2. /\ req[r].op = "complete"
            /\ l \in LiveLinks(req[r].email, "registration")
            /\ l # m
        BY <2>1, <4>1 DEF NextLinks
      <4>3. m \in LiveLinks(req[r].email, "registration")
        BY <2>0, <4>1, <4>2
           DEF SessionTyped, StillSo, Redeemable, LiveLinks, Stored, Kind
      <4>4. link[m].created < link[l].created /\ link[l].created < link[m].created
        BY <2>0, <3>1, <4>2, <4>3 DEF LiveIsNewest, LiveLinks, Kinds
      <4>5. link[l].created \in Nat /\ link[m].created \in Nat
        BY <2>0, <4>2, <4>3, RowType DEF LiveLinks, Stored, LinkRow
      <4> QED
        BY <4>4, <4>5
    <3> QED
      BY <2>3, <3>1, <3>2, <3>3
  <2> QED
    BY <2>1, <2>2, <2>3 DEF NextLinks
<1>2. ASSUME LinksInv, NEW w \in Workers, NEW r \in Workers,
             NeedsAccount(w) /\ HoldsAccount(r, req[w].email)
      PROVE  /\ pc[w] \in {"holding", "asked"}
             /\ pc[r] \in {"issuing", "sent", "redeeming"}
  BY <1>2 DEF NeedsAccount, HoldsAccount
<1>3. LinksInv => CrossedOnlyByRenewal
  BY <1>1, <1>2 DEF CrossedOnlyByRenewal, Waits
<1> QED
  BY <1>3, AccountsInvariant, PTL
=============================================================================
