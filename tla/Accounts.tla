------------------------------ MODULE Accounts ------------------------------
(***************************************************************************)
(* Accounts: public registration (accounts/services/registration.py) and   *)
(* magic links (accounts/services/magic_link.py), with the views that call *)
(* them.  Both issue a link by mail and redeem it later, once; they differ *)
(* in where the mail stands.  An activation is mailed inside its           *)
(* transaction, so a mail that fails takes everything back; a magic link   *)
(* is mailed after COMMIT and deleted if the mail fails.                   *)
(*                                                                         *)
(* Issuing locks the account and then its links; redeeming locks the link  *)
(* and then its account.  A worker serves one request:                     *)
(*                                                                         *)
(*   pc[w]        what w has done                                          *)
(*   "idle"       nothing                                                  *)
(*   "asked"      has read the clock, and nothing else                     *)
(*   "inserting"  has found no account with the e-mail or the NIF          *)
(*   "issuing"    holds the account, or has inserted it, and may issue     *)
(*   "sent"       has inserted the activation and sent it; not committed   *)
(*   "mailing"    has committed the magic link and is about to send it     *)
(*   "holding"    holds the link                                           *)
(*   "redeeming"  holds the link and its account and has tested both       *)
(*   "login"      has committed and is about to sign its browser in        *)
(*                                                                         *)
(* Time is counted in moments.  An e-mail stands for its account.          *)
(***************************************************************************)
EXTENDS Naturals, FiniteSets

CONSTANTS Emails, Nifs,
          Links,       \* rows that the two tables of tokens may come to hold
          Workers,     \* web processes serving requests
          Cooldown,    \* ..._COOLDOWN_SECONDS, in moments
          Lifetime,    \* ..._EXPIRATION_MINUTES, in moments
          LastMoment,  \* bound on time
          None

VARIABLES status,    \* of the account: account_status and is_active
          nif,
          password,  \* the activation through which the first one was chosen
          awarded,   \* accounts with a movement account-registration:<pk>
          link,      \* the rows of the two tables
          mailed,    \* links that have been sent
          signedBy,  \* links that have signed a browser in
          clock, pc, req

accountVars == <<status, nif, password, awarded>>
vars == <<accountVars, link, mailed, signedBy, clock, pc, req>>

Issuing   == {"start", "resend", "request"}
Redeeming == {"complete", "consume"}
Kinds     == {"registration", "magic"}

Request == [op    : Issuing \cup Redeeming,
            email : Emails \cup {None},
            nif   : Nifs \cup {None},
            link  : Links \cup {None},
            now   : Nat]

ASSUME AccountsAssumption ==
  /\ Cooldown \in Nat
  /\ Lifetime \in Nat
  /\ LastMoment \in Nat
  /\ None \notin Emails \cup Nifs \cup Links \cup Request

\* A row is free until somebody inserts it, a draft until COMMIT and gone when
\* it was rolled back or deleted; a live one is neither used nor invalidated.
LinkRow == [state   : {"draft", "live", "used", "invalid", "gone"},
            kind    : Kinds,
            owner   : Emails,
            created : Nat,
            expires : Nat]
FreeLink == [state |-> "free"]

TypeOK ==
  /\ status \in [Emails -> {"none", "pending", "active", "suspended"}]
  /\ nif \in [Emails -> Nifs \cup {None}]
  /\ password \in [Emails -> Links \cup {None}]
  /\ awarded \subseteq Emails
  /\ link \in [Links -> LinkRow \cup {FreeLink}]
  /\ mailed \subseteq Links
  /\ signedBy \subseteq Links
  /\ clock \in 0..LastMoment
  /\ pc \in [Workers -> {"idle", "asked", "inserting", "issuing", "sent",
                         "mailing", "holding", "redeeming", "login"}]
  /\ req \in [Workers -> Request \cup {None}]
  /\ \A w \in Workers : req[w] = None <=> pc[w] = "idle"
  \* the unique constraint on the NIF, and the foreign key to the account
  /\ \A e, f \in Emails : nif[e] = nif[f] /\ nif[e] # None => e = f
  /\ \A l \in Links : link[l].state \in {"live", "used", "invalid"} =>
       status[link[l].owner] # "none"

-----------------------------------------------------------------------------
(* Links.                                                                  *)

Kind(op) == IF op \in {"request", "consume"} THEN "magic" ELSE "registration"

\* Committed rows of one account
Stored(e, kind) ==
  {l \in Links : /\ link[l].state \in {"live", "used", "invalid"}
                 /\ link[l].owner = e
                 /\ link[l].kind = kind}

LiveLinks(e, kind) == {l \in Stored(e, kind) : link[l].state = "live"}

\* Variant: only links that still work count.
RecentLive(e, kind, now) ==
  \E l \in LiveLinks(e, kind) : link[l].created + Cooldown >= now

\* The cooldown: created_at >= now - cooldown
Recent(e, kind, now) ==
  \E l \in Stored(e, kind) : link[l].created + Cooldown >= now

\* Variant: the earlier links stay as they are.
StoreOnly(l, row) == link' = [link EXCEPT ![l] = row]

\* One row is written; the account's other live links are invalidated.
Supersede(l, row) ==
  link' = [m \in Links |-> IF m = l THEN row
                           ELSE IF m \in LiveLinks(row.owner, row.kind)
                                THEN [link[m] EXCEPT !.state = "invalid"]
                                ELSE link[m]]

NewLink(w, state) == [state   |-> state,
                      kind    |-> Kind(req[w].op),
                      owner   |-> req[w].email,
                      created |-> clock,
                      expires |-> req[w].now + Lifetime]

-----------------------------------------------------------------------------
(* Row locks.  An account that was inserted and not committed is nobody    *)
(* else's to see or to lock; it makes others who insert wait.              *)

HoldsAccount(w, e) ==
  /\ pc[w] \in {"issuing", "sent", "redeeming"}
  /\ req[w].email = e

\* UPDATE locked the links that are being superseded.
HoldsLink(w, l) ==
  \/ pc[w] \in {"holding", "redeeming"} /\ req[w].link = l
  \/ pc[w] = "sent" /\ l \in LiveLinks(req[w].email, "registration")

AccountFree(w, e) == \A r \in Workers \ {w} : ~HoldsAccount(r, e)
LinkFree(w, l)    == \A r \in Workers \ {w} : ~HoldsLink(r, l)

\* Nobody is inserting what a unique constraint would keep apart.
NoRival(w) ==
  \A r \in Workers \ {w} :
    /\ pc[r] \in {"issuing", "sent"}
    /\ status[req[r].email] = "none"
    => req[r].email # req[w].email /\ req[r].nif # req[w].nif

NifTaken(n) == \E e \in Emails : nif[e] = n

\* The links that the next step of w locks
NextLinks(w) ==
  {l \in Links :
     \/ pc[w] = "asked" /\ req[w].op \in Redeeming /\ l = req[w].link
     \/ pc[w] = "issuing" /\ l \in LiveLinks(req[w].email, Kind(req[w].op))
     \/ /\ pc[w] = "redeeming"
        /\ req[w].op = "complete"
        /\ l \in LiveLinks(req[w].email, "registration") \ {req[w].link}}

\* The next step of w locks the account.
NeedsAccount(w) ==
  \/ pc[w] = "holding"
  \/ /\ pc[w] = "asked"
     /\ \/ req[w].op \in {"start", "resend"} /\ status[req[w].email] # "none"
        \/ req[w].op = "request" /\ status[req[w].email] = "active"

-----------------------------------------------------------------------------
(* Requests.                                                               *)

Init ==
  /\ status \in [Emails -> {"none", "active"}]
  /\ nif = [e \in Emails |-> None]
  /\ password = [e \in Emails |-> None]
  /\ awarded = {}
  /\ link = [l \in Links |-> FreeLink]
  /\ mailed = {}
  /\ signedBy = {}
  /\ clock = 0
  /\ pc = [w \in Workers |-> "idle"]
  /\ req = [w \in Workers |-> None]

Goto(w, step) ==
  /\ pc' = [pc EXCEPT ![w] = step]
  /\ UNCHANGED req

End(w) ==
  /\ pc' = [pc EXCEPT ![w] = "idle"]
  /\ req' = [req EXCEPT ![w] = None]

Begin(w, op, e, n, l) ==
  /\ pc[w] = "idle"
  /\ pc' = [pc EXCEPT ![w] = "asked"]
  /\ req' = [req EXCEPT ![w] = [op |-> op, email |-> e, nif |-> n, link |-> l,
                                now |-> clock]]
  /\ UNCHANGED <<accountVars, link, mailed, signedBy, clock>>

\* RegisterView, with a form and a Turnstile answer that are valid
AskStart(w) == \E e \in Emails, n \in Nifs : Begin(w, "start", e, n, None)

\* RegistrationResendView, MagicLinkRequestView
AskAgain(w) == \E e \in Emails, op \in {"resend", "request"} :
                 Begin(w, op, e, None, None)

\* RegistrationService.pending
Pending(l) == /\ link[l].state = "live"
              /\ link[l].kind = "registration"
              /\ link[l].expires > clock
              /\ status[link[l].owner] = "pending"

\* RegistrationActivateView.post, with passwords that match
OpenActivation(w) ==
  \E l \in mailed : Pending(l) /\ Begin(w, "complete", None, None, l)

\* MagicLinkConsumeView
OpenLink(w) ==
  \E l \in mailed : link[l].kind = "magic" /\ Begin(w, "consume", None, None, l)

\* start finds no account with the e-mail and none with the NIF.
LookUp(w) ==
  /\ pc[w] = "asked"
  /\ req[w].op = "start"
  /\ status[req[w].email] = "none"
  /\ ~NifTaken(req[w].nif)
  /\ Goto(w, "inserting")
  /\ UNCHANGED <<accountVars, link, mailed, signedBy, clock>>

\* Variant: only the e-mail is unique.
InsertByEmail(w) ==
  /\ pc[w] = "inserting"
  /\ status[req[w].email] = "none"
  /\ \A r \in Workers \ {w} :
       pc[r] \in {"issuing", "sent"} => req[r].email # req[w].email
  /\ Goto(w, "issuing")
  /\ UNCHANGED <<accountVars, link, mailed, signedBy, clock>>

\* The unique constraints let the new account in.
InsertAccount(w) ==
  /\ pc[w] = "inserting"
  /\ NoRival(w)
  /\ status[req[w].email] = "none"
  /\ ~NifTaken(req[w].nif)
  /\ Goto(w, "issuing")
  /\ UNCHANGED <<accountVars, link, mailed, signedBy, clock>>

\* The account may have a link: is_active and ACTIVE, or
\* _is_pending_public_user.
MayAsk(w) == status[req[w].email] =
               IF req[w].op = "request" THEN "active" ELSE "pending"

\* The account that asks is locked, and no link was issued to it lately.
LockAccount(w) ==
  /\ pc[w] = "asked"
  /\ NeedsAccount(w)
  /\ AccountFree(w, req[w].email)
  /\ MayAsk(w)
  /\ ~Recent(req[w].email, Kind(req[w].op), req[w].now)
  /\ Goto(w, "issuing")
  /\ UNCHANGED <<accountVars, link, mailed, signedBy, clock>>

\* Variant: what send() returns is not looked at.
SendCarelessly(w) ==
  /\ pc[w] = "issuing"
  /\ req[w].op # "request"
  /\ \A l \in NextLinks(w) : LinkFree(w, l)
  /\ \E l \in Links :
       /\ link[l] = FreeLink
       /\ link' = [link EXCEPT ![l] = NewLink(w, "draft")]
       /\ mailed' \in {mailed, mailed \cup {l}}
       /\ pc' = [pc EXCEPT ![w] = "sent"]
       /\ req' = [req EXCEPT ![w].link = l]
  /\ UNCHANGED <<accountVars, signedBy, clock>>

\* _issue_locked: the earlier links are invalidated, the new one inserted, and
\* the mail accepted for delivery.
SendActivation(w) ==
  /\ pc[w] = "issuing"
  /\ req[w].op # "request"
  /\ \A l \in NextLinks(w) : LinkFree(w, l)
  /\ \E l \in Links :
       /\ link[l] = FreeLink
       /\ link' = [link EXCEPT ![l] = NewLink(w, "draft")]
       /\ mailed' = mailed \cup {l}
       /\ pc' = [pc EXCEPT ![w] = "sent"]
       /\ req' = [req EXCEPT ![w].link = l]
  /\ UNCHANGED <<accountVars, signedBy, clock>>

\* COMMIT of start or resend
CommitActivation(w) ==
  LET e == req[w].email
      l == req[w].link IN
  /\ pc[w] = "sent"
  /\ Supersede(l, [link[l] EXCEPT !.state = "live"])
  /\ status' = [status EXCEPT ![e] = "pending"]
  /\ nif' = IF status[e] = "none" THEN [nif EXCEPT ![e] = req[w].nif] ELSE nif
  /\ End(w)
  /\ UNCHANGED <<password, awarded, mailed, signedBy, clock>>

\* request_link up to COMMIT
StoreLink(w) ==
  /\ pc[w] = "issuing"
  /\ req[w].op = "request"
  /\ \A l \in NextLinks(w) : LinkFree(w, l)
  /\ \E l \in Links :
       /\ link[l] = FreeLink
       /\ Supersede(l, NewLink(w, "live"))
       /\ pc' = [pc EXCEPT ![w] = "mailing"]
       /\ req' = [req EXCEPT ![w].link = l]
  /\ UNCHANGED <<accountVars, mailed, signedBy, clock>>

SendLink(w) ==
  /\ pc[w] = "mailing"
  /\ mailed' = mailed \cup {req[w].link}
  /\ End(w)
  /\ UNCHANGED <<accountVars, link, signedBy, clock>>

\* send() returned 0: the row is deleted.
DropLink(w) ==
  /\ pc[w] = "mailing"
  /\ link' = [link EXCEPT ![req[w].link].state = "gone"]
  /\ End(w)
  /\ UNCHANGED <<accountVars, mailed, signedBy, clock>>

\* The link is found and locked, by complete or by consume.
LockLink(w) ==
  /\ pc[w] = "asked"
  /\ req[w].op \in Redeeming
  /\ link[req[w].link].state \notin {"draft", "gone"}
  /\ LinkFree(w, req[w].link)
  /\ pc' = [pc EXCEPT ![w] = "holding"]
  /\ req' = [req EXCEPT ![w].email = link[req[w].link].owner]
  /\ UNCHANGED <<accountVars, link, mailed, signedBy, clock>>

\* Variant: the account may be in any state.
RedeemableByAnyone(w) ==
  /\ link[req[w].link].state = "live"
  /\ link[req[w].link].expires > req[w].now

\* Variant: used_at is not looked at.
RedeemableTwice(w) ==
  /\ link[req[w].link].state \in {"live", "used"}
  /\ link[req[w].link].expires > req[w].now
  /\ status[req[w].email] =
       IF req[w].op = "complete" THEN "pending" ELSE "active"

\* What complete and consume test under both locks
Redeemable(w) ==
  /\ link[req[w].link].state = "live"
  /\ link[req[w].link].expires > req[w].now
  /\ status[req[w].email] =
       IF req[w].op = "complete" THEN "pending" ELSE "active"

LockOwner(w) ==
  /\ pc[w] = "holding"
  /\ AccountFree(w, req[w].email)
  /\ Redeemable(w)
  /\ Goto(w, "redeeming")
  /\ UNCHANGED <<accountVars, link, mailed, signedBy, clock>>

\* Variant: the link is not marked as used.
CompleteUnmarked(w) ==
  LET e == req[w].email
      l == req[w].link IN
  /\ pc[w] = "redeeming"
  /\ req[w].op = "complete"
  /\ \A m \in NextLinks(w) : LinkFree(w, m)
  /\ status' = [status EXCEPT ![e] = "active"]
  /\ password' = [password EXCEPT ![e] = l]
  /\ awarded' = awarded \cup {e}
  /\ Goto(w, "login")
  /\ UNCHANGED <<nif, link, mailed, signedBy, clock>>

\* The rest of complete: the account is activated with its password, its group
\* and its points; the link is used and any other live one invalidated.
Complete(w) ==
  LET e == req[w].email
      l == req[w].link IN
  /\ pc[w] = "redeeming"
  /\ req[w].op = "complete"
  /\ \A m \in NextLinks(w) : LinkFree(w, m)
  /\ status' = [status EXCEPT ![e] = "active"]
  /\ password' = [password EXCEPT ![e] = l]
  /\ awarded' = awarded \cup {e}
  /\ Supersede(l, [link[l] EXCEPT !.state = "used"])
  /\ Goto(w, "login")
  /\ UNCHANGED <<nif, mailed, signedBy, clock>>

\* The rest of consume
Consume(w) ==
  /\ pc[w] = "redeeming"
  /\ req[w].op = "consume"
  /\ link' = [link EXCEPT ![req[w].link].state = "used"]
  /\ Goto(w, "login")
  /\ UNCHANGED <<accountVars, mailed, signedBy, clock>>

\* login(), after COMMIT
SignIn(w) ==
  /\ pc[w] = "login"
  /\ signedBy' = signedBy \cup {req[w].link}
  /\ End(w)
  /\ UNCHANGED <<accountVars, link, mailed, clock>>

-----------------------------------------------------------------------------
(* Requests that change nothing, failures, and everybody else.             *)

\* What makes a request return early
Refused(w) ==
  \/ /\ pc[w] = "asked"
     /\ req[w].op \in {"start", "resend"}
     /\ status[req[w].email] = "none"
     /\ req[w].op = "resend" \/ NifTaken(req[w].nif)
  \/ /\ pc[w] = "asked"
     /\ req[w].op = "request"
     /\ ~MayAsk(w)
  \/ /\ pc[w] = "asked"
     /\ NeedsAccount(w)
     /\ AccountFree(w, req[w].email)
     /\ ~MayAsk(w) \/ Recent(req[w].email, Kind(req[w].op), req[w].now)
  \/ /\ pc[w] = "inserting"
     /\ NoRival(w)
     /\ status[req[w].email] # "none" \/ NifTaken(req[w].nif)
  \/ /\ pc[w] = "asked"
     /\ req[w].op \in Redeeming
     /\ link[req[w].link].state \in {"draft", "gone"}
  \/ /\ pc[w] = "holding"
     /\ AccountFree(w, req[w].email)
     /\ ~Redeemable(w)

Refuse(w) ==
  /\ Refused(w)
  /\ End(w)
  /\ UNCHANGED <<accountVars, link, mailed, signedBy, clock>>

\* The transaction raises (a mail that fails, a weak password, the victim of a
\* deadlock) or the worker dies: what is not committed is rolled back.
Abort(w) ==
  /\ pc[w] # "idle"
  /\ link' = IF pc[w] = "sent" THEN [link EXCEPT ![req[w].link].state = "gone"]
                               ELSE link
  /\ End(w)
  /\ UNCHANGED <<accountVars, mailed, signedBy, clock>>

\* Adding a member, granting access, reactivating and accepting an invitation
\* (Team) make an account active; deactivating suspends it.
StaffWrites(e, new) ==
  /\ \A w \in Workers : ~HoldsAccount(w, e)
  /\ \/ new = "active" /\ status[e] # "active"
     \/ new = "suspended" /\ status[e] = "active"
  /\ status' = [status EXCEPT ![e] = new]
  /\ UNCHANGED <<nif, password, awarded, link, mailed, signedBy, clock, pc, req>>

Tick ==
  /\ clock < LastMoment
  /\ clock' = clock + 1
  /\ UNCHANGED <<accountVars, link, mailed, signedBy, pc, req>>

Issue(w) ==
  \/ AskStart(w) \/ AskAgain(w)
  \/ LookUp(w) \/ InsertAccount(w) \/ LockAccount(w)
  \/ SendActivation(w) \/ CommitActivation(w)
  \/ StoreLink(w) \/ SendLink(w) \/ DropLink(w)

Redeem(w) ==
  \/ OpenActivation(w) \/ OpenLink(w)
  \/ LockLink(w) \/ LockOwner(w)
  \/ Complete(w) \/ Consume(w) \/ SignIn(w)

Next ==
  \/ \E w \in Workers : Issue(w) \/ Redeem(w) \/ Refuse(w) \/ Abort(w)
  \/ \E e \in Emails : StaffWrites(e, "active") \/ StaffWrites(e, "suspended")
  \/ Tick

Spec == Init /\ [][Next]_vars

-----------------------------------------------------------------------------
(* Properties.                                                             *)

\* The one link of an account that works is the newest that was issued, whatever
\* the order in which requests for links ran (the invalidating UPDATE of
\* _issue_locked and of request_link, which see the rows of the requests that
\* held the account before).
LiveIsNewest ==
  \A e \in Emails, k \in Kinds :
    \A l \in LiveLinks(e, k) : \A m \in Stored(e, k) \ {l} :
      link[m].created < link[l].created

\* Nobody gets two links of a kind within the cooldown, however many ask at
\* once: the clock is read before the account is locked, but later requests
\* find what earlier ones created.
LinksApart ==
  \A e \in Emails, k \in Kinds : \A l, m \in Stored(e, k) :
    link[l].created <= link[m].created /\ l # m =>
      link[l].created + Cooldown < link[m].created

\* An account waits for its activation only if an activation was mailed to it:
\* when the mail fails, start takes the account back with it, and the person
\* may try again.
PendingWasMailed ==
  \A e \in Emails : status[e] = "pending" =>
    Stored(e, "registration") \cap mailed # {}

\* Registration gives its points once and for a password chosen through the
\* mail: an account has them if, and only if, one activation of it was used, and
\* it is the one its first password was chosen through.
RewardedForCompleting ==
  \A e \in Emails :
    LET used == {l \in Stored(e, "registration") : link[l].state = "used"} IN
    /\ used = {password[e]} \ {None}
    /\ e \in awarded <=> used # {}

\* A link signs in one browser: nobody is about to sign in with a link that has
\* already been taken.
SignsInOnce ==
  \A w \in Workers : pc[w] = "login" =>
    /\ req[w].link \notin signedBy
    /\ \A r \in Workers \ {w} : pc[r] = "login" => req[r].link # req[w].link

\* Whoever waits for somebody who waits for him redeems the live link of an
\* account for which a new one is being issued: the two lock orders meet there
\* and nowhere else, and since either may be given up nothing is lost.
Waits(w, r) ==
  \/ NeedsAccount(w) /\ HoldsAccount(r, req[w].email)
  \/ \E l \in NextLinks(w) : HoldsLink(r, l)

CrossedOnlyByRenewal ==
  \A w, r \in Workers : w # r /\ Waits(w, r) /\ Waits(r, w) =>
    \/ pc[w] = "holding" /\ pc[r] = "issuing" /\ link[req[w].link].state = "live"
    \/ pc[r] = "holding" /\ pc[w] = "issuing" /\ link[req[r].link].state = "live"

\* A link is redeemed while it lives, before it expires by the clock of the
\* request, and for an account that is, at that moment, as it must be: whoever
\* suspends the account or has it activated meanwhile comes before or after.
RedeemedRightly ==
  [][\A l \in Links :
       link'[l].state = "used" /\ link[l].state # "used" =>
         /\ link[l].state = "live"
         /\ \E w \in Workers : /\ req[w] # None
                               /\ req[w].link = l
                               /\ req[w].now < link[l].expires
         /\ status[link[l].owner] = IF link[l].kind = "registration"
                                    THEN "pending" ELSE "active"]_vars
=============================================================================
