-------------------------------- MODULE Site --------------------------------
(***************************************************************************)
(* The accounts of the site (web/accounts.py, web/auth.py), the links its  *)
(* mails carry (alerts/tokens.py, web/app.py), the list of recipients a    *)
(* digest run works through (alerts/service.py) and the push subscriptions *)
(* of the browsers (alerts/push.py, web/push_routes.py).                   *)
(*                                                                         *)
(*   users     the users rows, by phone                                    *)
(*   profile   the business_description of each                            *)
(*   inbox     the links mailed so far; they never expire                  *)
(*   visited   the login links somebody visited: an observation            *)
(*   session   whom the cookie of each browser signs in                    *)
(*   verdict   the feedback rows, for the one tender of the digests        *)
(*   chosen    the verdict each person posted last: an observation         *)
(*   run       the recipients the digest run has still to do, with the     *)
(*             address read for each                                       *)
(*   late      digests and pushes sent since the user unsubscribed: an     *)
(*             observation                                                 *)
(*   subs      the push_subscriptions rows, by browser: its endpoint       *)
(*   gone      endpoints the push service no longer knows                  *)
(*   ringing   users the push run has still to do; Off when there is none  *)
(*   targets   the subscriptions read for the user it is at                *)
(*   pending   the rows it has updated and not committed                   *)
(*   failures  sends of a push that failed, for the bound                  *)
(***************************************************************************)
EXTENDS Naturals, FiniteSets

CONSTANTS
  Phones,        \* the phone is the identity of an account
  Addresses,     \* mail addresses
  Browsers,
  Descriptions,  \* what a profile may say, long enough or not
  Adequate,      \* those of MIN_DESCRIPTION_CHARS or more
  MaxFailures,   \* MAX_FAILURES in a row retire a subscription
  FailureBound,  \* bound on failed sends
  None, Off

User     == [email : Addresses, verified : BOOLEAN, unsubscribed : BOOLEAN]
Link     == [to : Addresses, kind : {"login", "digest"}, user : Phones]
Verdicts == {"up", "down"}
Row      == [user : Phones, failures : 0 .. MaxFailures, retired : BOOLEAN,
             streak : 0 .. FailureBound]  \* streak: failures in a row, observed

ASSUME SiteAssumption ==
  /\ Adequate \subseteq Descriptions /\ Adequate # {}
  /\ IsFiniteSet(Browsers)
  /\ MaxFailures \in Nat \ {0}
  /\ FailureBound \in Nat
  /\ None \notin Phones \cup Verdicts \cup Descriptions
  /\ None \notin User \cup Row
  /\ \A S \in SUBSET Phones : Off # S

VARIABLES users, profile, inbox, visited, session, verdict, chosen, run, late,
          subs, gone, ringing, targets, pending, failures

account  == <<users, profile, visited, session>>
votes    == <<verdict, chosen>>
pushRun  == <<ringing, targets, pending>>
push     == <<subs, gone, pushRun, failures>>
siteVars == <<account, inbox, votes, run, late, push>>

NoRows   == [b \in {} |-> None]
NoOne    == [p \in {} |-> None]
Never    == [mail |-> 0, push |-> 0]
Accounts == {p \in Phones : users[p] # None}

Init ==
  /\ users = [p \in Phones |-> None]
  /\ profile = [p \in Phones |-> None]
  /\ inbox = {}
  /\ visited = {}
  /\ session = [b \in Browsers |-> None]
  /\ verdict = [p \in Phones |-> None]
  /\ chosen = [p \in Phones |-> None]
  /\ run = NoOne
  /\ late = [p \in Phones |-> Never]
  /\ subs = [b \in Browsers |-> None]
  /\ gone = {}
  /\ ringing = Off
  /\ targets = NoRows
  /\ pending = NoRows
  /\ failures = 0

-----------------------------------------------------------------------------
(* Signing up, in and out; the profile. *)

\* Mutant of SignedUp: the row of a new account, whether there is one or not.
SignedUpAfresh(p, a) == [email |-> a, verified |-> FALSE, unsubscribed |-> FALSE]

\* INSERT ... ON CONFLICT (phone): an existing account gets the address and
\* keeps everything else.
SignedUp(p, a) ==
  IF p \in Accounts THEN [users[p] EXCEPT !.email = a]
  ELSE [email |-> a, verified |-> FALSE, unsubscribed |-> FALSE]

\* A login mail to the address of the account; a failure is logged only.
LoginMail(a, p) ==
  \/ inbox' = inbox \cup {[to |-> a, kind |-> "login", user |-> p]}
  \/ UNCHANGED inbox

\* A shorter description is refused.
Accepted(text) == text \in Adequate

\* signup_submit: account and profile are committed, then the mail is sent.
Signup(p, a, text) ==
  /\ Accepted(text)
  /\ users' = [users EXCEPT ![p] = SignedUp(p, a)]
  /\ profile' = [profile EXCEPT ![p] = text]
  /\ LoginMail(a, p)
  /\ UNCHANGED <<visited, session, votes, run, late, push>>

\* signin_submit: any one of the accounts with the address gets a link.
Signin(a) ==
  /\ \E p \in Accounts : users[p].email = a /\ LoginMail(a, p)
  /\ UNCHANGED <<account, votes, run, late, push>>

\* auth_link, by whoever visits it: the account is verified and subscribed.
Verify(l) ==
  /\ l.kind = "login"
  /\ users' = [users EXCEPT ![l.user].verified = TRUE, ![l.user].unsubscribed = FALSE]
  /\ visited' = visited \cup {l}
  /\ late' = [late EXCEPT ![l.user] = Never]

AuthLink(l, b) ==
  /\ Verify(l)
  /\ session' = [session EXCEPT ![b] = l.user]
  /\ UNCHANGED <<profile, inbox, votes, run, push>>

\* current_user: the cookie names an account.  Who has none changes nothing.
SignedIn(b) == session[b] # None

Signout(b) ==
  /\ SignedIn(b)
  /\ session' = [session EXCEPT ![b] = None]
  /\ UNCHANGED <<users, profile, visited, inbox, votes, run, late, push>>

\* profile_save
ProfileSave(b, text) ==
  /\ SignedIn(b)
  /\ Accepted(text)
  /\ profile' = [profile EXCEPT ![session[b]] = text]
  /\ UNCHANGED <<users, visited, session, inbox, votes, run, late, push>>

-----------------------------------------------------------------------------
(* The links of a digest. *)

\* feedback_record: one verdict a user and tender, the last one.
FeedbackRecord(l, v) ==
  /\ l.kind = "digest"
  /\ verdict' = [verdict EXCEPT ![l.user] = v]
  /\ chosen' = [chosen EXCEPT ![l.user] = v]
  /\ UNCHANGED <<account, inbox, run, late, push>>

\* unsubscribe, by GET or POST.
Unsubscribe(l) ==
  /\ l.kind = "digest"
  /\ users' = [users EXCEPT ![l.user].unsubscribed = TRUE]
  /\ UNCHANGED <<profile, visited, session, inbox, votes, run, late, push>>

\* Mutant of FeedbackConfirm: the GET records the verdict.
ConfirmRecords(l, v) == verdict' = [verdict EXCEPT ![l.user] = v] /\ UNCHANGED chosen

\* feedback_confirm: a GET records nothing.
FeedbackConfirm(l, v) == UNCHANGED votes

\* A mail scanner visits a URL of a message.
Scan(l) ==
  \/ /\ Verify(l)
     /\ UNCHANGED <<profile, session, inbox, votes, run, push>>
  \/ Unsubscribe(l)
  \/ /\ l.kind = "digest"
     /\ \E v \in Verdicts : FeedbackConfirm(l, v)
     /\ UNCHANGED <<account, inbox, run, late, push>>

-----------------------------------------------------------------------------
(* The digest run. *)

\* Mutant of Recipients: unsubscribed users are not left out.
RecipientsAll == {p \in Accounts : users[p].verified}

\* digest_recipients.
Recipients == {p \in Accounts : users[p].verified /\ ~users[p].unsubscribed}

\* send_all reads them all, once.
DigestStart ==
  /\ run = NoOne
  /\ Recipients # {}
  /\ run' = [p \in Recipients |-> users[p].email]
  /\ UNCHANGED <<account, inbox, votes, late, push>>

\* A message that comes after the user had unsubscribed.
Late(p, channel) ==
  late' = IF users[p].unsubscribed THEN [late EXCEPT ![p][channel] = @ + 1] ELSE late

Done(p) == run' = [u \in DOMAIN run \ {p} |-> run[u]]

\* send_digest of the next one, to the address read at the start.
DigestSend(p) ==
  /\ p \in DOMAIN run
  /\ inbox' = inbox \cup {[to |-> run[p], kind |-> "digest", user |-> p]}
  /\ Late(p, "mail")
  /\ Done(p)
  /\ UNCHANGED <<account, votes, push>>

\* There is nothing to send to this one, or the mail is refused.
DigestSkip(p) ==
  /\ p \in DOMAIN run
  /\ Done(p)
  /\ UNCHANGED <<account, inbox, votes, late, push>>

DigestCrash ==
  /\ run # NoOne
  /\ run' = NoOne
  /\ UNCHANGED <<account, inbox, votes, late, push>>

-----------------------------------------------------------------------------
(* Push subscriptions.  The push run is one transaction: a row it updated  *)
(* is locked until it commits.                                             *)

Unlocked(b) == b \notin DOMAIN pending

\* save_subscription: the row is made, or revived, and is the signed-in
\* user's from now on.
Subscribe(b) ==
  /\ SignedIn(b)
  /\ b \notin gone
  /\ Unlocked(b)
  /\ subs' = [subs EXCEPT ![b] = [user |-> session[b], failures |-> 0,
                                  retired |-> FALSE, streak |-> 0]]
  /\ UNCHANGED <<account, inbox, votes, run, late, gone, pushRun, failures>>

\* delete_subscription
PushUnsubscribe(b) ==
  /\ SignedIn(b)
  /\ subs[b] # None
  /\ Unlocked(b)
  /\ subs' = [subs EXCEPT ![b] = None]
  /\ UNCHANGED <<account, inbox, votes, run, late, gone, pushRun, failures>>

\* The browser drops its subscription: the push service answers 410.
Gone(b) ==
  /\ subs[b] # None
  /\ b \notin gone
  /\ gone' = gone \cup {b}
  /\ UNCHANGED <<account, inbox, votes, run, late, subs, pushRun, failures>>

\* push_urgent_matches: the users with an urgent match.
PushStart ==
  /\ ringing = Off
  /\ \E some \in SUBSET {p \in Accounts : ~users[p].unsubscribed} \ {{}} : ringing' = some
  /\ UNCHANGED <<account, inbox, votes, run, late, subs, gone, targets, pending, failures>>

\* The row as the push run sees it.
Current(b) == IF b \in DOMAIN pending THEN pending[b] ELSE subs[b]

\* active_subscriptions of the next user.
PushUser(p) ==
  /\ ringing # Off /\ p \in ringing
  /\ targets = NoRows
  /\ ringing' = ringing \ {p}
  /\ targets' = [b \in {b \in Browsers : /\ Current(b) # None
                                         /\ Current(b).user = p
                                         /\ ~Current(b).retired} |-> Current(b)]
  /\ UNCHANGED <<account, inbox, votes, run, late, subs, gone, pending, failures>>

Sent(b) == targets' = [c \in DOMAIN targets \ {b} |-> targets[c]]

\* UPDATE ... WHERE id: nothing when the row was deleted.
Update(b, row) ==
  pending' = IF subs[b] = None THEN pending
             ELSE [c \in DOMAIN pending \cup {b} |-> IF c = b THEN row ELSE pending[c]]

PushDelivered(b) ==
  /\ b \in DOMAIN targets
  /\ b \notin gone
  /\ Late(targets[b].user, "push")
  /\ Update(b, [Current(b) EXCEPT !.failures = 0, !.streak = 0])
  /\ Sent(b)
  /\ UNCHANGED <<account, inbox, votes, run, subs, gone, ringing, failures>>

\* 404 or 410: the subscription is retired.
PushGone(b) ==
  /\ b \in DOMAIN targets
  /\ b \in gone
  /\ Update(b, [Current(b) EXCEPT !.retired = TRUE])
  /\ Sent(b)
  /\ UNCHANGED <<account, inbox, votes, run, late, subs, gone, ringing, failures>>

\* Mutant of Failed: counted from the row as it was selected.
FailedOfSelected(b) ==
  LET count == targets[b].failures + 1
  IN  [Current(b) EXCEPT !.failures = count, !.streak = @ + 1,
                         !.retired = @ \/ count >= MaxFailures]

\* failure_count + 1 of the row as it is, which retires it at MAX_FAILURES.
Failed(b) ==
  LET count == Current(b).failures + 1
  IN  [Current(b) EXCEPT !.failures = count, !.streak = @ + 1,
                         !.retired = @ \/ count >= MaxFailures]

\* Any other error.
PushFailed(b) ==
  /\ b \in DOMAIN targets
  /\ failures < FailureBound
  /\ failures' = failures + 1
  /\ Update(b, Failed(b))
  /\ Sent(b)
  /\ UNCHANGED <<account, inbox, votes, run, late, subs, gone, ringing>>

\* cmd_push commits after the last user.
PushCommit ==
  /\ ringing = {}
  /\ targets = NoRows
  /\ subs' = [b \in Browsers |-> Current(b)]
  /\ pending' = NoRows
  /\ ringing' = Off
  /\ UNCHANGED <<account, inbox, votes, run, late, gone, targets, failures>>

PushCrash ==
  /\ ringing # Off
  /\ ringing' = Off
  /\ targets' = NoRows
  /\ pending' = NoRows
  /\ UNCHANGED <<account, inbox, votes, run, late, subs, gone, failures>>

-----------------------------------------------------------------------------
Accounting ==
  \/ \E p \in Phones, a \in Addresses, text \in Descriptions : Signup(p, a, text)
  \/ \E a \in Addresses : Signin(a)
  \/ \E b \in Browsers : Signout(b) \/ \E text \in Descriptions : ProfileSave(b, text)

Following ==
  \E l \in inbox :
    \/ \E b \in Browsers : AuthLink(l, b)
    \/ \E v \in Verdicts : FeedbackRecord(l, v)
    \/ Unsubscribe(l)
    \/ Scan(l)

Digesting ==
  \/ DigestStart
  \/ \E p \in Phones : DigestSend(p) \/ DigestSkip(p)
  \/ DigestCrash

Pushing ==
  \/ \E b \in Browsers :
       \/ Subscribe(b) \/ PushUnsubscribe(b) \/ Gone(b)
       \/ PushDelivered(b) \/ PushGone(b) \/ PushFailed(b)
  \/ PushStart
  \/ \E p \in Phones : PushUser(p)
  \/ PushCommit
  \/ PushCrash

Next == Accounting \/ Following \/ Digesting \/ Pushing

Spec == Init /\ [][Next]_siteVars

-----------------------------------------------------------------------------
(***************************************************************************)
(* The types, and that an account always has a profile a match can be      *)
(* made of.                                                                *)
(***************************************************************************)
SiteTypeOK ==
  /\ users \in [Phones -> User \cup {None}]
  /\ \A p \in Phones : IF p \in Accounts THEN profile[p] \in Adequate
                       ELSE profile[p] = None
  /\ visited \subseteq inbox /\ inbox \subseteq Link
  /\ session \in [Browsers -> Phones \cup {None}]
  /\ verdict \in [Phones -> Verdicts \cup {None}]
  /\ DOMAIN run \subseteq Accounts /\ \A p \in DOMAIN run : run[p] \in Addresses
  /\ subs \in [Browsers -> Row \cup {None}]
  /\ gone \subseteq Browsers
  /\ ringing = Off \/ ringing \subseteq Accounts
  /\ \A b \in DOMAIN targets : targets[b] \in Row
  /\ \A b \in DOMAIN pending : subs[b] # None /\ pending[b] \in Row
  /\ failures \in 0 .. FailureBound

(***************************************************************************)
(* app.feedback_confirm: mail scanners follow links, and must not vote.    *)
(* The verdict on record is the one a person posted last, whatever was     *)
(* visited in between.                                                     *)
(***************************************************************************)
VerdictIsAPersons == verdict = chosen

(***************************************************************************)
(* auth.py: without a password the links are all there is.  An account is  *)
(* verified when a login link of it was visited, and stays so, whatever    *)
(* sign-ups follow; whoever is signed in, has a push subscription, a       *)
(* digest or a verdict is verified.                                        *)
(***************************************************************************)
OnlyVerifiedActs ==
  /\ \A p \in Accounts : users[p].verified <=> \E l \in visited : l.user = p
  /\ \A b \in Browsers : session[b] # None => users[session[b]].verified
  /\ \A b \in Browsers : subs[b] # None => users[subs[b].user].verified
  /\ \A p \in Phones : verdict[p] # None => users[p].verified
  /\ \A l \in inbox : l.kind = "digest" => users[l.user].verified

(***************************************************************************)
(* send_all and push_urgent_matches read their users once and then send to *)
(* them one by one.  Whoever has unsubscribed may still get what was under *)
(* way, one message of each channel, and nothing more until a login link   *)
(* of the account is visited.                                              *)
(***************************************************************************)
SilentAfterUnsubscribing ==
  \A p \in Phones : late[p].mail <= 1 /\ late[p].push <= Cardinality(Browsers)

(***************************************************************************)
(* push_to_user: a subscription is retired when its endpoint is gone, or   *)
(* after MAX_FAILURES failures in a row since it last worked or was made;  *)
(* and it is retired then.                                                 *)
(***************************************************************************)
RetiredForCause ==
  \A b \in Browsers : subs[b] # None =>
    /\ subs[b].retired => b \in gone \/ subs[b].streak >= MaxFailures
    /\ subs[b].streak >= MaxFailures => subs[b].retired

(***************************************************************************)
(* auth.py: "an address that cannot receive mail is a dead account".  A    *)
(* digest goes to an address from which a link of the account was visited. *)
(* (A second sign-up changes the address and keeps verified_at.)           *)
(***************************************************************************)
DigestToConfirmedAddress ==
  [][\A p \in Phones : DigestSend(p) =>
       [to |-> run[p], kind |-> "login", user |-> p] \in visited]_siteVars
=============================================================================
