----------------------------- MODULE Site_proofs -----------------------------
(***************************************************************************)
(* What holds of the accounts, the links, the digests and the push         *)
(* subscriptions for any number of people, addresses and browsers.         *)
(***************************************************************************)
EXTENDS Site, FiniteSetTheorems, TLAPS

(***************************************************************************)
(* Accounts are made by a sign-up and never go away; whatever names a      *)
(* user names an account.                                                  *)
(***************************************************************************)
AccountsInv ==
  /\ users \in [Phones -> User \cup {None}]
  /\ \A p \in Phones : IF p \in Accounts THEN profile[p] \in Adequate
                       ELSE profile[p] = None
  /\ profile \in [Phones -> Descriptions \cup {None}]

NamesInv ==
  /\ visited \subseteq inbox /\ inbox \subseteq Link
  /\ \A l \in inbox : l.user \in Accounts
  /\ session \in [Browsers -> Accounts \cup {None}]
  /\ verdict \in [Phones -> Verdicts \cup {None}]
  /\ DOMAIN run \subseteq Accounts /\ \A p \in DOMAIN run : run[p] \in Addresses
  /\ ringing = Off \/ ringing \subseteq Accounts

\* What a step may do to an account.
Kept ==
  /\ AccountsInv'
  /\ Accounts \subseteq Accounts'
  /\ \A p \in Accounts : users[p].verified => users'[p].verified

\* Steps that leave the accounts alone.
Elsewhere == UNCHANGED <<users, profile>>

LEMMA ElsewhereKeeps ==
  ASSUME AccountsInv, Elsewhere
  PROVE  Kept
BY DEF AccountsInv, Elsewhere, Kept, Accounts

LEMMA SignupKeeps ==
  ASSUME AccountsInv, NEW p \in Phones, NEW a \in Addresses, NEW text \in Descriptions,
         Signup(p, a, text)
  PROVE  /\ Kept
         /\ Accounts' = Accounts \cup {p}
         /\ \A q \in Phones \ {p} : users'[q] = users[q]
         /\ p \in Accounts => /\ users'[p].verified = users[p].verified
                              /\ users'[p].unsubscribed = users[p].unsubscribed
         /\ p \notin Accounts => ~users'[p].verified /\ ~users'[p].unsubscribed
<1> USE SiteAssumption DEF AccountsInv
<1>1. /\ users' = [users EXCEPT ![p] = SignedUp(p, a)]
      /\ profile' = [profile EXCEPT ![p] = text] /\ text \in Adequate
  BY DEF Signup, Accepted
<1>2. p \in Accounts => users[p] \in User
  BY DEF Accounts
<1>3. /\ SignedUp(p, a) \in User
      /\ p \in Accounts => /\ SignedUp(p, a).verified = users[p].verified
                           /\ SignedUp(p, a).unsubscribed = users[p].unsubscribed
      /\ p \notin Accounts => ~SignedUp(p, a).verified /\ ~SignedUp(p, a).unsubscribed
  BY <1>2 DEF SignedUp, User
<1>4. /\ users'[p] = SignedUp(p, a) /\ users'[p] # None
      /\ \A q \in Phones \ {p} : users'[q] = users[q]
  BY <1>1, <1>3
<1>5. Accounts' = Accounts \cup {p}
  BY <1>4 DEF Accounts
<1>6. AccountsInv'
  BY <1>1, <1>3, <1>5
<1> QED
  BY <1>3, <1>4, <1>5, <1>6 DEF Kept, Accounts

LEMMA VerifyKeeps ==
  ASSUME AccountsInv, NamesInv, NEW l \in inbox, Verify(l), profile' = profile
  PROVE  /\ Kept
         /\ Accounts' = Accounts /\ l.user \in Accounts
         /\ \A q \in Phones \ {l.user} : users'[q] = users[q]
         /\ users'[l.user].verified /\ ~users'[l.user].unsubscribed
<1> USE SiteAssumption DEF AccountsInv
<1>1. l.user \in Accounts /\ l.user \in Phones /\ users[l.user] \in User
  BY DEF NamesInv, Accounts
<1>2. users' = [users EXCEPT ![l.user] = [users[l.user] EXCEPT !.verified = TRUE,
                                                              !.unsubscribed = FALSE]]
  BY <1>1 DEF Verify, User
<1>3. /\ users'[l.user] \in User /\ users'[l.user] # None
      /\ users'[l.user].verified /\ ~users'[l.user].unsubscribed
      /\ \A q \in Phones \ {l.user} : users'[q] = users[q]
  BY <1>1, <1>2 DEF User
<1>4. Accounts' = Accounts
  BY <1>1, <1>3 DEF Accounts
<1>5. AccountsInv'
  BY <1>2, <1>3, <1>4
<1> QED
  BY <1>1, <1>3, <1>4, <1>5 DEF Kept, Accounts

LEMMA UnsubscribeKeeps ==
  ASSUME AccountsInv, NamesInv, NEW l \in inbox, Unsubscribe(l)
  PROVE  /\ Kept
         /\ Accounts' = Accounts /\ l.user \in Accounts
         /\ \A q \in Phones \ {l.user} : users'[q] = users[q]
         /\ users'[l.user].verified = users[l.user].verified
         /\ users'[l.user].unsubscribed
<1> USE SiteAssumption DEF AccountsInv
<1>1. l.user \in Accounts /\ l.user \in Phones /\ users[l.user] \in User
  BY DEF NamesInv, Accounts
<1>2. users' = [users EXCEPT ![l.user] = [users[l.user] EXCEPT !.unsubscribed = TRUE]]
      /\ profile' = profile
  BY <1>1 DEF Unsubscribe, User
<1>3. /\ users'[l.user] \in User /\ users'[l.user] # None
      /\ users'[l.user].verified = users[l.user].verified
      /\ users'[l.user].unsubscribed
      /\ \A q \in Phones \ {l.user} : users'[q] = users[q]
  BY <1>1, <1>2 DEF User
<1>4. Accounts' = Accounts
  BY <1>1, <1>3 DEF Accounts
<1>5. AccountsInv'
  BY <1>2, <1>3, <1>4
<1> QED
  BY <1>1, <1>3, <1>4, <1>5 DEF Kept, Accounts

-----------------------------------------------------------------------------
(***************************************************************************)
(* The push subscriptions.  A row counts the failures since it last        *)
(* worked, is retired for a cause, and what a push run has selected and    *)
(* not yet sent to is not retired as the run sees it: nobody else retires. *)
(***************************************************************************)
Sound(dead, row, count) ==
  /\ row \in Row
  /\ row.failures = row.streak /\ row.streak <= count
  /\ row.retired => dead \/ row.streak >= MaxFailures
  /\ row.streak >= MaxFailures => row.retired

RowsInv ==
  /\ gone \subseteq Browsers
  /\ failures \in 0 .. FailureBound
  /\ subs \in [Browsers -> Row \cup {None}]
  /\ \A b \in Browsers : subs[b] # None => Sound(b \in gone, subs[b], failures)
  /\ DOMAIN pending \subseteq Browsers
  /\ \A b \in DOMAIN pending : subs[b] # None /\ Sound(b \in gone, pending[b], failures)
  /\ DOMAIN targets \subseteq Browsers
  /\ \A b \in DOMAIN targets :
       targets[b] \in Row /\ (Current(b) # None => ~Current(b).retired)
  /\ ringing = Off => targets = NoRows /\ pending = NoRows

LEMMA CurrentIsSound ==
  ASSUME RowsInv, NEW b \in Browsers
  PROVE  /\ Current(b) # None <=> subs[b] # None
         /\ Current(b) # None => Sound(b \in gone, Current(b), failures)
BY SiteAssumption DEF RowsInv, Current, Sound

\* A row that is updated before its send is over.
LEMMA UpdateKeepsRows ==
  ASSUME RowsInv, NEW b \in DOMAIN targets, NEW row,
         subs[b] # None => Sound(b \in gone', row, failures'),
         Update(b, row), Sent(b),
         failures' \in 0 .. FailureBound, failures <= failures',
         UNCHANGED <<subs, gone, ringing>>, ringing # Off
  PROVE  RowsInv'
<1> USE SiteAssumption
<1>1. b \in Browsers /\ failures \in Nat /\ failures' \in Nat
  BY DEF RowsInv
<1>2. \A c, r : Sound(c \in gone, r, failures) => Sound(c \in gone', r, failures')
  BY <1>1 DEF Sound, Row
<1>3. /\ DOMAIN targets' = DOMAIN targets \ {b}
      /\ \A c \in DOMAIN targets' : targets'[c] = targets[c]
  BY DEF Sent
<1>4. /\ DOMAIN pending' \subseteq DOMAIN pending \cup {b}
      /\ \A c \in DOMAIN pending' : IF c = b THEN subs[b] # None => pending'[c] = row
                                             ELSE c \in DOMAIN pending /\ pending'[c] = pending[c]
      /\ \A c \in DOMAIN pending \ {b} : c \in DOMAIN pending'
  BY DEF Update
<1>5. b \in DOMAIN pending' => subs[b] # None
  <2>1. b \in DOMAIN pending => subs[b] # None
    BY DEF RowsInv
  <2> QED BY <2>1 DEF Update
<1>6. \A c \in Browsers \ {b} : Current(c)' = Current(c)
  BY <1>4 DEF Current
<1>7. \A c \in DOMAIN pending' : subs'[c] # None /\ Sound(c \in gone', pending'[c], failures')
  <2> TAKE c \in DOMAIN pending'
  <2>1. CASE c = b
    <3>1. subs[b] # None /\ pending'[b] = row
      BY <1>4, <1>5, <2>1
    <3> QED BY <2>1, <3>1 DEF Sound
  <2>2. CASE c # b
    BY <1>2, <1>4, <2>2 DEF RowsInv
  <2> QED BY <2>1, <2>2
<1>8. \A c \in DOMAIN targets' :
        targets'[c] \in Row /\ (Current(c)' # None => ~Current(c)'.retired)
  BY <1>3, <1>6 DEF RowsInv
<1>9. \A c \in Browsers : subs'[c] # None => Sound(c \in gone', subs'[c], failures')
  BY <1>2 DEF RowsInv
<1>10. DOMAIN pending' \subseteq Browsers /\ DOMAIN targets' \subseteq Browsers
  BY <1>1, <1>3, <1>4 DEF RowsInv
<1> HIDE SiteAssumption
<1> QED
  BY <1>7, <1>8, <1>9, <1>10 DEF RowsInv

LEMMA StepRowsInv ==
  ASSUME RowsInv, NamesInv, [Next]_siteVars
  PROVE  RowsInv'
<1> USE SiteAssumption
<1>0. \A b \in DOMAIN targets : b \in Browsers /\ ringing # Off
  BY DEF RowsInv, NoRows
<1>1. CASE Accounting \/ Following \/ Digesting \/ UNCHANGED siteVars
  <2>1. UNCHANGED push
    BY <1>1 DEF Accounting, Signup, Signin, LoginMail, Signout, ProfileSave, Following, AuthLink,
                FeedbackRecord, Unsubscribe, Scan, Digesting, DigestStart, DigestSend, DigestSkip,
                DigestCrash, siteVars
  <2> QED BY <2>1 DEF push, pushRun, RowsInv, Sound, Current
<1>2. ASSUME NEW b \in Browsers, Subscribe(b) PROVE RowsInv'
  <2> DEFINE row == [user |-> session[b], failures |-> 0, retired |-> FALSE, streak |-> 0]
  <2>1. /\ subs' = [subs EXCEPT ![b] = row]
        /\ b \notin DOMAIN pending
        /\ UNCHANGED <<gone, ringing, targets, pending, failures>>
    BY <1>2 DEF Subscribe, Unlocked, pushRun
  <2>2. session[b] \in Phones
    BY <1>2 DEF Subscribe, SignedIn, NamesInv, Accounts
  <2>3. row \in Row
    BY <2>2 DEF Row
  <2>4. Sound(b \in gone', row, failures') /\ ~row.retired
    BY <2>1, <2>3 DEF Sound, RowsInv
  <2> HIDE DEF row
  <2>5. /\ subs'[b] = row /\ row # None
        /\ \A c \in Browsers \ {b} : subs'[c] = subs[c]
        /\ subs' \in [Browsers -> Row \cup {None}]
    BY <2>1, <2>3 DEF RowsInv
  <2>6. \A c \in Browsers : Current(c)' = IF c = b THEN row ELSE Current(c)
    BY <2>1, <2>5 DEF Current
  <2>7. \A c, r : Sound(c \in gone, r, failures) => Sound(c \in gone', r, failures')
    BY <2>1 DEF Sound
  <2> HIDE SiteAssumption
  <2>8. \A c \in Browsers : subs'[c] # None => Sound(c \in gone', subs'[c], failures')
    BY <2>4, <2>5, <2>7 DEF RowsInv
  <2>9. \A c \in DOMAIN pending' : subs'[c] # None /\ Sound(c \in gone', pending'[c], failures')
    BY <2>1, <2>5, <2>7 DEF RowsInv
  <2>10. \A c \in DOMAIN targets' :
           targets'[c] \in Row /\ (Current(c)' # None => ~Current(c)'.retired)
    BY <2>1, <2>4, <2>6 DEF RowsInv
  <2> QED BY <2>1, <2>5, <2>8, <2>9, <2>10 DEF RowsInv
<1>3. ASSUME NEW b \in Browsers, PushUnsubscribe(b) PROVE RowsInv'
  <2>1. /\ subs' = [subs EXCEPT ![b] = None]
        /\ b \notin DOMAIN pending
        /\ UNCHANGED <<gone, ringing, targets, pending, failures>>
    BY <1>3 DEF PushUnsubscribe, Unlocked, pushRun
  <2>2. /\ subs'[b] = None
        /\ \A c \in Browsers \ {b} : subs'[c] = subs[c]
        /\ subs' \in [Browsers -> Row \cup {None}]
    BY <2>1 DEF RowsInv
  <2>3. \A c \in Browsers : Current(c)' = IF c = b THEN None ELSE Current(c)
    BY <2>1, <2>2 DEF Current
  <2>4. \A c, r : Sound(c \in gone, r, failures) => Sound(c \in gone', r, failures')
    BY <2>1 DEF Sound
  <2> HIDE SiteAssumption
  <2>5. \A c \in DOMAIN pending' : subs'[c] # None /\ Sound(c \in gone', pending'[c], failures')
    BY <2>1, <2>2, <2>4 DEF RowsInv
  <2>6. \A c \in DOMAIN targets' :
           targets'[c] \in Row /\ (Current(c)' # None => ~Current(c)'.retired)
    BY <2>1, <2>3 DEF RowsInv
  <2> QED BY <2>1, <2>2, <2>4, <2>5, <2>6 DEF RowsInv
<1>4. ASSUME NEW b \in Browsers, Gone(b) PROVE RowsInv'
  BY <1>4 DEF Gone, pushRun, RowsInv, Sound, Current
<1>5. ASSUME NEW b \in Browsers, PushDelivered(b) PROVE RowsInv'
  <2> DEFINE row == [Current(b) EXCEPT !.failures = 0, !.streak = 0]
  <2>1. /\ b \in DOMAIN targets
        /\ Update(b, row) /\ Sent(b) /\ UNCHANGED <<subs, gone, ringing, failures>>
    BY <1>5 DEF PushDelivered
  <2>2. ASSUME subs[b] # None PROVE Sound(b \in gone', row, failures')
    <3>1. Sound(b \in gone, Current(b), failures) /\ ~Current(b).retired
      BY <1>0, <2>1, <2>2, CurrentIsSound DEF RowsInv
    <3>2. failures \in Nat /\ 0 \in 0 .. MaxFailures /\ 0 \in 0 .. FailureBound
      BY DEF RowsInv
    <3>3. /\ row \in Row /\ row.failures = 0 /\ row.streak = 0
          /\ ~row.retired
      BY <3>1, <3>2 DEF Sound, Row
    <3> QED BY <2>1, <3>2, <3>3 DEF Sound
  <2> HIDE DEF row
  <2>3. failures' \in 0 .. FailureBound /\ failures <= failures'
    BY <2>1 DEF RowsInv
  <2> QED BY <1>0, <2>1, <2>2, <2>3, UpdateKeepsRows
<1>6. ASSUME NEW b \in Browsers, PushGone(b) PROVE RowsInv'
  <2> DEFINE row == [Current(b) EXCEPT !.retired = TRUE]
  <2>1. /\ b \in DOMAIN targets /\ b \in gone
        /\ Update(b, row) /\ Sent(b) /\ UNCHANGED <<subs, gone, ringing, failures>>
    BY <1>6 DEF PushGone
  <2>2. ASSUME subs[b] # None PROVE Sound(b \in gone', row, failures')
    <3>1. Sound(b \in gone, Current(b), failures)
      BY <2>2, CurrentIsSound
    <3> QED BY <2>1, <3>1 DEF Sound, Row
  <2> HIDE DEF row
  <2>3. failures' \in 0 .. FailureBound /\ failures <= failures'
    BY <2>1 DEF RowsInv
  <2> QED BY <1>0, <2>1, <2>2, <2>3, UpdateKeepsRows
<1>7. ASSUME NEW b \in Browsers, PushFailed(b) PROVE RowsInv'
  <2>1. /\ b \in DOMAIN targets /\ failures < FailureBound /\ failures' = failures + 1
        /\ Update(b, Failed(b)) /\ Sent(b) /\ UNCHANGED <<subs, gone, ringing>>
    BY <1>7 DEF PushFailed
  <2>2. failures' \in 0 .. FailureBound /\ failures <= failures'
    BY <2>1 DEF RowsInv
  <2>3. ASSUME subs[b] # None PROVE Sound(b \in gone', Failed(b), failures')
    <3>1. Sound(b \in gone, Current(b), failures) /\ ~Current(b).retired
      BY <1>0, <2>1, <2>3, CurrentIsSound DEF RowsInv
    <3>2. /\ Current(b).streak < MaxFailures /\ Current(b).streak \in Nat
          /\ Current(b).failures = Current(b).streak
          /\ Current(b).streak <= failures /\ failures \in Nat
      BY <3>1 DEF Sound, Row, RowsInv
    <3> DEFINE count == Current(b).streak + 1
    <3>3. count \in 0 .. MaxFailures /\ count \in 0 .. FailureBound /\ count <= failures'
      BY <2>1, <2>2, <3>2
    <3> DEFINE over == count >= MaxFailures
    <3>4. Current(b).retired = FALSE /\ (FALSE \/ over) = over /\ over \in BOOLEAN
      BY <3>1 DEF Sound, Row
    <3>5. Failed(b) = [user |-> Current(b).user, failures |-> count, retired |-> over,
                       streak |-> count]
      <4>1. Failed(b) = [Current(b) EXCEPT !.failures = count, !.streak = count,
                                           !.retired = FALSE \/ over]
        BY <3>2, <3>4 DEF Failed
      <4> HIDE DEF count, over
      <4> QED BY <3>1, <3>4, <4>1 DEF Sound, Row
    <3>6. Failed(b) \in Row
      BY <3>1, <3>3, <3>4, <3>5 DEF Sound, Row
    <3>7. /\ Failed(b).failures = count /\ Failed(b).streak = count
          /\ Failed(b).retired = over
      BY <3>5
    <3> QED BY <3>3, <3>6, <3>7 DEF Sound
  <2> QED BY <1>0, <2>1, <2>2, <2>3, UpdateKeepsRows
<1>8. CASE PushStart
  BY <1>8 DEF PushStart, RowsInv, Sound, Current
<1>9. ASSUME NEW p \in Phones, PushUser(p) PROVE RowsInv'
  <2>1. /\ UNCHANGED <<subs, gone, pending, failures>> /\ ringing # Off
        /\ ringing' = ringing \ {p}
        /\ targets' = [b \in {b \in Browsers : /\ Current(b) # None
                                               /\ Current(b).user = p
                                               /\ ~Current(b).retired} |-> Current(b)]
    BY <1>9 DEF PushUser
  <2>2. ringing' # Off
    BY <2>1 DEF NamesInv, Accounts
  <2>3. \A c : Current(c)' = Current(c)
    BY <2>1 DEF Current
  <2>4. \A c \in DOMAIN targets' : /\ c \in Browsers /\ targets'[c] = Current(c)
                                   /\ Current(c) # None /\ ~Current(c).retired
    BY <2>1
  <2>5. \A c \in DOMAIN targets' : targets'[c] \in Row
    BY <2>4, CurrentIsSound DEF Sound
  <2> HIDE SiteAssumption
  <2>6. DOMAIN targets' \subseteq Browsers /\ \A c \in DOMAIN targets' : ~Current(c)'.retired
    BY <2>3, <2>4
  <2>7. \A c, r : Sound(c \in gone', r, failures') <=> Sound(c \in gone, r, failures)
    BY <2>1 DEF Sound
  <2>8. /\ \A b \in Browsers : subs'[b] # None => Sound(b \in gone', subs'[b], failures')
        /\ \A b \in DOMAIN pending' : subs'[b] # None /\ Sound(b \in gone', pending'[b], failures')
    BY <2>1, <2>7 DEF RowsInv
  <2> QED BY <2>1, <2>2, <2>5, <2>6, <2>8 DEF RowsInv
<1>10. CASE PushCommit
  <2>1. /\ subs' = [b \in Browsers |-> Current(b)]
        /\ targets' = NoRows /\ pending' = NoRows
        /\ UNCHANGED <<gone, failures>>
    BY <1>10 DEF PushCommit
  <2>2. \A c, r : Sound(c \in gone, r, failures) => Sound(c \in gone', r, failures')
    BY <2>1 DEF Sound
  <2>3. \A b \in Browsers : subs'[b] # None => Sound(b \in gone', subs'[b], failures')
    BY <2>1, <2>2, CurrentIsSound
  <2>4. \A b \in Browsers : Current(b) \in Row \cup {None}
    BY CurrentIsSound DEF Sound
  <2> QED BY <2>1, <2>3, <2>4 DEF RowsInv, NoRows
<1>11. CASE PushCrash
  <2>1. /\ targets' = NoRows /\ pending' = NoRows
        /\ UNCHANGED <<subs, gone, failures>>
    BY <1>11 DEF PushCrash
  <2>2. \A c, r : Sound(c \in gone, r, failures) => Sound(c \in gone', r, failures')
    BY <2>1 DEF Sound
  <2> QED BY <2>1, <2>2 DEF RowsInv, NoRows
<1> QED
  BY <1>1, <1>2, <1>3, <1>4, <1>5, <1>6, <1>7, <1>8, <1>9, <1>10, <1>11 DEF Next, Pushing

-----------------------------------------------------------------------------
(***************************************************************************)
(* Whoever is named by a session, a verdict, a digest, a recipient of the  *)
(* run or a row of the push subscriptions is verified: a login link of the *)
(* account was visited.                                                    *)
(***************************************************************************)
Verified == {p \in Accounts : users[p].verified}

VerifiedInv ==
  /\ \A p \in Accounts : users[p].verified <=> \E l \in visited : l.user = p
  /\ \A b \in Browsers : session[b] # None => session[b] \in Verified
  /\ \A p \in Phones : verdict[p] # None => p \in Verified
  /\ \A l \in inbox : l.kind = "digest" => l.user \in Verified
  /\ DOMAIN run \subseteq Verified
  /\ \A b \in Browsers : subs[b] # None => subs[b].user \in Verified
  /\ \A b \in DOMAIN pending : pending[b].user \in Verified
  /\ \A b \in DOMAIN targets : targets[b].user \in Verified

SiteInv == AccountsInv /\ NamesInv /\ RowsInv /\ VerifiedInv

\* Every step keeps the accounts, and the links and sessions name accounts.
LEMMA StepKeeps ==
  ASSUME AccountsInv, NamesInv, Next
  PROVE  Kept
<1>1. ASSUME NEW p \in Phones, NEW a \in Addresses, NEW text \in Descriptions, Signup(p, a, text)
      PROVE  Kept
  BY <1>1, SignupKeeps
<1>2. ASSUME NEW l \in inbox, NEW b \in Browsers, AuthLink(l, b) PROVE Kept
  BY <1>2, VerifyKeeps DEF AuthLink
<1>3. ASSUME NEW l \in inbox, Unsubscribe(l) PROVE Kept
  BY <1>3, UnsubscribeKeeps
<1>4. ASSUME NEW l \in inbox, Scan(l) PROVE Kept
  <2>1. CASE Verify(l) /\ UNCHANGED profile
    BY <2>1, VerifyKeeps
  <2>2. CASE Elsewhere
    BY <2>2, ElsewhereKeeps
  <2> QED BY <1>3, <1>4, <2>1, <2>2 DEF Scan, Elsewhere, account
<1>5. ASSUME NEW b \in Browsers, NEW text \in Descriptions, ProfileSave(b, text) PROVE Kept
  <2>1. session[b] \in Accounts /\ text \in Adequate
    BY <1>5 DEF ProfileSave, SignedIn, Accepted, NamesInv
  <2>2. users' = users /\ profile' = [profile EXCEPT ![session[b]] = text]
    BY <1>5 DEF ProfileSave
  <2> QED BY <2>1, <2>2, SiteAssumption DEF AccountsInv, Kept, Accounts
<1>6. CASE Elsewhere
  BY <1>6, ElsewhereKeeps
<1>7. Digesting \/ Pushing => Elsewhere
  BY DEF Digesting, DigestStart, DigestSend, DigestSkip, DigestCrash, Pushing, Subscribe,
         PushUnsubscribe, Gone, PushDelivered, PushGone, PushFailed, PushStart, PushUser,
         PushCommit, PushCrash, account, Elsewhere
<1>8. CASE Accounting
  <2>1. (\E a \in Addresses : Signin(a)) \/ (\E b \in Browsers : Signout(b)) => Elsewhere
    BY DEF Signin, Signout, account, Elsewhere
  <2> QED BY <1>1, <1>5, <1>6, <1>8, <2>1 DEF Accounting
<1>9. CASE Following
  <2>1. ASSUME NEW l \in inbox, NEW v \in Verdicts, FeedbackRecord(l, v) PROVE Elsewhere
    BY <2>1 DEF FeedbackRecord, account, Elsewhere
  <2> QED BY <1>2, <1>3, <1>4, <1>6, <1>9, <2>1 DEF Following
<1> QED
  BY <1>6, <1>7, <1>8, <1>9 DEF Next

\* Signing up and asking for a link: the mail goes to an account.
LEMMA LoginMailNames ==
  ASSUME AccountsInv, NamesInv, Kept,
         NEW p \in Accounts', NEW a \in Addresses, LoginMail(a, p),
         UNCHANGED <<visited, session, verdict, run, ringing>>
  PROVE  NamesInv'
<1>1. \A l \in inbox' : l \in Link /\ l.user \in Accounts'
  <2> SUFFICES ASSUME NEW l \in inbox' PROVE l \in Link /\ l.user \in Accounts'
    OBVIOUS
  <2>1. CASE l \in inbox
    BY <2>1 DEF NamesInv, Kept
  <2>2. CASE l = [to |-> a, kind |-> "login", user |-> p]
    BY <2>2 DEF Link, Accounts
  <2> QED BY <2>1, <2>2 DEF LoginMail
<1>2. visited' \subseteq inbox' /\ inbox' \subseteq Link
  BY <1>1 DEF LoginMail, NamesInv
<1> QED
  BY <1>1, <1>2 DEF NamesInv, Kept

LEMMA StepNamesInv ==
  ASSUME AccountsInv, NamesInv, [Next]_siteVars
  PROVE  NamesInv'
<1> USE SiteAssumption
<1>0. CASE UNCHANGED siteVars
  BY <1>0 DEF siteVars, account, votes, push, pushRun, NamesInv, Accounts
<1> SUFFICES ASSUME Next PROVE NamesInv'
  BY <1>0
<1>1. Kept
  BY StepKeeps
<1>2. ASSUME NEW p \in Phones, NEW a \in Addresses, NEW text \in Descriptions, Signup(p, a, text)
      PROVE  NamesInv'
  <2>1. p \in Accounts'
    BY <1>2, SignupKeeps
  <2> QED BY <1>1, <1>2, <2>1, LoginMailNames DEF Signup, votes, push, pushRun
<1>3. ASSUME NEW a \in Addresses, Signin(a) PROVE NamesInv'
  <2>1. PICK p \in Accounts : users[p].email = a /\ LoginMail(a, p)
    BY <1>3 DEF Signin
  <2>2. p \in Accounts'
    BY <1>1 DEF Kept
  <2> QED BY <1>1, <1>3, <2>1, <2>2, LoginMailNames DEF Signin, account, votes, push, pushRun
<1>4. ASSUME NEW b \in Browsers, NEW text \in Descriptions,
             Signout(b) \/ ProfileSave(b, text)
      PROVE  NamesInv'
  BY <1>1, <1>4 DEF Signout, ProfileSave, votes, push, pushRun, NamesInv, Kept
<1>5. ASSUME NEW l \in inbox, NEW b \in Browsers, AuthLink(l, b) PROVE NamesInv'
  BY <1>1, <1>5 DEF AuthLink, Verify, votes, push, pushRun, NamesInv, Kept
<1>6. ASSUME NEW l \in inbox, NEW v \in Verdicts, FeedbackRecord(l, v) PROVE NamesInv'
  BY <1>1, <1>6 DEF FeedbackRecord, account, push, pushRun, NamesInv, Kept
<1>7. ASSUME NEW l \in inbox, Unsubscribe(l) PROVE NamesInv'
  BY <1>1, <1>7 DEF Unsubscribe, votes, push, pushRun, NamesInv, Kept
<1>8. ASSUME NEW l \in inbox, Scan(l) PROVE NamesInv'
  <2>1. CASE Verify(l) /\ UNCHANGED <<profile, session, inbox, votes, run, push>>
    BY <1>1, <2>1 DEF Verify, votes, push, pushRun, NamesInv, Kept
  <2>2. CASE UNCHANGED <<account, inbox, votes, run, late, push>>
    BY <1>1, <2>2 DEF account, votes, push, pushRun, NamesInv, Kept
  <2> QED BY <1>7, <1>8, <2>1, <2>2 DEF Scan, FeedbackConfirm
<1>9. CASE Digesting
  <2>1. UNCHANGED <<users, visited, session, verdict, ringing>>
    BY <1>9 DEF Digesting, DigestStart, DigestSend, DigestSkip, DigestCrash, account, votes,
                push, pushRun
  <2>2. ASSUME UNCHANGED inbox, DOMAIN run' \subseteq Accounts,
               \A p \in DOMAIN run' : run'[p] \in Addresses
        PROVE  NamesInv'
    BY <2>1, <2>2 DEF NamesInv, Accounts
  <2>3. CASE DigestStart
    <3>1. /\ UNCHANGED inbox /\ run' = [p \in Recipients |-> users[p].email]
          /\ Recipients \subseteq Accounts
      BY <2>3 DEF DigestStart, Recipients
    <3>2. \A p \in Recipients : users[p].email \in Addresses
      BY <3>1 DEF AccountsInv, Accounts, User
    <3> QED BY <2>2, <3>1, <3>2
  <2>4. ASSUME NEW p \in Phones, DigestSend(p) PROVE NamesInv'
    <3> DEFINE link == [to |-> run[p], kind |-> "digest", user |-> p]
    <3>1. p \in DOMAIN run /\ inbox' = inbox \cup {link} /\ Done(p)
      BY <2>4 DEF DigestSend
    <3>2. link \in Link /\ link.user \in Accounts
      BY <3>1 DEF NamesInv, Link
    <3>3. /\ visited \subseteq inbox' /\ inbox' \subseteq Link
          /\ \A l \in inbox' : l.user \in Accounts
      BY <3>1, <3>2 DEF NamesInv
    <3>4. DOMAIN run' \subseteq Accounts /\ \A q \in DOMAIN run' : run'[q] \in Addresses
      BY <3>1 DEF Done, NamesInv
    <3> HIDE DEF link
    <3> QED BY <2>1, <3>3, <3>4 DEF NamesInv, Accounts
  <2>5. ASSUME NEW p \in Phones, DigestSkip(p) PROVE NamesInv'
    BY <2>2, <2>5 DEF DigestSkip, Done, NamesInv
  <2>6. CASE DigestCrash
    BY <2>2, <2>6 DEF DigestCrash, NoOne
  <2> QED BY <1>9, <2>3, <2>4, <2>5, <2>6 DEF Digesting
<1>10. CASE Pushing
  <2>1. UNCHANGED <<users, visited, inbox, session, verdict, run>>
    BY <1>10 DEF Pushing, Subscribe, PushUnsubscribe, Gone, PushDelivered, PushGone, PushFailed,
                 PushStart, PushUser, PushCommit, PushCrash, account, votes
  <2>2. ringing' \in {ringing, Off} \/ ringing' \subseteq Accounts
    <3>1. ASSUME NEW p \in Phones, PushUser(p) PROVE ringing' \subseteq Accounts
      BY <3>1 DEF PushUser, NamesInv
    <3>2. CASE PushStart
      BY <3>2 DEF PushStart
    <3> QED BY <1>10, <3>1, <3>2 DEF Pushing, Subscribe, PushUnsubscribe, Gone, PushDelivered,
                 PushGone, PushFailed, PushCommit, PushCrash, pushRun
  <2> QED BY <2>1, <2>2 DEF NamesInv, Accounts
<1> QED
  BY <1>2, <1>3, <1>4, <1>5, <1>6, <1>7, <1>8, <1>9, <1>10 DEF Next, Accounting, Following

\* A verified account stays one.
LEMMA VerifiedKept ==
  ASSUME Kept
  PROVE  Verified \subseteq Verified'
BY DEF Kept, Verified, Accounts

\* The digest run and the push run: the people they name were verified.
LEMMA RunsKeepVerified ==
  ASSUME AccountsInv, NamesInv, RowsInv, VerifiedInv, Digesting \/ Pushing
  PROVE  VerifiedInv'
<1> USE SiteAssumption
<1>1. UNCHANGED <<users, visited, session, verdict>> /\ Accounts' = Accounts
  BY DEF Digesting, DigestStart, DigestSend, DigestSkip, DigestCrash, Pushing, Subscribe,
         PushUnsubscribe, Gone, PushDelivered, PushGone, PushFailed, PushStart, PushUser,
         PushCommit, PushCrash, account, votes, Accounts
<1>2. Verified' = Verified
  BY <1>1 DEF Verified
<1>3. /\ \A p \in Accounts' : users'[p].verified <=> \E l \in visited' : l.user = p
      /\ \A b \in Browsers : session'[b] # None => session'[b] \in Verified'
      /\ \A p \in Phones : verdict'[p] # None => p \in Verified'
  BY <1>1, <1>2 DEF VerifiedInv
<1>4. ASSUME UNCHANGED inbox, DOMAIN run' \subseteq Verified, UNCHANGED <<subs, targets, pending>>
      PROVE  VerifiedInv'
  BY <1>2, <1>3, <1>4 DEF VerifiedInv
<1>5. CASE Digesting
  <2>1. ASSUME NEW p \in Phones, DigestSend(p) PROVE VerifiedInv'
    <3>1. /\ p \in DOMAIN run /\ Done(p)
          /\ inbox' = inbox \cup {[to |-> run[p], kind |-> "digest", user |-> p]}
          /\ UNCHANGED <<subs, targets, pending>>
      BY <2>1 DEF DigestSend, push, pushRun
    <3>2. p \in Verified
      BY <3>1 DEF VerifiedInv
    <3>3. \A l \in inbox' : l.kind = "digest" => l.user \in Verified'
      BY <1>2, <3>1, <3>2 DEF VerifiedInv
    <3>4. DOMAIN run' \subseteq Verified'
      BY <1>2, <3>1 DEF Done, VerifiedInv
    <3> QED BY <1>2, <1>3, <3>1, <3>3, <3>4 DEF VerifiedInv
  <2>2. ASSUME NEW p \in Phones, DigestSkip(p) PROVE VerifiedInv'
    BY <1>4, <2>2 DEF DigestSkip, Done, push, pushRun, VerifiedInv
  <2>3. CASE DigestStart
    BY <1>4, <2>3 DEF DigestStart, Recipients, Verified, push, pushRun
  <2>4. CASE DigestCrash
    BY <1>4, <2>4 DEF DigestCrash, NoOne, push, pushRun
  <2> QED BY <1>5, <2>1, <2>2, <2>3, <2>4 DEF Digesting
<1>6. ASSUME UNCHANGED <<inbox, run>>,
             \A b \in Browsers : subs'[b] # None => subs'[b].user \in Verified,
             \A b \in DOMAIN pending' : pending'[b].user \in Verified,
             \A b \in DOMAIN targets' : targets'[b].user \in Verified
      PROVE  VerifiedInv'
  BY <1>2, <1>3, <1>6 DEF VerifiedInv
<1>7. CASE Pushing
  <2>0. UNCHANGED <<inbox, run>>
    BY <1>7 DEF Pushing, Subscribe, PushUnsubscribe, Gone, PushDelivered, PushGone, PushFailed,
                PushStart, PushUser, PushCommit, PushCrash
  <2>1. \A b \in Browsers : Current(b) # None => Current(b).user \in Verified
    BY DEF Current, VerifiedInv
  <2>2. ASSUME NEW b \in Browsers, NEW row, Update(b, row), row.user = Current(b).user,
               Sent(b), UNCHANGED subs
        PROVE  VerifiedInv'
    <3>1. \A c \in DOMAIN pending' : pending'[c].user \in Verified
      <4>1. subs[b] # None => row.user \in Verified
        BY <2>1, <2>2, CurrentIsSound
      <4> QED BY <2>2, <4>1 DEF Update, VerifiedInv
    <3>2. \A c \in DOMAIN targets' : targets'[c].user \in Verified
      BY <2>2 DEF Sent, VerifiedInv
    <3> QED BY <1>6, <2>0, <2>2, <3>1, <3>2 DEF VerifiedInv
  <2>3. ASSUME NEW b \in Browsers, PushDelivered(b) \/ PushGone(b) \/ PushFailed(b)
        PROVE  VerifiedInv'
    <3>1. UNCHANGED subs /\ Sent(b)
      BY <2>3 DEF PushDelivered, PushGone, PushFailed
    <3>2. PICK row : Update(b, row) /\ row.user = Current(b).user
      <4>1. /\ [Current(b) EXCEPT !.failures = 0, !.streak = 0].user = Current(b).user
            /\ [Current(b) EXCEPT !.retired = TRUE].user = Current(b).user
            /\ Failed(b).user = Current(b).user
        BY DEF Failed
      <4> QED BY <2>3, <4>1 DEF PushDelivered, PushGone, PushFailed
    <3> QED BY <2>2, <3>1, <3>2
  <2>4. ASSUME NEW b \in Browsers, Subscribe(b) PROVE VerifiedInv'
    <3>1. session[b] \in Verified
      BY <2>4 DEF Subscribe, SignedIn, VerifiedInv
    <3>2. \A c \in Browsers : subs'[c] # None => subs'[c].user \in Verified
      BY <2>4, <3>1 DEF Subscribe, VerifiedInv, RowsInv
    <3> QED BY <1>6, <2>0, <2>4, <3>2 DEF Subscribe, pushRun, VerifiedInv
  <2>5. ASSUME NEW b \in Browsers, PushUnsubscribe(b) PROVE VerifiedInv'
    <3>1. \A c \in Browsers : subs'[c] # None => subs'[c].user \in Verified
      BY <2>5 DEF PushUnsubscribe, VerifiedInv, RowsInv
    <3> QED BY <1>6, <2>0, <2>5, <3>1 DEF PushUnsubscribe, pushRun, VerifiedInv
  <2>6. ASSUME NEW p \in Phones, PushUser(p) PROVE VerifiedInv'
    <3>1. \A c \in DOMAIN targets' : targets'[c].user \in Verified
      BY <2>1, <2>6 DEF PushUser
    <3> QED BY <1>6, <2>0, <2>6, <3>1 DEF PushUser, VerifiedInv
  <2>7. CASE PushCommit
    <3>1. \A c \in Browsers : subs'[c] # None => subs'[c].user \in Verified
      BY <2>1, <2>7 DEF PushCommit
    <3> QED BY <1>6, <2>0, <2>7, <3>1 DEF PushCommit, NoRows, VerifiedInv
  <2>8. CASE PushCrash
    BY <1>6, <2>0, <2>8 DEF PushCrash, NoRows, VerifiedInv
  <2>9. ASSUME PushStart \/ \E b \in Browsers : Gone(b) PROVE VerifiedInv'
    BY <1>6, <2>0, <2>9 DEF PushStart, Gone, pushRun, VerifiedInv
  <2> QED BY <1>7, <2>3, <2>4, <2>5, <2>6, <2>7, <2>8, <2>9 DEF Pushing
<1> QED
  BY <1>5, <1>7

\* Accounts and links.  A login link that is visited is what verifies.
LEMMA LinksKeepVerified ==
  ASSUME AccountsInv, NamesInv, RowsInv, VerifiedInv, Accounting \/ Following
  PROVE  VerifiedInv'
<1> USE SiteAssumption
<1>1. Kept /\ Verified \subseteq Verified'
  BY StepKeeps, VerifiedKept DEF Next
<1>2. UNCHANGED <<run, subs, pending, targets>>
  BY DEF Accounting, Signup, Signin, Signout, ProfileSave, Following, AuthLink, FeedbackRecord,
         Unsubscribe, Scan, push, pushRun
<1>3. /\ DOMAIN run' \subseteq Verified'
      /\ \A b \in Browsers : subs'[b] # None => subs'[b].user \in Verified'
      /\ \A b \in DOMAIN pending' : pending'[b].user \in Verified'
      /\ \A b \in DOMAIN targets' : targets'[b].user \in Verified'
  BY <1>1, <1>2 DEF VerifiedInv
<1>4. /\ UNCHANGED session => \A b \in Browsers : session'[b] # None => session'[b] \in Verified'
      /\ UNCHANGED verdict => \A p \in Phones : verdict'[p] # None => p \in Verified'
      /\ UNCHANGED inbox => \A l \in inbox' : l.kind = "digest" => l.user \in Verified'
  BY <1>1 DEF VerifiedInv
<1>5. ASSUME NEW p, NEW a, LoginMail(a, p)
      PROVE  \A l \in inbox' : l.kind = "digest" => l.user \in Verified'
  <2> DEFINE link == [to |-> a, kind |-> "login", user |-> p]
  <2>1. link.kind # "digest"
    OBVIOUS
  <2>2. inbox' \subseteq inbox \cup {link}
    BY <1>5 DEF LoginMail
  <2> HIDE DEF link
  <2> QED BY <1>1, <2>1, <2>2 DEF VerifiedInv
<1>6. ASSUME UNCHANGED visited, Accounts' = Accounts,
             \A p \in Accounts : users'[p].verified = users[p].verified
      PROVE  \A p \in Accounts' : users'[p].verified <=> \E l \in visited' : l.user = p
  BY <1>6 DEF VerifiedInv
<1>7. ASSUME NEW p \in Phones, NEW a \in Addresses, NEW text \in Descriptions, Signup(p, a, text)
      PROVE  VerifiedInv'
  <2>1. \A q \in Accounts' : users'[q].verified <=> \E l \in visited' : l.user = q
    <3>1. visited' = visited /\ \A l \in visited : l.user \in Accounts
      BY <1>7 DEF Signup, NamesInv
    <3>2. CASE p \in Accounts
      <4>1. Accounts' = Accounts /\ \A q \in Accounts : users'[q].verified = users[q].verified
        BY <1>7, <3>2, SignupKeeps DEF Accounts
      <4> QED BY <1>6, <3>1, <4>1
    <3>3. CASE p \notin Accounts
      <4>1. /\ Accounts' = Accounts \cup {p} /\ ~users'[p].verified
            /\ \A q \in Accounts : users'[q] = users[q]
        BY <1>7, <3>3, SignupKeeps DEF Accounts
      <4> QED BY <3>1, <3>3, <4>1 DEF VerifiedInv
    <3> QED BY <3>2, <3>3
  <2>2. LoginMail(a, p) /\ UNCHANGED <<session, verdict>>
    BY <1>7 DEF Signup, votes
  <2> QED BY <1>3, <1>4, <1>5, <2>1, <2>2 DEF VerifiedInv
<1>8. ASSUME NEW a \in Addresses, Signin(a) PROVE VerifiedInv'
  <2>1. UNCHANGED <<users, visited, session, verdict>> /\ \E p \in Accounts : LoginMail(a, p)
    BY <1>8 DEF Signin, account, votes
  <2>2. Accounts' = Accounts
    BY <2>1 DEF Accounts
  <2> QED BY <1>3, <1>4, <1>5, <1>6, <2>1, <2>2 DEF VerifiedInv
<1>9. ASSUME NEW b \in Browsers, NEW text \in Descriptions,
             Signout(b) \/ ProfileSave(b, text)
      PROVE  VerifiedInv'
  <2>1. UNCHANGED <<users, visited, verdict, inbox>>
    BY <1>9 DEF Signout, ProfileSave, votes
  <2>2. Accounts' = Accounts
    BY <2>1 DEF Accounts
  <2>3. \A c \in Browsers : session'[c] # None => session'[c] \in Verified'
    BY <1>1, <1>9 DEF Signout, ProfileSave, NamesInv, VerifiedInv
  <2> QED BY <1>3, <1>4, <1>6, <2>1, <2>2, <2>3 DEF VerifiedInv
<1>10. ASSUME NEW l \in inbox, Verify(l), UNCHANGED <<profile, inbox, verdict>>,
              session' = session \/ \E b \in Browsers : session' = [session EXCEPT ![b] = l.user]
       PROVE  VerifiedInv'
  <2>1. /\ Accounts' = Accounts /\ l.user \in Accounts
        /\ \A q \in Phones \ {l.user} : users'[q] = users[q]
        /\ users'[l.user].verified
    BY <1>10, VerifyKeeps
  <2>2. visited' = visited \cup {l}
    BY <1>10 DEF Verify
  <2>3. \A q \in Accounts' : users'[q].verified <=> \E k \in visited' : k.user = q
    BY <2>1, <2>2 DEF VerifiedInv, Accounts
  <2>4. l.user \in Verified'
    BY <2>1 DEF Verified
  <2>5. \A c \in Browsers : session'[c] # None => session'[c] \in Verified'
    BY <1>1, <1>10, <2>4 DEF NamesInv, VerifiedInv
  <2> QED BY <1>3, <1>4, <1>10, <2>3, <2>5 DEF VerifiedInv
<1>11. ASSUME NEW l \in inbox, NEW v \in Verdicts, FeedbackRecord(l, v) PROVE VerifiedInv'
  <2>1. UNCHANGED <<users, visited, session, inbox>> /\ l.kind = "digest"
        /\ verdict' = [verdict EXCEPT ![l.user] = v]
    BY <1>11 DEF FeedbackRecord, account
  <2>2. Accounts' = Accounts
    BY <2>1 DEF Accounts
  <2>3. l.user \in Verified'
    BY <1>1, <2>1 DEF VerifiedInv
  <2>4. \A p \in Phones : verdict'[p] # None => p \in Verified'
    BY <1>1, <2>1, <2>3 DEF NamesInv, VerifiedInv
  <2> QED BY <1>3, <1>4, <1>6, <2>1, <2>2, <2>4 DEF VerifiedInv
<1>12. ASSUME NEW l \in inbox, Unsubscribe(l) PROVE VerifiedInv'
  <2>1. UNCHANGED <<visited, session, verdict, inbox>>
    BY <1>12 DEF Unsubscribe, votes
  <2>2. Accounts' = Accounts /\ \A p \in Accounts : users'[p].verified = users[p].verified
    BY <1>12, UnsubscribeKeeps DEF Accounts
  <2> QED BY <1>3, <1>4, <1>6, <2>1, <2>2 DEF VerifiedInv
<1>13. ASSUME NEW l \in inbox, Scan(l) PROVE VerifiedInv'
  <2>1. CASE Verify(l) /\ UNCHANGED <<profile, session, inbox, votes>>
    BY <1>10, <2>1 DEF votes
  <2>2. CASE UNCHANGED <<account, inbox, votes>>
    <3>1. Accounts' = Accounts
      BY <2>2 DEF account, Accounts
    <3> QED BY <1>3, <1>4, <1>6, <2>2, <3>1 DEF account, votes, VerifiedInv
  <2> QED BY <1>12, <1>13, <2>1, <2>2 DEF Scan, FeedbackConfirm
<1>14. ASSUME NEW l \in inbox, NEW b \in Browsers, AuthLink(l, b) PROVE VerifiedInv'
  BY <1>10, <1>14 DEF AuthLink, votes
<1> QED
  BY <1>7, <1>8, <1>9, <1>11, <1>12, <1>13, <1>14 DEF Accounting, Following

-----------------------------------------------------------------------------
LEMMA InitSiteInv == Init => SiteInv
<1> SUFFICES ASSUME Init PROVE SiteInv
  OBVIOUS
<1> USE SiteAssumption DEF Init
<1>1. Accounts = {}
  BY DEF Accounts
<1>2. AccountsInv /\ NamesInv
  BY <1>1 DEF AccountsInv, NamesInv, NoOne
<1>3. RowsInv
  BY DEF RowsInv, NoRows
<1>4. VerifiedInv
  BY <1>1 DEF VerifiedInv, NoOne, NoRows
<1> QED BY <1>2, <1>3, <1>4 DEF SiteInv

LEMMA StepSiteInv == SiteInv /\ [Next]_siteVars => SiteInv'
<1> SUFFICES ASSUME SiteInv, [Next]_siteVars PROVE SiteInv'
  OBVIOUS
<1>1. NamesInv' /\ RowsInv'
  BY StepNamesInv, StepRowsInv DEF SiteInv
<1>2. CASE Next
  <2>1. AccountsInv'
    BY <1>2, StepKeeps DEF SiteInv, Kept
  <2>2. VerifiedInv'
    BY <1>2, RunsKeepVerified, LinksKeepVerified DEF SiteInv, Next
  <2> QED BY <1>1, <2>1, <2>2 DEF SiteInv
<1>3. CASE UNCHANGED siteVars
  <2>1. AccountsInv'
    BY <1>3 DEF SiteInv, siteVars, account, AccountsInv, Accounts
  <2>2. Verified' = Verified /\ Accounts' = Accounts
    BY <1>3 DEF siteVars, account, Verified, Accounts
  <2>3. VerifiedInv'
    BY <1>3, <2>2 DEF SiteInv, siteVars, account, votes, push, pushRun, VerifiedInv
  <2> QED BY <1>1, <2>1, <2>3 DEF SiteInv
<1> QED BY <1>2, <1>3

LEMMA SiteInvHolds == Spec => []SiteInv
<1> QED BY InitSiteInv, StepSiteInv, PTL DEF Spec

(***************************************************************************)
(* The types of the accounts, the links and the subscriptions: an account  *)
(* has a profile a match can be made of, and whatever a link, a session, a *)
(* run or a row names is an account (web/accounts.py, web/auth.py).        *)
(***************************************************************************)
THEOREM SiteTypeCorrect == Spec => []SiteTypeOK
<1>1. SiteInv => SiteTypeOK
  <2> SUFFICES ASSUME SiteInv PROVE SiteTypeOK
    OBVIOUS
  <2> USE SiteAssumption DEF SiteInv
  <2>1. Accounts \subseteq Phones
    BY DEF Accounts
  <2>2. /\ subs \in [Browsers -> Row \cup {None}] /\ gone \subseteq Browsers
        /\ \A b \in DOMAIN targets : targets[b] \in Row
        /\ \A b \in DOMAIN pending : subs[b] # None /\ pending[b] \in Row
        /\ failures \in 0 .. FailureBound
    BY DEF RowsInv, Sound
  <2>3. session \in [Browsers -> Phones \cup {None}]
    BY <2>1 DEF NamesInv
  <2> QED BY <2>2, <2>3 DEF SiteTypeOK, AccountsInv, NamesInv
<1> QED BY <1>1, SiteInvHolds, PTL

(***************************************************************************)
(* auth.py: the links are all there is in place of a password.  An account *)
(* is verified exactly when a login link of it was visited, and whoever is *)
(* signed in, subscribed to pushes, mailed a digest or on record with a    *)
(* verdict is verified, whatever sign-ups, scans and runs come in between. *)
(***************************************************************************)
THEOREM OnlyTheVerifiedAct == Spec => []OnlyVerifiedActs
<1>1. SiteInv => OnlyVerifiedActs
  BY DEF SiteInv, VerifiedInv, OnlyVerifiedActs, Verified
<1> QED BY <1>1, SiteInvHolds, PTL

(***************************************************************************)
(* push_to_user: a subscription is retired because its endpoint is gone or *)
(* MAX_FAILURES sends in a row failed, and is retired then, though the run *)
(* reads its rows once, people subscribe again and drop subscriptions in   *)
(* between, and a crash rolls the run back.                                *)
(***************************************************************************)
THEOREM RetiredOnlyForCause == Spec => []RetiredForCause
<1>1. SiteInv => RetiredForCause
  BY DEF SiteInv, RowsInv, Sound, RetiredForCause
<1> QED BY <1>1, SiteInvHolds, PTL

-----------------------------------------------------------------------------
(***************************************************************************)
(* What may still reach somebody who has unsubscribed: one digest while    *)
(* the run has the address, one push for each subscription that is         *)
(* selected, as many as there are browsers while the user is to come.      *)
(***************************************************************************)
Unsubscribed == {p \in Accounts : users[p].unsubscribed}
Rung         == IF ringing = Off THEN {} ELSE ringing
Aimed(p)     == {b \in DOMAIN targets : targets[b].user = p}

QuietInv ==
  /\ late \in [Phones -> [mail : Nat, push : Nat]]
  /\ \A b \in DOMAIN targets : targets[b].user \notin Rung
  /\ \A p \in Phones \ Unsubscribed : late[p] = Never
  /\ \A p \in Unsubscribed :
       /\ late[p].mail <= 1
       /\ p \in DOMAIN run => late[p].mail = 0
       /\ late[p].push + Cardinality(Aimed(p)) <= Cardinality(Browsers)
       /\ p \in Rung => late[p].push = 0

LEMMA AimedIsFinite ==
  ASSUME RowsInv, NEW p
  PROVE  /\ IsFiniteSet(Aimed(p)) /\ Cardinality(Aimed(p)) \in Nat
         /\ Cardinality(Aimed(p)) <= Cardinality(Browsers)
         /\ Cardinality(Browsers) \in Nat
<1>1. Aimed(p) \subseteq Browsers /\ IsFiniteSet(Browsers)
  BY SiteAssumption DEF Aimed, RowsInv
<1> QED BY <1>1, FS_Subset, FS_CardinalityType

\* Nobody unsubscribes and no message is sent.
LEMMA NothingNewIsQuiet ==
  ASSUME SiteInv, QuietInv, UNCHANGED <<late, ringing, targets>>,
         Unsubscribed' = Unsubscribed, DOMAIN run' \subseteq DOMAIN run
  PROVE  QuietInv'
BY DEF QuietInv, Aimed, Rung

LEMMA LinksKeepQuiet ==
  ASSUME SiteInv, QuietInv, Accounting \/ Following
  PROVE  QuietInv'
<1> USE SiteAssumption DEF SiteInv
<1>0. UNCHANGED <<run, ringing, targets>>
  BY DEF Accounting, Signup, Signin, Signout, ProfileSave, Following, AuthLink, FeedbackRecord,
         Unsubscribe, Scan, push, pushRun
<1>1. Rung' = Rung /\ \A p : Aimed(p)' = Aimed(p)
  BY <1>0 DEF Rung, Aimed
<1>2. ASSUME UNCHANGED late, Unsubscribed' = Unsubscribed PROVE QuietInv'
  BY <1>0, <1>2, NothingNewIsQuiet
<1>3. ASSUME UNCHANGED <<users, late>> PROVE QuietInv'
  BY <1>2, <1>3 DEF Unsubscribed, Accounts
<1>4. ASSUME NEW p \in Phones, NEW a \in Addresses, NEW text \in Descriptions, Signup(p, a, text)
      PROVE  QuietInv'
  <2>1. Unsubscribed' = Unsubscribed
    BY <1>4, SignupKeeps DEF Unsubscribed, Accounts
  <2> QED BY <1>2, <1>4, <2>1 DEF Signup
<1>5. ASSUME NEW l \in inbox, Verify(l), UNCHANGED profile PROVE QuietInv'
  <2>1. Unsubscribed' = Unsubscribed \ {l.user} /\ l.user \in Phones
    BY <1>5, VerifyKeeps DEF Unsubscribed, Accounts
  <2>2. late' = [late EXCEPT ![l.user] = Never] /\ Never \in [mail : Nat, push : Nat]
    BY <1>5 DEF Verify, Never
  <2> QED BY <1>0, <1>1, <2>1, <2>2 DEF QuietInv
<1>6. ASSUME NEW l \in inbox, Unsubscribe(l) PROVE QuietInv'
  <2>1. Unsubscribed' = Unsubscribed \cup {l.user} /\ late' = late
    BY <1>6, UnsubscribeKeeps DEF Unsubscribed, Accounts, Unsubscribe
  <2>2. \A p \in Phones \ Unsubscribed : late[p].mail = 0 /\ late[p].push = 0
    BY DEF QuietInv, Never
  <2>3. l.user \in Phones
    BY DEF NamesInv, Accounts
  <2>4. \A p : Cardinality(Aimed(p)) \in Nat /\ Cardinality(Aimed(p)) <= Cardinality(Browsers)
    BY AimedIsFinite
  <2>5. \A p \in Unsubscribed' :
          /\ late[p].mail <= 1
          /\ p \in DOMAIN run => late[p].mail = 0
          /\ late[p].push + Cardinality(Aimed(p)) <= Cardinality(Browsers)
          /\ p \in Rung => late[p].push = 0
    <3> SUFFICES ASSUME NEW p \in Unsubscribed'
                 PROVE  /\ late[p].mail <= 1
                        /\ p \in DOMAIN run => late[p].mail = 0
                        /\ late[p].push + Cardinality(Aimed(p)) <= Cardinality(Browsers)
                        /\ p \in Rung => late[p].push = 0
      OBVIOUS
    <3>1. CASE p \in Unsubscribed
      BY <3>1 DEF QuietInv
    <3>2. CASE p \notin Unsubscribed
      <4>1. late[p].mail = 0 /\ late[p].push = 0
        BY <2>1, <2>2, <2>3, <3>2
      <4>2. 0 + Cardinality(Aimed(p)) = Cardinality(Aimed(p))
        BY <2>4
      <4> QED BY <2>4, <4>1, <4>2
    <3> QED BY <3>1, <3>2
  <2> QED BY <1>0, <1>1, <2>1, <2>5 DEF QuietInv
<1>7. CASE Accounting
  <2>1. ASSUME NEW a \in Addresses, Signin(a) PROVE UNCHANGED <<users, late>>
    BY <2>1 DEF Signin, account
  <2>2. ASSUME NEW b \in Browsers, NEW text \in Descriptions, Signout(b) \/ ProfileSave(b, text)
        PROVE  UNCHANGED <<users, late>>
    BY <2>2 DEF Signout, ProfileSave
  <2>3. ASSUME NEW b \in Browsers, Signout(b) PROVE UNCHANGED <<users, late>>
    BY <2>3 DEF Signout
  <2> QED BY <1>3, <1>4, <1>7, <2>1, <2>2, <2>3 DEF Accounting
<1>8. CASE Following
  <2>1. ASSUME NEW l \in inbox, NEW v \in Verdicts, FeedbackRecord(l, v)
        PROVE  UNCHANGED <<users, late>>
    BY <2>1 DEF FeedbackRecord, account
  <2>2. ASSUME NEW l \in inbox, Scan(l) PROVE QuietInv'
    BY <1>3, <1>5, <1>6, <2>2 DEF Scan, account
  <2>3. ASSUME NEW l \in inbox, NEW b \in Browsers, AuthLink(l, b) PROVE QuietInv'
    BY <1>5, <2>3 DEF AuthLink
  <2> QED BY <1>3, <1>6, <1>8, <2>1, <2>2, <2>3 DEF Following
<1> QED BY <1>7, <1>8

\* One message more for p, by the channel that still had one to send.
LEMMA LateCounts ==
  ASSUME SiteInv, QuietInv, NEW p \in Accounts
  PROVE  /\ p \notin Unsubscribed /\ (Late(p, "mail") \/ Late(p, "push")) => late' = late
         /\ p \in Unsubscribed =>
              /\ Late(p, "mail") => late' = [late EXCEPT ![p] = [mail |-> late[p].mail + 1,
                                                                push |-> late[p].push]]
              /\ Late(p, "push") => late' = [late EXCEPT ![p] = [mail |-> late[p].mail,
                                                                push |-> late[p].push + 1]]
<1>1. p \in Phones /\ late[p] \in [mail : Nat, push : Nat]
  BY DEF Accounts, QuietInv
<1>2. /\ [late[p] EXCEPT !["mail"] = @ + 1] = [mail |-> late[p].mail + 1, push |-> late[p].push]
      /\ [late[p] EXCEPT !["push"] = @ + 1] = [mail |-> late[p].mail, push |-> late[p].push + 1]
  BY <1>1
<1> QED
  BY <1>2 DEF Late, Unsubscribed

LEMMA RunsKeepQuiet ==
  ASSUME SiteInv, QuietInv, Digesting \/ Pushing
  PROVE  QuietInv'
<1> USE SiteAssumption DEF SiteInv
<1>1. Unsubscribed' = Unsubscribed
  BY DEF Digesting, DigestStart, DigestSend, DigestSkip, DigestCrash, Pushing, Subscribe,
         PushUnsubscribe, Gone, PushDelivered, PushGone, PushFailed, PushStart, PushUser,
         PushCommit, PushCrash, account, Unsubscribed, Accounts
<1>2. ASSUME UNCHANGED <<late, ringing, targets>>, DOMAIN run' \subseteq DOMAIN run
      PROVE  QuietInv'
  BY <1>1, <1>2, NothingNewIsQuiet
<1>3. ASSUME UNCHANGED <<ringing, targets>> PROVE Rung' = Rung /\ \A p : Aimed(p)' = Aimed(p)
  BY <1>3 DEF Rung, Aimed
<1>4. CASE DigestStart
  <2>1. /\ UNCHANGED <<late, ringing, targets>>
        /\ DOMAIN run' \cap Unsubscribed = {}
    BY <1>4 DEF DigestStart, push, pushRun, Recipients, Unsubscribed
  <2> QED BY <1>1, <1>3, <2>1 DEF QuietInv
<1>5. ASSUME NEW p \in Phones, DigestSend(p) PROVE QuietInv'
  <2>1. /\ p \in DOMAIN run /\ Late(p, "mail") /\ Done(p) /\ UNCHANGED <<ringing, targets>>
    BY <1>5 DEF DigestSend, push, pushRun
  <2>2. p \in Accounts /\ DOMAIN run' = DOMAIN run \ {p}
    BY <2>1 DEF Done, NamesInv
  <2>3. CASE p \notin Unsubscribed
    BY <1>2, <2>1, <2>2, <2>3, LateCounts
  <2>4. CASE p \in Unsubscribed
    <3>1. /\ late' = [late EXCEPT ![p] = [mail |-> late[p].mail + 1, push |-> late[p].push]]
          /\ late[p].mail = 0
      BY <2>1, <2>2, <2>4, LateCounts DEF QuietInv
    <3> QED BY <1>1, <1>3, <2>1, <2>2, <2>4, <3>1 DEF QuietInv
  <2> QED BY <2>3, <2>4
<1>6. ASSUME NEW p \in Phones, DigestSkip(p) PROVE QuietInv'
  BY <1>2, <1>6 DEF DigestSkip, Done, push, pushRun
<1>7. CASE DigestCrash
  BY <1>2, <1>7 DEF DigestCrash, NoOne, push, pushRun
<1>8. ASSUME NEW b \in Browsers, Subscribe(b) \/ PushUnsubscribe(b) \/ Gone(b) PROVE QuietInv'
  BY <1>2, <1>8 DEF Subscribe, PushUnsubscribe, Gone, pushRun
<1>9. CASE PushStart
  <2>1. /\ ringing = Off /\ UNCHANGED <<late, run, targets>>
        /\ \E some \in SUBSET {p \in Accounts : ~users[p].unsubscribed} \ {{}} : ringing' = some
    BY <1>9 DEF PushStart
  <2>2. Rung' \cap Unsubscribed = {} /\ targets = NoRows
    BY <2>1 DEF Rung, Unsubscribed, RowsInv
  <2>3. \A p : Aimed(p)' = Aimed(p)
    BY <2>1 DEF Aimed
  <2> QED BY <1>1, <2>1, <2>2, <2>3 DEF QuietInv, NoRows
<1>10. ASSUME NEW p \in Phones, PushUser(p) PROVE QuietInv'
  <2>1. /\ ringing # Off /\ p \in ringing /\ ringing' = ringing \ {p} /\ targets = NoRows
        /\ targets' = [b \in {b \in Browsers : /\ Current(b) # None
                                               /\ Current(b).user = p
                                               /\ ~Current(b).retired} |-> Current(b)]
        /\ UNCHANGED <<late, run>>
    BY <1>10 DEF PushUser
  <2>2. p \in Rung /\ Rung' \subseteq Rung \ {p}
    BY <2>1 DEF Rung
  <2>3. \A b \in DOMAIN targets' : targets'[b].user = p
    BY <2>1
  <2>4. RowsInv'
    BY <1>10, StepRowsInv DEF Next, Pushing
  <2>5. /\ Cardinality(Aimed(p)') \in Nat /\ Cardinality(Aimed(p)') <= Cardinality(Browsers)
    <3>1. Aimed(p)' \subseteq Browsers
      BY <2>4 DEF Aimed, RowsInv
    <3> QED BY <3>1, FS_Subset, FS_CardinalityType
  <2>6. \A q \in Phones \ {p} : Aimed(q)' = Aimed(q)
    BY <2>1, <2>3 DEF Aimed, NoRows
  <2>7. \A q \in Unsubscribed : late[q].push + Cardinality(Aimed(q)') <= Cardinality(Browsers)
    <3>1. p \in Unsubscribed => late[p].push = 0
      BY <2>2 DEF QuietInv
    <3>2. Unsubscribed \subseteq Phones
      BY DEF Unsubscribed, Accounts
    <3> QED BY <2>5, <2>6, <3>1, <3>2 DEF QuietInv
  <2> QED BY <1>1, <2>1, <2>2, <2>3, <2>7 DEF QuietInv
<1>11. ASSUME NEW b \in DOMAIN targets, Sent(b), UNCHANGED <<run, ringing>>,
              UNCHANGED late \/ Late(targets[b].user, "push")
       PROVE  QuietInv'
  <2>0. PICK p : p = targets[b].user
    OBVIOUS
  <2>1. p \in Accounts /\ p \in Phones
    BY <2>0 DEF VerifiedInv, Verified, Accounts
  <2>2. \A q : Aimed(q)' = IF q = p THEN Aimed(q) \ {b} ELSE Aimed(q)
    BY <1>11, <2>0 DEF Sent, Aimed
  <2>3. /\ b \in Aimed(p) /\ Cardinality(Aimed(p)) \in Nat
        /\ Cardinality(Aimed(p)') = Cardinality(Aimed(p)) - 1
    <3>1. b \in Aimed(p) /\ Aimed(p)' = Aimed(p) \ {b}
      BY <2>0, <2>2 DEF Aimed
    <3>2. IsFiniteSet(Aimed(p)) /\ Cardinality(Aimed(p)) \in Nat
      BY AimedIsFinite
    <3>3. Cardinality(Aimed(p) \ {b}) = Cardinality(Aimed(p)) - 1
      BY <3>1, <3>2, FS_RemoveElement
    <3> QED BY <3>1, <3>2, <3>3
  <2>4. /\ Rung' = Rung /\ p \notin Rung
        /\ \A c \in DOMAIN targets' : targets'[c].user \notin Rung
    BY <1>11, <2>0 DEF Rung, Sent, QuietInv
  <2>5. CASE p \notin Unsubscribed \/ UNCHANGED late
    <3>1. late' = late
      BY <1>11, <2>0, <2>1, <2>5, LateCounts
    <3>2. \A q \in Unsubscribed : late[q].push + Cardinality(Aimed(q)') <= Cardinality(Browsers)
      <4>1. \A q : Cardinality(Aimed(q)') <= Cardinality(Aimed(q)) /\ Cardinality(Aimed(q)') \in Nat
        <5>1. Cardinality(Aimed(p)) - 1 \in Nat
          <6>1. Cardinality(Aimed(p)) # 0
            BY <2>3, AimedIsFinite, FS_EmptySet
          <6> QED BY <2>3, <6>1
        <5> QED BY <2>2, <2>3, <5>1, AimedIsFinite
      <4>2. \A q \in Unsubscribed : late[q].push \in Nat
        BY DEF QuietInv, Unsubscribed, Accounts
      <4> QED BY <4>1, <4>2, AimedIsFinite DEF QuietInv
    <3> QED BY <1>1, <1>11, <2>4, <3>1, <3>2 DEF QuietInv
  <2>6. CASE p \in Unsubscribed /\ Late(p, "push")
    <3>1. late' = [late EXCEPT ![p] = [mail |-> late[p].mail, push |-> late[p].push + 1]]
      BY <2>1, <2>6, LateCounts
    <3>2. /\ late[p].push \in Nat /\ late[p].mail \in Nat
          /\ late \in [Phones -> [mail : Nat, push : Nat]]
      BY <2>1 DEF QuietInv
    <3>3. late' \in [Phones -> [mail : Nat, push : Nat]]
      BY <2>1, <3>1, <3>2
    <3>4. late'[p].push = late[p].push + 1 /\ late'[p].mail = late[p].mail
      BY <2>1, <3>1, <3>2
    <3>5. \A q \in Phones \ {p} : late'[q] = late[q]
      BY <3>1, <3>2
    <3>6. late'[p].push + Cardinality(Aimed(p)') <= Cardinality(Browsers)
      BY <2>3, <2>6, <3>2, <3>4, AimedIsFinite DEF QuietInv
    <3>7. \A q \in Unsubscribed \ {p} : Aimed(q)' = Aimed(q)
      BY <2>2
    <3>8. Unsubscribed \subseteq Phones
      BY DEF Unsubscribed, Accounts
    <3> QED BY <1>1, <1>11, <2>4, <2>6, <3>3, <3>4, <3>5, <3>6, <3>7, <3>8 DEF QuietInv
  <2> QED BY <1>11, <2>0, <2>5, <2>6
<1>12. ASSUME NEW b \in Browsers, PushDelivered(b) \/ PushGone(b) \/ PushFailed(b) PROVE QuietInv'
  BY <1>11, <1>12 DEF PushDelivered, PushGone, PushFailed
<1>13. CASE PushCommit \/ PushCrash
  <2>1. /\ UNCHANGED <<late, run>> /\ targets' = NoRows /\ Rung' = {}
    BY <1>13 DEF PushCommit, PushCrash, Rung
  <2>2. \A p : Aimed(p)' = {} /\ Cardinality(Aimed(p)') = 0
    BY <2>1, FS_EmptySet DEF Aimed, NoRows
  <2>3. \A p \in Unsubscribed : late[p].push + Cardinality(Aimed(p)') <= Cardinality(Browsers)
    <3>1. \A p \in Unsubscribed : late[p].push \in Nat
      BY DEF QuietInv, Unsubscribed, Accounts
    <3> QED BY <2>2, <3>1, AimedIsFinite DEF QuietInv
  <2> QED BY <1>1, <2>1, <2>3 DEF QuietInv, NoRows
<1> QED
  BY <1>4, <1>5, <1>6, <1>7, <1>8, <1>9, <1>10, <1>12, <1>13 DEF Digesting, Pushing

LEMMA QuietInvHolds == Spec => []QuietInv
<1>1. Init => QuietInv
  BY FS_CardinalityType, FS_EmptySet, SiteAssumption
     DEF Init, QuietInv, Unsubscribed, Accounts, Never, NoRows, Rung
<1>2. QuietInv /\ SiteInv /\ [Next]_siteVars => QuietInv'
  <2>1. ASSUME QuietInv, UNCHANGED siteVars PROVE QuietInv'
    BY <2>1 DEF siteVars, account, push, pushRun, QuietInv, Unsubscribed, Accounts, Aimed, Rung
  <2> QED BY <2>1, LinksKeepQuiet, RunsKeepQuiet DEF Next
<1> QED BY <1>1, <1>2, SiteInvHolds, PTL DEF Spec

(***************************************************************************)
(* send_all and push_urgent_matches read their users once: whoever         *)
(* unsubscribes meanwhile gets at most one digest more, and one push in    *)
(* each browser, until a login link of the account is visited again.       *)
(***************************************************************************)
THEOREM UnsubscribingSilences == Spec => []SilentAfterUnsubscribing
<1>1. SiteInv /\ QuietInv => SilentAfterUnsubscribing
  <2> SUFFICES ASSUME SiteInv, QuietInv, NEW p \in Phones
               PROVE  late[p].mail <= 1 /\ late[p].push <= Cardinality(Browsers)
    BY DEF SilentAfterUnsubscribing
  <2>1. Cardinality(Browsers) \in Nat /\ Cardinality(Aimed(p)) \in Nat
    BY AimedIsFinite DEF SiteInv
  <2>2. late[p].push \in Nat
    BY DEF QuietInv
  <2> QED BY <2>1, <2>2 DEF QuietInv, Never
<1> QED BY <1>1, SiteInvHolds, QuietInvHolds, PTL

(***************************************************************************)
(* app.feedback_confirm: mail scanners must not vote.  The verdict on      *)
(* record is the one a person posted last, whoever visited the links of    *)
(* the digest in between.                                                  *)
(***************************************************************************)
THEOREM ScannersNeverVote == Spec => []VerdictIsAPersons
<1>1. Init => VerdictIsAPersons
  BY DEF Init, VerdictIsAPersons
<1>2. VerdictIsAPersons /\ [Next]_siteVars => VerdictIsAPersons'
  <2> SUFFICES ASSUME VerdictIsAPersons, [Next]_siteVars PROVE VerdictIsAPersons'
    OBVIOUS
  <2>1. CASE UNCHANGED votes
    BY <2>1 DEF votes, VerdictIsAPersons
  <2>2. ASSUME NEW l \in inbox, NEW v \in Verdicts, FeedbackRecord(l, v)
        PROVE  VerdictIsAPersons'
    BY <2>2 DEF FeedbackRecord, VerdictIsAPersons
  <2>3. Accounting \/ Digesting \/ Pushing \/ UNCHANGED siteVars => UNCHANGED votes
    BY DEF Accounting, Signup, Signin, Signout, ProfileSave, Digesting, DigestStart, DigestSend,
           DigestSkip, DigestCrash, Pushing, Subscribe, PushUnsubscribe, Gone, PushDelivered,
           PushGone, PushFailed, PushStart, PushUser, PushCommit, PushCrash, siteVars
  <2>4. ASSUME NEW l \in inbox, Unsubscribe(l) \/ Scan(l) \/ \E b \in Browsers : AuthLink(l, b)
        PROVE  UNCHANGED votes
    BY <2>4 DEF Unsubscribe, Scan, FeedbackConfirm, AuthLink
  <2> QED BY <2>1, <2>2, <2>3, <2>4 DEF Next, Following
<1> QED BY <1>1, <1>2, PTL DEF Spec
=============================================================================
