------------------------- MODULE AlertDigest_proofs -------------------------
(***************************************************************************)
(* Theorems about AlertDigest: what a message, its alert and the processes *)
(* that write both have to do with each other, for any tenders, any number *)
(* of processes and any number of failures; and that nothing is told twice *)
(* while nothing is cut short.                                             *)
(***************************************************************************)
EXTENDS AlertDigest, TLAPS

(***************************************************************************)
(* A digest past its send is in the mail; a push past its send is on the   *)
(* phone.                                                                  *)
(***************************************************************************)
InFlight ==
  /\ \A s \in Senders : pc[s] = "sent" => \E m \in mail : m.alert = alert[s]
  /\ ringing => \E n \in pushed : n.counts = pushing

AlertInv ==
  AlertTypeOK /\ NoMailWithoutAlert /\ SentWasReceived /\ OwnAlert /\ InFlight

(***************************************************************************)
(* What appending an alert leaves alone.                                   *)
(***************************************************************************)
LEMMA Appended ==
  ASSUME NEW a \in Seq(Alert), NEW x \in Alert
  PROVE  /\ Append(a, x) \in Seq(Alert)
         /\ Len(Append(a, x)) = Len(a) + 1
         /\ Append(a, x)[Len(a) + 1] = x
         /\ \A i \in 1 .. Len(a) : Append(a, x)[i] = a[i] /\ i \in 1 .. Len(Append(a, x))
         /\ Len(a) \in Nat
OBVIOUS

(***************************************************************************)
(* What MarkSent and MarkFailed write.                                     *)
(***************************************************************************)
LEMMA Marked ==
  ASSUME NEW a \in Seq(Alert), NEW k \in 1 .. Len(a), NEW v \in Alert,
         v.channel = a[k].channel, v.tenders = a[k].tenders,
         NEW b, b = [a EXCEPT ![k] = v]
  PROVE  /\ b \in Seq(Alert)
         /\ Len(b) = Len(a)
         /\ b[k] = v
         /\ \A i \in 1 .. Len(a) :
              /\ b[i].channel = a[i].channel
              /\ b[i].tenders = a[i].tenders
              /\ i # k => b[i] = a[i]
OBVIOUS

LEMMA SentMark ==
  ASSUME NEW a \in Seq(Alert), NEW k \in 1 .. Len(a)
  PROVE  /\ [a[k] EXCEPT !.sent = TRUE] \in Alert
         /\ [a[k] EXCEPT !.sent = TRUE].channel = a[k].channel
         /\ [a[k] EXCEPT !.sent = TRUE].tenders = a[k].tenders
         /\ [a EXCEPT ![k].sent = TRUE] = [a EXCEPT ![k] = [a[k] EXCEPT !.sent = TRUE]]
         /\ [a[k] EXCEPT !.error = TRUE] \in Alert
         /\ [a[k] EXCEPT !.error = TRUE].channel = a[k].channel
         /\ [a[k] EXCEPT !.error = TRUE].tenders = a[k].tenders
         /\ [a[k] EXCEPT !.error = TRUE].sent = a[k].sent
         /\ [a EXCEPT ![k].error = TRUE] = [a EXCEPT ![k] = [a[k] EXCEPT !.error = TRUE]]
<1>1. a[k] \in Alert
  OBVIOUS
<1>2. /\ [a[k] EXCEPT !.sent = TRUE] \in Alert
      /\ [a[k] EXCEPT !.error = TRUE] \in Alert
      /\ [a[k] EXCEPT !.sent = TRUE].channel = a[k].channel
      /\ [a[k] EXCEPT !.sent = TRUE].tenders = a[k].tenders
      /\ [a[k] EXCEPT !.error = TRUE].channel = a[k].channel
      /\ [a[k] EXCEPT !.error = TRUE].tenders = a[k].tenders
      /\ [a[k] EXCEPT !.error = TRUE].sent = a[k].sent
  BY <1>1 DEF Alert
<1>3. QED BY <1>2

LEMMA InitAlertInv == Init => AlertInv
<1> SUFFICES ASSUME Init PROVE AlertInv
  OBVIOUS
<1>1. alerts \in Seq(Alert) /\ Len(alerts) = 0
  BY DEF Init
<1>2. AlertTypeOK
  <2>1. ringing \in BOOLEAN /\ (ringing => pushing # {})
    BY Zenon DEF Init
  <2>2. matches \subseteq Tenders /\ closing \in [Tenders -> {"later", "soon", "closed"}]
    BY DEF Init
  <2>3. mail \subseteq [alert : Nat, tenders : SUBSET Tenders]
    BY DEF Init
  <2>4. pushed \subseteq [counts : SUBSET Tenders, names : Tenders]
    BY DEF Init
  <2>5. pc \in [Senders -> Steps] /\ built \in [Senders -> SUBSET Tenders]
    BY DEF Init, Steps
  <2>6. /\ alert \in [Senders -> Nat]
        /\ \A s \in Senders : pc[s] \in {"recorded", "sent", "failed"} <=> alert[s] # 0
    BY DEF Init
  <2>7. pushing \subseteq Tenders /\ refusals \in 0 .. MaxRefusals /\ crashes \in 0 .. MaxCrashes
    BY DigestAssumption DEF Init
  <2>8. QED BY <1>1, <2>1, <2>2, <2>3, <2>4, <2>5, <2>6, <2>7 DEF AlertTypeOK
<1>3. NoMailWithoutAlert /\ SentWasReceived /\ OwnAlert /\ InFlight
  BY <1>1 DEF Init, NoMailWithoutAlert, SentWasReceived, OwnAlert, InFlight
<1>4. QED BY <1>2, <1>3 DEF AlertInv

(***************************************************************************)
(* Steps that touch neither the alerts nor the digests past their building *)
(* nor what is under way on the phone.                                     *)
(***************************************************************************)
LEMMA SourceStep ==
  ASSUME AlertInv, NEW t \in Tenders, Match(t) \/ Near(t)
  PROVE  AlertInv'
<1>2. UNCHANGED <<alerts, mail, pushed, pc, built, alert, pushing, ringing, refusals, crashes>>
  BY DEF Match, Near, digesting, push, budget
<1>1. AlertTypeOK'
  <2>1. matches' \subseteq Tenders /\ closing' \in [Tenders -> {"later", "soon", "closed"}]
    BY DEF AlertInv, AlertTypeOK, Match, Near
  <2>2. QED BY <1>2, <2>1 DEF AlertInv, AlertTypeOK
<1>3. QED
  BY <1>1, <1>2
     DEF AlertInv, NoMailWithoutAlert, SentWasReceived, OwnAlert, InFlight, EmailAlert

LEMMA BuildStep ==
  ASSUME AlertInv, NEW s \in Senders, Build(s)
  PROVE  AlertInv'
<1> USE DEF Build, Goto
<1>1. AlertTypeOK'
  BY DEF AlertInv, AlertTypeOK, Unsent, Steps, source, push, budget
<1>2. NoMailWithoutAlert' /\ SentWasReceived'
  BY DEF AlertInv, NoMailWithoutAlert, SentWasReceived
<1>3. OwnAlert'
  BY DEF AlertInv, AlertTypeOK, OwnAlert, EmailAlert
<1>4. InFlight'
  BY DEF AlertInv, AlertTypeOK, InFlight, push
<1>5. QED BY <1>1, <1>2, <1>3, <1>4 DEF AlertInv

LEMMA RecordStep ==
  ASSUME AlertInv, NEW s \in Senders, Record(s)
  PROVE  AlertInv'
<1> USE DEF Record, Goto
<1>1. EmailAlert(s) \in Alert /\ alerts \in Seq(Alert)
  BY DEF AlertInv, AlertTypeOK, EmailAlert, Alert
<1>2. /\ alerts' \in Seq(Alert)
      /\ Len(alerts') = Len(alerts) + 1
      /\ alerts'[Len(alerts) + 1] = EmailAlert(s)
      /\ \A i \in 1 .. Len(alerts) : alerts'[i] = alerts[i]
      /\ Len(alerts) \in Nat
  BY <1>1, Appended
<1>3. AlertTypeOK'
  BY <1>2 DEF AlertInv, AlertTypeOK, Steps, source, push, budget
<1>4. NoMailWithoutAlert'
  BY <1>2 DEF AlertInv, NoMailWithoutAlert
<1>5. SentWasReceived'
  BY <1>2 DEF AlertInv, SentWasReceived, EmailAlert
<1>6. OwnAlert'
  <2>1. alert' = [alert EXCEPT ![s] = Len(alerts) + 1] /\ alert \in [Senders -> Nat]
    BY <1>2 DEF AlertInv, AlertTypeOK
  <2>2. \A r \in Senders : EmailAlert(r)' = EmailAlert(r)
    BY DEF EmailAlert
  <2>3. QED
    BY <1>2, <2>1, <2>2 DEF AlertInv, OwnAlert
<1>7. InFlight'
  BY DEF AlertInv, AlertTypeOK, InFlight, push
<1>8. QED BY <1>3, <1>4, <1>5, <1>6, <1>7 DEF AlertInv

LEMMA SendStep ==
  ASSUME AlertInv, NEW s \in Senders, Send(s) \/ SendUnclear(s)
  PROVE  AlertInv'
<1>1. /\ pc[s] = "recorded"
      /\ pc' = [pc EXCEPT ![s] = "sent"] \/ pc' = [pc EXCEPT ![s] = "failed"]
      /\ Deliver(s)
      /\ UNCHANGED <<source, alerts, pushed, built, alert, push>>
      /\ refusals' = refusals
      /\ crashes' \in 0 .. MaxCrashes
  BY DigestAssumption
     DEF Send, SendUnclear, Goto, Failure, budget, AlertInv, AlertTypeOK
<1>2. alert[s] # 0 /\ alert[s] \in 1 .. Len(alerts) /\ alerts[alert[s]] = EmailAlert(s)
  BY <1>1 DEF AlertInv, AlertTypeOK, OwnAlert
<1>3. AlertTypeOK'
  <2>1. [alert |-> alert[s], tenders |-> built[s]] \in [alert : Nat, tenders : SUBSET Tenders]
    BY DEF AlertInv, AlertTypeOK
  <2>2. mail' \subseteq [alert : Nat, tenders : SUBSET Tenders]
    BY <1>1, <2>1 DEF AlertInv, AlertTypeOK, Deliver
  <2>3. /\ pc' \in [Senders -> Steps]
        /\ \A r \in Senders : pc'[r] \in {"recorded", "sent", "failed"} <=> alert[r] # 0
    BY <1>1, <1>2 DEF AlertInv, AlertTypeOK, Steps
  <2>4. QED BY <1>1, <2>2, <2>3 DEF AlertInv, AlertTypeOK, source, push
<1>4. NoMailWithoutAlert'
  BY <1>1, <1>2 DEF AlertInv, NoMailWithoutAlert, Deliver, EmailAlert
<1>5. SentWasReceived'
  BY <1>1 DEF AlertInv, SentWasReceived, Deliver
<1>6. OwnAlert'
  BY <1>1 DEF AlertInv, OwnAlert, EmailAlert
<1>7. InFlight'
  <2> DEFINE new == [alert |-> alert[s], tenders |-> built[s]]
  <2>0. new \in mail' /\ new.alert = alert'[s]
    BY <1>1 DEF Deliver
  <2>1. \E m \in mail' : m.alert = alert'[s]
    BY <2>0
  <2>2. QED
    BY <1>1, <2>1 DEF AlertInv, AlertTypeOK, InFlight, Deliver, push
<1>8. QED BY <1>3, <1>4, <1>5, <1>6, <1>7 DEF AlertInv

LEMMA RefusedStep ==
  ASSUME AlertInv, NEW s \in Senders, SendRefused(s)
  PROVE  AlertInv'
<1> USE DEF SendRefused, Goto, Refusal
<1>1. AlertTypeOK'
  BY DigestAssumption DEF AlertInv, AlertTypeOK, Steps, source, push
<1>2. NoMailWithoutAlert' /\ SentWasReceived' /\ OwnAlert'
  BY DEF AlertInv, NoMailWithoutAlert, SentWasReceived, OwnAlert, EmailAlert
<1>3. InFlight'
  BY DEF AlertInv, AlertTypeOK, InFlight, push
<1>4. QED BY <1>1, <1>2, <1>3 DEF AlertInv


(***************************************************************************)
(* Closing an alert, as sent or as failed: only the process's own row.     *)
(***************************************************************************)
LEMMA MarkStep ==
  ASSUME AlertInv, NEW s \in Senders, MarkSent(s) \/ MarkFailed(s)
  PROVE  AlertInv'
<1> DEFINE k == alert[s]
<1>1. /\ pc[s] \in {"sent", "failed"}
      /\ pc' = [pc EXCEPT ![s] = "idle"]
      /\ Forget(s)
      /\ UNCHANGED <<source, mail, pushed, push, budget>>
  BY DEF MarkSent, MarkFailed, Goto
<1>2. k \in 1 .. Len(alerts) /\ k # 0 /\ alerts \in Seq(Alert)
  BY <1>1 DEF AlertInv, AlertTypeOK, OwnAlert
<1>3. \E v \in Alert :
        /\ alerts' = [alerts EXCEPT ![k] = v]
        /\ v.channel = alerts[k].channel
        /\ v.tenders = alerts[k].tenders
        /\ v.sent => pc[s] = "sent" \/ alerts[k].sent
  <2>1. CASE MarkSent(s)
    <3>1. pc[s] = "sent" /\ alerts' = [alerts EXCEPT ![k].sent = TRUE]
      BY <2>1 DEF MarkSent, Goto
    <3>2. [alerts[k] EXCEPT !.sent = TRUE] \in Alert
      BY <1>2, SentMark
    <3>3. QED BY <3>1, <3>2, <1>2, SentMark
  <2>2. CASE MarkFailed(s)
    <3>1. alerts' = [alerts EXCEPT ![k].error = TRUE]
      BY <2>2 DEF MarkFailed
    <3>2. [alerts[k] EXCEPT !.error = TRUE] \in Alert
      BY <1>2, SentMark
    <3>3. QED BY <3>1, <3>2, <1>2, SentMark
  <2>3. QED BY <2>1, <2>2
<1>4. PICK v \in Alert :
        /\ alerts' = [alerts EXCEPT ![k] = v]
        /\ v.channel = alerts[k].channel
        /\ v.tenders = alerts[k].tenders
        /\ v.sent => pc[s] = "sent" \/ alerts[k].sent
  BY <1>3
<1>5. /\ alerts' \in Seq(Alert)
      /\ Len(alerts') = Len(alerts)
      /\ alerts'[k] = v
      /\ \A i \in 1 .. Len(alerts) :
           /\ alerts'[i].channel = alerts[i].channel
           /\ alerts'[i].tenders = alerts[i].tenders
           /\ i # k => alerts'[i] = alerts[i]
  BY <1>2, <1>4, Marked
<1>6. AlertTypeOK'
  BY <1>1, <1>5 DEF AlertInv, AlertTypeOK, Steps, Forget, source, push, budget
<1>7. NoMailWithoutAlert'
  BY <1>1, <1>5 DEF AlertInv, NoMailWithoutAlert
<1>8. SentWasReceived'
  <2> SUFFICES ASSUME NEW i \in 1 .. Len(alerts), alerts'[i].sent
               PROVE  \/ \E m \in mail : m.alert = i
                      \/ \E n \in pushed : n.counts = alerts[i].tenders
    BY <1>1, <1>5 DEF SentWasReceived
  <2>1. CASE i # k \/ alerts[i].sent
    BY <2>1, <1>5 DEF AlertInv, SentWasReceived
  <2>2. CASE i = k /\ pc[s] = "sent"
    BY <2>2 DEF AlertInv, InFlight
  <2>3. QED BY <2>1, <2>2, <1>4, <1>5
<1>9. OwnAlert'
  <2>1. /\ alert' = [alert EXCEPT ![s] = 0]
        /\ built' = [built EXCEPT ![s] = {}]
        /\ alert \in [Senders -> Nat] /\ built \in [Senders -> SUBSET Tenders]
    BY <1>1 DEF Forget, AlertInv, AlertTypeOK
  <2> SUFFICES ASSUME NEW r \in Senders, alert'[r] # 0
               PROVE  /\ alert'[r] <= Len(alerts')
                      /\ alerts'[alert'[r]] = EmailAlert(r)'
                      /\ \A q \in Senders \ {r} : alert'[q] # alert'[r]
    BY DEF OwnAlert
  <2>2. r # s /\ alert'[r] = alert[r] /\ EmailAlert(r)' = EmailAlert(r)
    BY <2>1 DEF EmailAlert
  <2>3. /\ alert[r] <= Len(alerts) /\ alerts[alert[r]] = EmailAlert(r)
        /\ \A q \in Senders \ {r} : alert[q] # alert[r]
    BY <2>2 DEF AlertInv, OwnAlert
  <2>4. alert[r] # k /\ alert[r] \in 1 .. Len(alerts)
    BY <2>1, <2>2, <2>3, <1>2
  <2>5. QED BY <2>1, <2>2, <2>3, <2>4, <1>5
<1>10. InFlight'
  BY <1>1 DEF AlertInv, AlertTypeOK, InFlight, Forget, push
<1>11. QED BY <1>6, <1>7, <1>8, <1>9, <1>10 DEF AlertInv

LEMMA CrashStep ==
  ASSUME AlertInv, NEW s \in Senders, Crash(s)
  PROVE  AlertInv'
<1> USE DEF Crash, Failure, Forget
<1>1. AlertTypeOK'
  BY DigestAssumption DEF AlertInv, AlertTypeOK, Steps, source, push
<1>2. NoMailWithoutAlert' /\ SentWasReceived'
  BY DEF AlertInv, NoMailWithoutAlert, SentWasReceived
<1>3. OwnAlert'
  <2>1. \A r \in Senders : r # s => EmailAlert(r)' = EmailAlert(r)
    BY DEF AlertInv, AlertTypeOK, EmailAlert
  <2>2. QED BY <2>1 DEF AlertInv, AlertTypeOK, OwnAlert
<1>4. InFlight'
  BY DEF AlertInv, AlertTypeOK, InFlight, push
<1>5. QED BY <1>1, <1>2, <1>3, <1>4 DEF AlertInv

LEMMA PushKeepsInv ==
  ASSUME AlertInv, PushStep \/ PushFails \/ PushCrash
  PROVE  AlertInv'
<1>1. UNCHANGED <<matches, closing, mail, pc, built, alert>>
  BY DEF PushStep, PushSelect, PushSend, PushCommit, PushFails, PushCrash, source, digesting
<1>2. CASE PushSelect \/ PushFails \/ PushCrash
  <2>1. /\ UNCHANGED <<alerts, pushed>>
        /\ pushing' \subseteq Tenders
        /\ ringing' = FALSE \/ (ringing' = ringing /\ pushing = {} /\ pushing' # {})
        /\ refusals' \in 0 .. MaxRefusals /\ crashes' \in 0 .. MaxCrashes
    BY <1>2, DigestAssumption
       DEF PushSelect, PushFails, PushCrash, Urgent, Refusal, Failure, budget, AlertInv, AlertTypeOK
  <2>2. ringing' = FALSE
    BY <2>1, Zenon DEF AlertInv, AlertTypeOK
  <2>3. AlertTypeOK'
    BY <1>1, <2>1, <2>2 DEF AlertInv, AlertTypeOK
  <2>4. NoMailWithoutAlert' /\ SentWasReceived'
    BY <1>1, <2>1 DEF AlertInv, NoMailWithoutAlert, SentWasReceived
  <2>5. OwnAlert'
    BY <1>1, <2>1 DEF AlertInv, OwnAlert, EmailAlert
  <2>6. InFlight'
    BY <1>1, <2>1, <2>2 DEF AlertInv, InFlight
  <2>7. QED BY <2>3, <2>4, <2>5, <2>6 DEF AlertInv
<1>3. CASE PushSend
  <2>1. PICK top \in pushing : pushed' = pushed \cup {[counts |-> pushing, names |-> top]}
    BY <1>3 DEF PushSend
  <2>2. /\ pushed \subseteq pushed'
        /\ [counts |-> pushing, names |-> top] \in pushed'
        /\ pushed' \subseteq [counts : SUBSET Tenders, names : Tenders]
    BY <2>1 DEF AlertInv, AlertTypeOK
  <2>3. \E n \in pushed' : n.counts = pushing
    BY <2>2
  <2>4. UNCHANGED <<alerts, pushing, refusals, crashes>> /\ ringing' = TRUE /\ pushing # {}
    BY <1>3 DEF PushSend, budget
  <2>5. QED
    BY <1>1, <2>2, <2>3, <2>4
       DEF AlertInv, AlertTypeOK, NoMailWithoutAlert, SentWasReceived, OwnAlert, EmailAlert, InFlight
<1>4. CASE PushCommit
  <2> DEFINE new == [channel |-> "push", tenders |-> pushing, sent |-> TRUE, error |-> FALSE]
  <2>1. new \in Alert /\ alerts \in Seq(Alert)
    BY DEF AlertInv, AlertTypeOK, Alert
  <2>2. /\ ringing /\ alerts' = Append(alerts, new)
        /\ pushing' = {} /\ ringing' = FALSE
        /\ UNCHANGED <<pushed, refusals, crashes>>
    BY <1>4 DEF PushCommit, budget
  <2>3. /\ alerts' \in Seq(Alert)
        /\ Len(alerts') = Len(alerts) + 1
        /\ alerts'[Len(alerts) + 1] = new
        /\ \A i \in 1 .. Len(alerts) : alerts'[i] = alerts[i]
        /\ Len(alerts) \in Nat
    BY <2>1, <2>2, Appended
  <2>4. \E n \in pushed : n.counts = new.tenders
    BY <2>2 DEF AlertInv, InFlight
  <2>5. AlertTypeOK' /\ InFlight'
    BY <1>1, <2>2, <2>3 DEF AlertInv, AlertTypeOK, InFlight
  <2>6. NoMailWithoutAlert'
    BY <1>1, <2>3 DEF AlertInv, NoMailWithoutAlert
  <2>7. \A s \in Senders : alert[s] # 0 => alert[s] \in 1 .. Len(alerts)
    BY <2>3 DEF AlertInv, AlertTypeOK, OwnAlert
  <2>8. \A s \in Senders : EmailAlert(s)' = EmailAlert(s) /\ alert'[s] = alert[s]
    BY <1>1 DEF EmailAlert
  <2>9. OwnAlert'
    BY <1>1, <2>3, <2>7, <2>8 DEF AlertInv, OwnAlert
  <2>10. SentWasReceived'
    BY <1>1, <2>2, <2>3, <2>4 DEF AlertInv, SentWasReceived
  <2>11. QED BY <2>5, <2>6, <2>9, <2>10 DEF AlertInv
<1>5. QED BY <1>2, <1>3, <1>4 DEF PushStep

LEMMA NextAlertInv == AlertInv /\ [Next]_alertVars => AlertInv'
<1> SUFFICES ASSUME AlertInv, [Next]_alertVars PROVE AlertInv'
  OBVIOUS
<1>1. CASE UNCHANGED alertVars
  BY <1>1
     DEF AlertInv, AlertTypeOK, NoMailWithoutAlert, SentWasReceived, OwnAlert, EmailAlert,
         InFlight, alertVars, source, digesting, push, budget
<1>2. CASE \E t \in Tenders : Match(t) \/ Near(t)
  BY <1>2, SourceStep
<1>3. ASSUME NEW s \in Senders,
             DigestStep(s) \/ SendRefused(s) \/ SendUnclear(s) \/ Crash(s)
      PROVE  AlertInv'
  BY <1>3, BuildStep, RecordStep, SendStep, RefusedStep, MarkStep, CrashStep DEF DigestStep
<1>4. CASE PushStep \/ PushFails \/ PushCrash
  BY <1>4, PushKeepsInv
<1>5. QED BY <1>1, <1>2, <1>3, <1>4 DEF Next

(***************************************************************************)
(* The inductive invariant: the invariants the runs check, and what a step *)
(* between a delivery and its mark relies on.                              *)
(***************************************************************************)
THEOREM AlertInvHolds == Spec => []AlertInv
BY InitAlertInv, NextAlertInv, PTL DEF Spec

(***************************************************************************)
(* The types, for any tenders and any number of digest processes.          *)
(***************************************************************************)
THEOREM AlertTypeCorrect == Spec => []AlertTypeOK
<1>1. AlertInv => AlertTypeOK
  BY DEF AlertInv
<1>2. QED BY <1>1, AlertInvHolds, PTL

(***************************************************************************)
(* No message without a committed alert of its own that lists its tenders, *)
(* whatever crashes, and however many processes send at once               *)
(* (record_alert before send, alerts/service.py).                          *)
(***************************************************************************)
THEOREM EveryMailIsRecorded == Spec => []NoMailWithoutAlert
<1>1. AlertInv => NoMailWithoutAlert
  BY DEF AlertInv
<1>2. QED BY <1>1, AlertInvHolds, PTL

(***************************************************************************)
(* What later digests leave out as already sent, the user got              *)
(* (mark_sent after send, push_urgent_matches).                            *)
(***************************************************************************)
THEOREM SentIsReceived == Spec => []SentWasReceived
<1>1. AlertInv => SentWasReceived
  BY DEF AlertInv
<1>2. QED BY <1>1, AlertInvHolds, PTL

(***************************************************************************)
(* A process only ever marks the alert it recorded (mark_sent and          *)
(* mark_failed by id).                                                     *)
(***************************************************************************)
THEOREM AlertsAreOwned == Spec => []OwnAlert
<1>1. AlertInv => OwnAlert
  BY DEF AlertInv
<1>2. QED BY <1>1, AlertInvHolds, PTL

-----------------------------------------------------------------------------
(* Nothing is told twice. *)

Solo == \A s, r \in Senders : s = r

\* While nothing is cut short, what was mailed is marked or about to be, so
\* that the digest under way leaves it out.
MailOnceInv ==
  crashes = 0 =>
    /\ NeverMailedTwice
    /\ \A m \in mail : \/ alerts[m.alert].sent
                       \/ \E s \in Senders : pc[s] = "sent" /\ alert[s] = m.alert
    /\ \A s \in Senders : pc[s] \in {"built", "recorded", "failed"} =>
         \A m \in mail : m.tenders \cap built[s] = {}

LEMMA MailDigests ==
  ASSUME AlertInv, Solo, MailOnceInv, NEW s \in Senders,
         DigestStep(s) \/ SendRefused(s) \/ SendUnclear(s) \/ Crash(s)
  PROVE  MailOnceInv'
<1> SUFFICES ASSUME crashes' = 0 PROVE MailOnceInv'
  BY DEF MailOnceInv
<1>1. \A r \in Senders : r = s
  BY DEF Solo
<1> USE DEF AlertInv, AlertTypeOK, Goto, Steps
<1>2. crashes \in Nat
  BY DigestAssumption
<1>3. CASE SendUnclear(s) \/ Crash(s)
  BY <1>2, <1>3 DEF SendUnclear, Crash, Failure
<1>4. CASE Build(s)
  <2>1. /\ pc[s] = "idle" /\ pc' = [pc EXCEPT ![s] = "built"] /\ crashes = 0
        /\ built'[s] \subseteq Unsent
        /\ UNCHANGED <<alerts, mail, alert>>
    BY <1>4 DEF Build, budget
  <2>2. \A m \in mail : alerts[m.alert].sent
    BY <1>1, <2>1 DEF MailOnceInv
  <2>3. ASSUME NEW m \in mail, NEW t \in m.tenders PROVE t \notin Unsent
    BY <2>2, <2>3 DEF NoMailWithoutAlert, Unsent, Alerted
  <2>4. \A m \in mail : m.tenders \cap built'[s] = {}
    BY <2>1, <2>3
  <2>5. NeverMailedTwice'
    BY <2>1 DEF MailOnceInv, NeverMailedTwice
  <2> QED BY <1>1, <2>1, <2>2, <2>4, <2>5 DEF MailOnceInv
<1>5. CASE Record(s)
  <2>1. /\ pc[s] = "built" /\ pc' = [pc EXCEPT ![s] = "recorded"] /\ crashes = 0
        /\ alerts' = Append(alerts, EmailAlert(s))
        /\ UNCHANGED <<mail, built>>
    BY <1>5 DEF Record, budget
  <2>2. EmailAlert(s) \in Alert
    BY DEF EmailAlert, Alert
  <2>3. \A i \in 1 .. Len(alerts) : alerts'[i] = alerts[i]
    BY <2>1, <2>2, Appended
  <2>4. \A m \in mail : alerts[m.alert].sent /\ alerts'[m.alert] = alerts[m.alert]
    BY <1>1, <2>1, <2>3 DEF MailOnceInv, NoMailWithoutAlert
  <2>5. NeverMailedTwice'
    BY <2>1 DEF MailOnceInv, NeverMailedTwice
  <2> QED BY <1>1, <2>1, <2>4, <2>5 DEF MailOnceInv
<1>6. CASE Send(s)
  <2> DEFINE new == [alert |-> alert[s], tenders |-> built[s]]
  <2>1. /\ pc[s] = "recorded" /\ pc' = [pc EXCEPT ![s] = "sent"] /\ crashes = 0
        /\ mail' = mail \cup {new}
        /\ UNCHANGED <<alerts, built, alert>>
    BY <1>6 DEF Send, Deliver, budget
  <2>2. new.alert = alert[s] /\ new.tenders = built[s]
    OBVIOUS
  <2> HIDE DEF new
  <2>3. \A m \in mail : m.tenders \cap new.tenders = {} /\ alerts[m.alert].sent
    BY <1>1, <2>1, <2>2 DEF MailOnceInv
  <2>4. NeverMailedTwice'
    BY <2>1, <2>3 DEF MailOnceInv, NeverMailedTwice
  <2>5. pc'[s] = "sent" /\ alert'[s] = new.alert
    BY <2>1, <2>2
  <2> QED BY <1>1, <2>1, <2>3, <2>4, <2>5 DEF MailOnceInv
<1>7. CASE MarkSent(s)
  <2>1. /\ pc[s] = "sent" /\ pc' = [pc EXCEPT ![s] = "idle"] /\ crashes = 0
        /\ alerts' = [alerts EXCEPT ![alert[s]].sent = TRUE]
        /\ mail' = mail
    BY <1>7 DEF MarkSent, budget
  <2>2. alert[s] \in 1 .. Len(alerts)
    BY <2>1 DEF OwnAlert
  <2>3. \A m \in mail : m.alert \in 1 .. Len(alerts)
    BY DEF NoMailWithoutAlert
  <2>4. \A m \in mail : alerts[m.alert].sent \/ m.alert = alert[s]
    BY <1>1, <2>1 DEF MailOnceInv
  <2> DEFINE v == [alerts[alert[s]] EXCEPT !.sent = TRUE]
  <2>5. /\ v \in Alert /\ v.channel = alerts[alert[s]].channel
        /\ v.tenders = alerts[alert[s]].tenders
        /\ alerts' = [alerts EXCEPT ![alert[s]] = v]
    BY <2>1, <2>2, SentMark
  <2>9. v.sent
    <3>1. alerts[alert[s]] \in Alert
      BY <2>2
    <3> QED BY <3>1 DEF Alert
  <2> HIDE DEF v
  <2>6. /\ alerts'[alert[s]].sent
        /\ \A i \in 1 .. Len(alerts) : i # alert[s] => alerts'[i] = alerts[i]
    BY <2>2, <2>5, <2>9, Marked
  <2>7. \A m \in mail : alerts'[m.alert].sent
    BY <2>3, <2>4, <2>6
  <2>8. NeverMailedTwice'
    BY <2>1 DEF MailOnceInv, NeverMailedTwice
  <2> QED BY <1>1, <2>1, <2>7, <2>8 DEF MailOnceInv
<1>8. CASE SendRefused(s)
  <2>1. /\ pc[s] = "recorded" /\ pc' = [pc EXCEPT ![s] = "failed"] /\ crashes = 0
        /\ UNCHANGED <<alerts, mail, built, alert>>
    BY <1>8 DEF SendRefused, Refusal
  <2>2. NeverMailedTwice'
    BY <2>1 DEF MailOnceInv, NeverMailedTwice
  <2> QED BY <1>1, <2>1, <2>2 DEF MailOnceInv
<1>9. CASE MarkFailed(s)
  <2>1. /\ pc[s] = "failed" /\ pc' = [pc EXCEPT ![s] = "idle"] /\ crashes = 0
        /\ alerts' = [alerts EXCEPT ![alert[s]].error = TRUE]
        /\ mail' = mail
    BY <1>9 DEF MarkFailed, budget
  <2>2. \A m \in mail : alerts[m.alert].sent /\ m.alert \in 1 .. Len(alerts)
    BY <1>1, <2>1 DEF MailOnceInv, NoMailWithoutAlert
  <2> DEFINE v == [alerts[alert[s]] EXCEPT !.error = TRUE]
  <2>3. alert[s] \in 1 .. Len(alerts)
    BY <2>1 DEF OwnAlert
  <2>5. /\ v \in Alert /\ v.channel = alerts[alert[s]].channel
        /\ v.tenders = alerts[alert[s]].tenders /\ v.sent = alerts[alert[s]].sent
        /\ alerts' = [alerts EXCEPT ![alert[s]] = v]
    BY <2>1, <2>3, SentMark
  <2> HIDE DEF v
  <2>6. \A i \in 1 .. Len(alerts) : alerts'[i].sent = alerts[i].sent
    BY <2>3, <2>5, Marked
  <2>4. NeverMailedTwice'
    BY <2>1 DEF MailOnceInv, NeverMailedTwice
  <2> QED BY <1>1, <2>1, <2>2, <2>4, <2>6 DEF MailOnceInv
<1> QED
  BY <1>3, <1>4, <1>5, <1>6, <1>7, <1>8, <1>9 DEF DigestStep

\* A push changes nothing the digests rely on.
LEMMA MailPushes ==
  ASSUME AlertInv, MailOnceInv, PushStep \/ PushFails \/ PushCrash
  PROVE  MailOnceInv'
<1>1. UNCHANGED <<mail, pc, built, alert>>
  BY DEF PushStep, PushSelect, PushSend, PushCommit, PushFails, PushCrash, source, digesting
<1>2. crashes' = 0 => crashes = 0
  BY DigestAssumption
  DEF PushStep, PushSelect, PushSend, PushCommit, PushFails, PushCrash, Refusal, Failure,
      budget, AlertInv, AlertTypeOK
<1>3. \A i \in 1 .. Len(alerts) : alerts'[i] = alerts[i]
  <2>1. CASE PushCommit
    <3> DEFINE new == [channel |-> "push", tenders |-> pushing, sent |-> TRUE, error |-> FALSE]
    <3>1. new \in Alert /\ alerts \in Seq(Alert)
      BY DEF AlertInv, AlertTypeOK, Alert
    <3>2. alerts' = Append(alerts, new)
      BY <2>1 DEF PushCommit
    <3> HIDE DEF new
    <3> QED BY <3>1, <3>2, Appended
  <2>2. CASE PushSelect \/ PushSend \/ PushFails \/ PushCrash
    BY <2>2 DEF PushSelect, PushSend, PushFails, PushCrash
  <2> QED BY <2>1, <2>2 DEF PushStep
<1>4. \A m \in mail : alerts'[m.alert] = alerts[m.alert]
  BY <1>3 DEF AlertInv, NoMailWithoutAlert
<1>5. NeverMailedTwice => NeverMailedTwice'
  BY <1>1 DEF NeverMailedTwice
<1> QED BY <1>1, <1>2, <1>4, <1>5 DEF MailOnceInv

(***************************************************************************)
(* With one digest process, and as long as nothing is cut short, no tender *)
(* is mailed twice, whatever is refused and whatever is pushed in between  *)
(* (build_digest leaves out what an alert marked sent lists).              *)
(***************************************************************************)
THEOREM SoloMailsOnce == Solo /\ Spec => []MailedOnce
<1>1. Init => MailOnceInv
  BY DEF Init, MailOnceInv, NeverMailedTwice
<1>2. AlertInv /\ Solo /\ MailOnceInv /\ [Next]_alertVars => MailOnceInv'
  <2> SUFFICES ASSUME AlertInv, Solo, MailOnceInv, [Next]_alertVars PROVE MailOnceInv'
    OBVIOUS
  <2>1. CASE UNCHANGED alertVars
    BY <2>1 DEF alertVars, digesting, budget, MailOnceInv, NeverMailedTwice
  <2>2. CASE \E t \in Tenders : Match(t) \/ Near(t)
    BY <2>2 DEF Match, Near, digesting, budget, MailOnceInv, NeverMailedTwice
  <2> QED BY <2>1, <2>2, MailDigests, MailPushes DEF Next
<1>3. MailOnceInv => MailedOnce
  BY DEF MailOnceInv, MailedOnce
<1>4. Solo => Solo'
  BY DEF Solo
<1> QED BY <1>1, <1>2, <1>3, <1>4, AlertInvHolds, PTL DEF Spec

(***************************************************************************)
(* While nothing is cut short, what was pushed has its alert, or is what   *)
(* the run under way has just sent.                                        *)
(***************************************************************************)
PushOnceInv ==
  crashes = 0 =>
    /\ \A m, n \in pushed : m # n => m.counts \cap n.counts = {}
    /\ \A n \in pushed : \/ \A t \in n.counts : Pushed(t)
                         \/ ringing /\ n.counts = pushing
    /\ ~ringing => \A n \in pushed : n.counts \cap pushing = {}

\* What was pushed stays pushed.
LEMMA PushedStays ==
  ASSUME AlertInv, [Next]_alertVars, NEW t, Pushed(t)
  PROVE  Pushed(t)'
<1>1. PICK i \in 1 .. Len(alerts) : alerts[i].channel = "push" /\ t \in alerts[i].tenders
  BY DEF Pushed
<1> SUFFICES /\ i \in 1 .. Len(alerts')
             /\ alerts'[i].channel = alerts[i].channel /\ alerts'[i].tenders = alerts[i].tenders
  BY <1>1 DEF Pushed
<1>2. alerts \in Seq(Alert)
  BY DEF AlertInv, AlertTypeOK
<1>3. ASSUME NEW x \in Alert, alerts' = Append(alerts, x)
      PROVE  i \in 1 .. Len(alerts') /\ alerts'[i] = alerts[i]
  BY <1>2, <1>3, Appended
<1>4. CASE alerts' = alerts
  BY <1>4
<1>5. ASSUME NEW s \in Senders, Record(s)
      PROVE  i \in 1 .. Len(alerts') /\ alerts'[i] = alerts[i]
  <2>1. EmailAlert(s) \in Alert
    BY DEF EmailAlert, Alert, AlertInv, AlertTypeOK
  <2> QED BY <1>3, <1>5, <2>1 DEF Record
<1>6. CASE PushCommit
  <2> DEFINE new == [channel |-> "push", tenders |-> pushing, sent |-> TRUE, error |-> FALSE]
  <2>1. new \in Alert /\ alerts' = Append(alerts, new)
    BY <1>6 DEF AlertInv, AlertTypeOK, Alert, PushCommit
  <2> HIDE DEF new
  <2> QED BY <1>3, <2>1
<1>7. ASSUME NEW s \in Senders, MarkSent(s) \/ MarkFailed(s)
      PROVE  /\ i \in 1 .. Len(alerts')
             /\ alerts'[i].channel = alerts[i].channel
             /\ alerts'[i].tenders = alerts[i].tenders
  <2>1. pc[s] \in {"sent", "failed"}
    BY <1>7 DEF MarkSent, MarkFailed, Goto
  <2>2. alert[s] \in 1 .. Len(alerts)
    BY <2>1 DEF AlertInv, AlertTypeOK, OwnAlert
  <2>3. PICK v \in Alert : /\ alerts' = [alerts EXCEPT ![alert[s]] = v]
                           /\ v.channel = alerts[alert[s]].channel
                           /\ v.tenders = alerts[alert[s]].tenders
    <3>1. CASE MarkSent(s)
      <4>1. alerts' = [alerts EXCEPT ![alert[s]].sent = TRUE]
        BY <3>1 DEF MarkSent
      <4> QED BY <1>2, <2>2, <4>1, SentMark
    <3>2. CASE MarkFailed(s)
      <4>1. alerts' = [alerts EXCEPT ![alert[s]].error = TRUE]
        BY <3>2 DEF MarkFailed
      <4> QED BY <1>2, <2>2, <4>1, SentMark
    <3> QED BY <1>7, <3>1, <3>2
  <2> QED BY <1>2, <2>2, <2>3, Marked
<1>8. CASE \E s \in Senders : Build(s) \/ Send(s) \/ SendRefused(s) \/ SendUnclear(s) \/ Crash(s)
  BY <1>4, <1>8 DEF Build, Send, SendRefused, SendUnclear, Crash
<1>9. CASE \/ \E u \in Tenders : Match(u) \/ Near(u)
           \/ PushSelect \/ PushSend \/ PushFails \/ PushCrash \/ UNCHANGED alertVars
  BY <1>4, <1>9 DEF Match, Near, PushSelect, PushSend, PushFails, PushCrash, alertVars
<1> QED
  BY <1>5, <1>6, <1>7, <1>8, <1>9 DEF Next, DigestStep, PushStep

(***************************************************************************)
(* As long as nothing is cut short, no tender is counted in two            *)
(* notifications (push_urgent_matches leaves out what a push alert lists). *)
(***************************************************************************)
THEOREM AlwaysPushedOnce == Spec => []PushedOnce
<1>1. Init => PushOnceInv
  BY DEF Init, PushOnceInv
<1>2. AlertInv /\ PushOnceInv /\ [Next]_alertVars => PushOnceInv'
  <2> SUFFICES ASSUME AlertInv, PushOnceInv, [Next]_alertVars, crashes' = 0
               PROVE  PushOnceInv'
    BY DEF PushOnceInv
  <2>1. \A t : Pushed(t) => Pushed(t)'
    BY PushedStays
  <2> USE DEF AlertInv, AlertTypeOK
  <2>2. ASSUME UNCHANGED <<pushed, pushing, ringing>>, crashes = 0
        PROVE  PushOnceInv'
    BY <2>1, <2>2 DEF PushOnceInv
  <2>3. CASE \/ \E t \in Tenders : Match(t) \/ Near(t)
             \/ \E s \in Senders : DigestStep(s) \/ SendRefused(s)
             \/ UNCHANGED alertVars
    <3>1. UNCHANGED <<pushed, pushing, ringing, crashes>>
      BY <2>3
      DEF Match, Near, DigestStep, Build, Record, Send, MarkSent, MarkFailed, SendRefused,
          Refusal, alertVars, push, budget
    <3> QED BY <2>2, <3>1
  <2>4. CASE PushCrash \/ \E s \in Senders : SendUnclear(s) \/ Crash(s)
    <3>1. crashes \in Nat
      BY DigestAssumption
    <3> QED BY <2>4, <3>1 DEF SendUnclear, Crash, PushCrash, Failure
  <2>5. CASE PushSelect
    <3>1. /\ pushing = {} /\ pushing' = Urgent
          /\ UNCHANGED <<alerts, pushed, ringing, crashes>>
      BY <2>5 DEF PushSelect, budget
    <3>2. ~ringing
      BY <3>1
    <3>3. \A n \in pushed : \A t \in n.counts : Pushed(t)
      BY <3>1, <3>2 DEF PushOnceInv
    <3>4. \A n \in pushed : n.counts \cap pushing' = {}
      BY <3>1, <3>3 DEF Urgent
    <3> QED BY <2>1, <3>1, <3>3, <3>4 DEF PushOnceInv
  <2>6. CASE PushSend
    <3>1. /\ ~ringing /\ ringing' = TRUE /\ pushing' = pushing /\ crashes = 0
          /\ \E top \in pushing : pushed' = pushed \cup {[counts |-> pushing, names |-> top]}
      BY <2>6 DEF PushSend, budget
    <3>2. PICK new : new.counts = pushing /\ pushed' = pushed \cup {new}
      BY <3>1
    <3>3. \A n \in pushed : n.counts \cap new.counts = {}
      BY <3>1, <3>2 DEF PushOnceInv
    <3>4. \A n \in pushed : \A t \in n.counts : Pushed(t)
      BY <3>1 DEF PushOnceInv
    <3>5. \A m, n \in pushed' : m # n => m.counts \cap n.counts = {}
      BY <3>1, <3>2, <3>3 DEF PushOnceInv
    <3> QED BY <2>1, <3>1, <3>2, <3>4, <3>5 DEF PushOnceInv
  <2>7. CASE PushFails
    <3>1. /\ ~ringing /\ pushing' = {} /\ crashes = 0 /\ UNCHANGED <<pushed, ringing>>
      BY <2>7 DEF PushFails, Refusal
    <3>2. \A n \in pushed : \A t \in n.counts : Pushed(t)
      BY <3>1 DEF PushOnceInv
    <3> QED BY <2>1, <3>1, <3>2 DEF PushOnceInv
  <2>8. CASE PushCommit
    <3> DEFINE new == [channel |-> "push", tenders |-> pushing, sent |-> TRUE, error |-> FALSE]
    <3>1. /\ ringing /\ alerts' = Append(alerts, new) /\ pushing' = {} /\ crashes = 0
          /\ pushed' = pushed
      BY <2>8 DEF PushCommit, budget
    <3>2. new \in Alert
      BY DEF Alert
    <3>3. Len(alerts) + 1 \in 1 .. Len(alerts') /\ alerts'[Len(alerts) + 1] = new
      <4> HIDE DEF new
      <4> QED BY <3>1, <3>2, Appended
    <3>4. \A t \in pushing : Pushed(t)'
      BY <3>3 DEF Pushed
    <3>5. \A n \in pushed : \A t \in n.counts : Pushed(t)'
      BY <2>1, <3>1, <3>4 DEF PushOnceInv
    <3> QED BY <3>1, <3>5 DEF PushOnceInv
  <2> QED
    BY <2>3, <2>4, <2>5, <2>6, <2>7, <2>8 DEF Next, PushStep
<1>3. PushOnceInv => PushedOnce
  BY DEF PushOnceInv, PushedOnce
<1> QED BY <1>1, <1>2, <1>3, AlertInvHolds, PTL DEF Spec
=============================================================================
