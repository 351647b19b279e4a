---------------------------- MODULE AlertDigest -----------------------------
(***************************************************************************)
(* The alerts of one user: digests (alerts/digest.py, alerts/service.py)   *)
(* sent by one or more processes, the daily timer's and any started by     *)
(* hand, and urgent pushes (alerts/push.py), which keep one transaction    *)
(* open for the whole run.                                                 *)
(*                                                                         *)
(*   matches  tenders with a matches row for the user                      *)
(*   closing  how far each tender is from closing                          *)
(*   alerts   the committed alerts rows, id being the index                *)
(*   mail     the messages that reached the user: the alert each was       *)
(*            recorded under and the tenders it lists                      *)
(*   pushed   the notifications that reached the user: the tenders each    *)
(*            counts and the one it names                                  *)
(*   pc, built, alert   where each digest process is, the digest it built  *)
(*            and the id of its alert                                      *)
(*   pushing  the tenders of the push run under way, {} when there is none *)
(*   ringing  whether that run has sent them                               *)
(*   refusals, crashes   failures so far                                   *)
(***************************************************************************)
EXTENDS Naturals, Sequences, FiniteSets

CONSTANTS
  Tenders,
  Senders,      \* digest processes
  DigestSize,   \* MAX_TENDERS_PER_DIGEST
  MaxRefusals,  \* bound on refusals
  MaxCrashes    \* bound on crashes

ASSUME DigestAssumption ==
  /\ DigestSize \in Nat \ {0}
  /\ MaxRefusals \in Nat
  /\ MaxCrashes \in Nat

VARIABLES matches, closing, alerts, mail, pushed, pc, built, alert,
          pushing, ringing, refusals, crashes

source    == <<matches, closing>>
digesting == <<pc, built, alert>>
push      == <<pushing, ringing>>
budget    == <<refusals, crashes>>
alertVars == <<source, alerts, mail, pushed, digesting, push, budget>>

Steps == {"idle", "built", "recorded", "sent", "failed"}

Init ==
  /\ matches = {}
  /\ closing = [t \in Tenders |-> "later"]
  /\ alerts = <<>>
  /\ mail = {}
  /\ pushed = {}
  /\ pc = [s \in Senders |-> "idle"]
  /\ built = [s \in Senders |-> {}]
  /\ alert = [s \in Senders |-> 0]
  /\ pushing = {}
  /\ ringing = FALSE
  /\ refusals = 0
  /\ crashes = 0

Goto(s, from, to) == pc[s] = from /\ pc' = [pc EXCEPT ![s] = to]

Refusal == refusals < MaxRefusals /\ refusals' = refusals + 1 /\ UNCHANGED crashes
Failure == crashes < MaxCrashes /\ crashes' = crashes + 1 /\ UNCHANGED refusals

-----------------------------------------------------------------------------
\* match_user stores a match of an open tender; it never removes one.
Match(t) ==
  /\ t \notin matches
  /\ closing[t] # "closed"
  /\ matches' = matches \cup {t}
  /\ UNCHANGED <<closing, alerts, mail, pushed, digesting, push, budget>>

\* Time passes: the tender closes within 48 hours, then it is closed.
Near(t) ==
  /\ \/ closing[t] = "later" /\ closing' = [closing EXCEPT ![t] = "soon"]
     \/ closing[t] = "soon" /\ closing' = [closing EXCEPT ![t] = "closed"]
  /\ UNCHANGED <<matches, alerts, mail, pushed, digesting, push, budget>>

\* Mutant of Alerted: alerts that were not sent count as well.
AlertedUnsent(t) == \E i \in 1 .. Len(alerts) : t \in alerts[i].tenders

\* Mutant of Alerted: only pushes are looked for.
AlertedByPush(t) ==
  \E i \in 1 .. Len(alerts) : alerts[i].channel = "push" /\ t \in alerts[i].tenders

\* In an alert that was sent, by either channel.
Alerted(t) == \E i \in 1 .. Len(alerts) : alerts[i].sent /\ t \in alerts[i].tenders

Unsent == {t \in matches : closing[t] # "closed" /\ ~Alerted(t)}

\* build_digest: the best DigestSize of the unsent matches, in whatever
\* order the scores put them.
Build(s) ==
  /\ Goto(s, "idle", "built")
  /\ \E best \in SUBSET Unsent \ {{}} :
       /\ Cardinality(best) <= DigestSize
       /\ best # Unsent => Cardinality(best) = DigestSize
       /\ built' = [built EXCEPT ![s] = best]
  /\ UNCHANGED <<source, alerts, mail, pushed, alert, push, budget>>

EmailAlert(s) ==
  [channel |-> "email", tenders |-> built[s], sent |-> FALSE, error |-> FALSE]

\* Mutant of Record: the row is inserted but not committed before the send.
RecordUncommitted(s) ==
  /\ Goto(s, "built", "recorded")
  /\ alert' = [alert EXCEPT ![s] = Len(alerts) + 1]
  /\ UNCHANGED <<source, alerts, mail, pushed, built, push, budget>>

\* record_alert and its commit, before anything is sent.
Record(s) ==
  /\ Goto(s, "built", "recorded")
  /\ alerts' = Append(alerts, EmailAlert(s))
  /\ alert' = [alert EXCEPT ![s] = Len(alerts')]
  /\ UNCHANGED <<source, mail, pushed, built, push, budget>>

Deliver(s) == mail' = mail \cup {[alert |-> alert[s], tenders |-> built[s]]}

Send(s) ==
  /\ Goto(s, "recorded", "sent")
  /\ Deliver(s)
  /\ UNCHANGED <<source, alerts, pushed, built, alert, push, budget>>

\* The mail server refuses the message.
SendRefused(s) ==
  /\ Refusal
  /\ Goto(s, "recorded", "failed")
  /\ UNCHANGED <<source, alerts, mail, pushed, built, alert, push>>

\* The message is accepted and the session breaks before send returns.
SendUnclear(s) ==
  /\ Failure
  /\ Goto(s, "recorded", "failed")
  /\ Deliver(s)
  /\ UNCHANGED <<source, alerts, pushed, built, alert, push>>

Forget(s) ==
  /\ built' = [built EXCEPT ![s] = {}]
  /\ alert' = [alert EXCEPT ![s] = 0]

\* Mutant of MarkSent: every alert of the user is marked.
MarkAllSent(s) ==
  /\ Goto(s, "sent", "idle")
  /\ alerts' = [i \in 1 .. Len(alerts) |-> [alerts[i] EXCEPT !.sent = TRUE]]
  /\ Forget(s)
  /\ UNCHANGED <<source, mail, pushed, push, budget>>

MarkSent(s) ==
  /\ Goto(s, "sent", "idle")
  /\ alerts' = [alerts EXCEPT ![alert[s]].sent = TRUE]
  /\ Forget(s)
  /\ UNCHANGED <<source, mail, pushed, push, budget>>

MarkFailed(s) ==
  /\ Goto(s, "failed", "idle")
  /\ alerts' = [alerts EXCEPT ![alert[s]].error = TRUE]
  /\ Forget(s)
  /\ UNCHANGED <<source, mail, pushed, push, budget>>

\* The process dies, or render raises, or the database refuses a mark.
Crash(s) ==
  /\ Failure
  /\ pc[s] # "idle"
  /\ pc' = [pc EXCEPT ![s] = "idle"]
  /\ Forget(s)
  /\ UNCHANGED <<source, alerts, mail, pushed, push>>

-----------------------------------------------------------------------------
\* Mutant of Pushed: push alerts are not looked for.
PushedNever(t) == FALSE

Pushed(t) ==
  \E i \in 1 .. Len(alerts) : alerts[i].channel = "push" /\ t \in alerts[i].tenders

Urgent == {t \in matches : closing[t] = "soon" /\ ~Pushed(t)}

PushSelect ==
  /\ pushing = {}
  /\ Urgent # {}
  /\ pushing' = Urgent
  /\ UNCHANGED <<source, alerts, mail, pushed, digesting, ringing, budget>>

\* One notification for all of them; its text is the title of the best.
PushSend ==
  /\ pushing # {}
  /\ ~ringing
  /\ \E top \in pushing : pushed' = pushed \cup {[counts |-> pushing, names |-> top]}
  /\ ringing' = TRUE
  /\ UNCHANGED <<source, alerts, mail, digesting, pushing, budget>>

\* No subscription took it: no alert is inserted.
PushFails ==
  /\ pushing # {}
  /\ ~ringing
  /\ Refusal
  /\ pushing' = {}
  /\ UNCHANGED <<source, alerts, mail, pushed, digesting, ringing>>

\* The alert is inserted and cmd_push commits.
PushCommit ==
  /\ ringing
  /\ alerts' = Append(alerts,
                 [channel |-> "push", tenders |-> pushing, sent |-> TRUE, error |-> FALSE])
  /\ pushing' = {}
  /\ ringing' = FALSE
  /\ UNCHANGED <<source, mail, pushed, digesting, budget>>

\* The push process dies before its only commit.
PushCrash ==
  /\ pushing # {}
  /\ Failure
  /\ pushing' = {}
  /\ ringing' = FALSE
  /\ UNCHANGED <<source, alerts, mail, pushed, digesting>>

DigestStep(s) == Build(s) \/ Record(s) \/ Send(s) \/ MarkSent(s) \/ MarkFailed(s)
PushStep      == PushSelect \/ PushSend \/ PushCommit

Next ==
  \/ \E t \in Tenders : Match(t) \/ Near(t)
  \/ \E s \in Senders : DigestStep(s) \/ SendRefused(s) \/ SendUnclear(s) \/ Crash(s)
  \/ PushStep \/ PushFails \/ PushCrash

Spec == Init /\ [][Next]_alertVars

(***************************************************************************)
(* The daily timer keeps starting digests and a digest under way goes on   *)
(* (the mail session has a timeout).  Nothing obliges anyone to push.       *)
(***************************************************************************)
FairSpec == Spec /\ \A s \in Senders : WF_alertVars(DigestStep(s))

-----------------------------------------------------------------------------
(***************************************************************************)
(* The types, and that a digest under way refers to its own alert.         *)
(***************************************************************************)
Alert == [channel : {"email", "push"}, tenders : SUBSET Tenders,
          sent : BOOLEAN, error : BOOLEAN]

AlertTypeOK ==
  /\ matches \subseteq Tenders
  /\ closing \in [Tenders -> {"later", "soon", "closed"}]
  /\ alerts \in Seq(Alert)
  /\ mail \subseteq [alert : Nat, tenders : SUBSET Tenders]
  /\ pushed \subseteq [counts : SUBSET Tenders, names : Tenders]
  /\ pc \in [Senders -> Steps]
  /\ built \in [Senders -> SUBSET Tenders]
  /\ alert \in [Senders -> Nat]
  /\ \A s \in Senders : pc[s] \in {"recorded", "sent", "failed"} <=> alert[s] # 0
  /\ pushing \subseteq Tenders
  /\ ringing \in BOOLEAN /\ (ringing => pushing # {})
  /\ refusals \in 0 .. MaxRefusals
  /\ crashes \in 0 .. MaxCrashes

(***************************************************************************)
(* alerts/service.py: a message can never leave without a record.  Every   *)
(* message has a committed alert of its own, with the very tenders it      *)
(* lists, which is the denominator of match precision.                     *)
(***************************************************************************)
NoMailWithoutAlert ==
  \A m \in mail :
    /\ m.alert \in 1 .. Len(alerts)
    /\ alerts[m.alert].channel = "email"
    /\ alerts[m.alert].tenders = m.tenders

(***************************************************************************)
(* What the digest excludes it excludes for a reason: an alert marked sent *)
(* is one the user got.                                                    *)
(***************************************************************************)
SentWasReceived ==
  \A i \in 1 .. Len(alerts) : alerts[i].sent =>
    \/ \E m \in mail : m.alert = i
    \/ \E n \in pushed : n.counts = alerts[i].tenders

(***************************************************************************)
(* Two live alerts are never under one id: processes that send at the same *)
(* moment mark their own alerts only.                                      *)
(***************************************************************************)
OwnAlert ==
  \A s \in Senders : alert[s] # 0 =>
    /\ alert[s] <= Len(alerts)
    /\ alerts[alert[s]] = EmailAlert(s)
    /\ \A r \in Senders \ {s} : alert[r] # alert[s]

(***************************************************************************)
(* alerts/sender.py: a failed digest is picked up by the next run.  Every  *)
(* match ends up in an alert the user got, unless it closes first,         *)
(* however many sends are refused or cut short.                            *)
(***************************************************************************)
EveryMatchAlerted ==
  \A t \in Tenders :
    t \in matches ~> closing[t] = "closed" \/
      (\E i \in 1 .. Len(alerts) : alerts[i].sent /\ t \in alerts[i].tenders)

(***************************************************************************)
(* alerts/digest.py: "anything in a previous alert is excluded", because   *)
(* re-sending a tender trains people to ignore the digest.                 *)
(***************************************************************************)
NeverMailedTwice ==
  \A m, n \in mail : m # n => m.tenders \cap n.tenders = {}

(***************************************************************************)
(* So it is, with one digest process, as long as nothing was cut short:    *)
(* refusals and pushes in between make no digest repeat a tender.          *)
(***************************************************************************)
MailedOnce == crashes = 0 => NeverMailedTwice

(***************************************************************************)
(* And no tender is counted in two notifications (push_urgent_matches      *)
(* looks for the alerts of earlier pushes).                                *)
(***************************************************************************)
PushedOnce ==
  crashes = 0 => \A m, n \in pushed : m # n => m.counts \cap n.counts = {}

(***************************************************************************)
(* alerts/push.py: push complements the digest rather than replacing it.   *)
(* So a tender the digest leaves out as already sent has been named to the *)
(* user by some message.                                                   *)
(***************************************************************************)
EveryAlertedIsNamed ==
  \A t \in Tenders : Alerted(t) =>
    \/ \E m \in mail : t \in m.tenders
    \/ \E n \in pushed : n.names = t
=============================================================================
