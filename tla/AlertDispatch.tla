---------------------------- MODULE AlertDispatch ----------------------------
(***************************************************************************)
(* The Telegram alert outbox.  Events are inserted once per fingerprint; a *)
(* run of telegram-alerts lists the pending ones and delivers them one by  *)
(* one: send, then mark SENT, or mark the failed attempt.  Runs triggered  *)
(* by different job chains overlap, a send may fail after the message was  *)
(* delivered, and a run may be killed between two calls.                   *)
(*                                                                         *)
(* A run handles either the digests or all other events.  Rendering and    *)
(* the chat history are left out.                                          *)
(***************************************************************************)
EXTENDS Integers, FiniteSets, FiniteSetsExt

CONSTANTS
  Alerts,      \* the rows of the outbox, numbered by creation time
  Dispatchers, \* runs of telegram-alerts in progress at once
  MaxAttempts, \* max_attempt_count, 5
  BatchLimit,  \* 50
  MaxFaults,   \* bound: runs killed
  MaxMessages  \* bound: the messages of an alert are counted up to this

ASSUME AlertAssumption ==
  /\ Alerts \subseteq Nat /\ IsFiniteSet(Alerts)
  /\ MaxAttempts \in Nat \ {0} /\ BatchLimit \in Nat \ {0}
  /\ MaxFaults \in Nat /\ MaxMessages \in Nat \ {0}

VARIABLES
  alert,    \* telegram_alert_events
  messages, \* messages in the owner's chat, by alert
  listed,   \* what is left of each run's list: the attempts it read, by alert
  pc,       \* the call each run makes next for the first alert of its list
  sentAt,   \* sent_at of the digests, numbered in their order, 0 for none
  marks,    \* the number of the latest sent_at
  faults

dispatchVars == <<alert, messages, listed, pc, sentAt, marks, faults>>

Kinds == {"digest", "other"}
Status == {"ABSENT", "PENDING", "SENT", "FAILED"}

NoList == [a \in {} |-> 0]

DispatchInit ==
  /\ alert = [a \in Alerts |-> [status |-> "ABSENT", attempts |-> 0, kind |-> "other"]]
  /\ messages = [a \in Alerts |-> 0]
  /\ listed = [d \in Dispatchers |-> NoList]
  /\ pc = [d \in Dispatchers |-> "send"]
  /\ sentAt = [a \in Alerts |-> 0] /\ marks = 0
  /\ faults = 0

-----------------------------------------------------------------------------

\* A new row, the latest.
Materialize(a, kind) ==
  /\ alert[a].status = "ABSENT"
  /\ \A b \in Alerts : b < a => alert[b].status # "ABSENT"
  /\ alert' = [alert EXCEPT ![a] = [status |-> "PENDING", attempts |-> 0, kind |-> kind]]
  /\ UNCHANGED <<messages, listed, pc, sentAt, marks, faults>>

Listable(a, kind) == alert[a].status = "PENDING" /\ alert[a].kind = kind

\* The oldest pending events of a kind, up to the limit.
Batch(kind) == LET pending == {a \in Alerts : Listable(a, kind)}
               IN  {a \in pending : Cardinality({b \in pending : b < a}) < BatchLimit}

List(d, kind) ==
  /\ listed[d] = NoList /\ Batch(kind) # {}
  /\ listed' = [listed EXCEPT ![d] = [a \in Batch(kind) |-> alert[a].attempts]]
  /\ UNCHANGED <<alert, messages, pc, sentAt, marks, faults>>

Current(d) == Min(DOMAIN listed[d])
Goto(d, step) == pc' = [pc EXCEPT ![d] = step]
Advance(d) ==
  /\ listed' = [listed EXCEPT ![d] = [a \in DOMAIN @ \ {Current(d)} |-> @[a]]]
  /\ Goto(d, "send")

Delivered(a) ==
  messages' = [messages EXCEPT ![a] = IF @ < MaxMessages THEN @ + 1 ELSE @]

\* Mutant of Send: a refusal is not noticed.
SendUnchecked(d) ==
  /\ listed[d] # NoList /\ pc[d] = "send"
  /\ Delivered(Current(d)) \/ UNCHANGED messages
  /\ Goto(d, "sent")
  /\ UNCHANGED <<alert, listed, sentAt, marks, faults>>

\* sendText: delivered and reported; delivered with the response lost; refused.
Send(d) ==
  /\ listed[d] # NoList /\ pc[d] = "send"
  /\ \/ /\ Delivered(Current(d))
        /\ \E step \in {"sent", "failed"} : Goto(d, step)
     \/ UNCHANGED messages /\ Goto(d, "failed")
  /\ UNCHANGED <<alert, listed, sentAt, marks, faults>>

\* The time of an event that is marked, of which only those of digests are read.
Stamped(a) ==
  IF alert[a].kind = "digest"
  THEN marks' = marks + 1 /\ sentAt' = [sentAt EXCEPT ![a] = marks + 1]
  ELSE UNCHANGED <<sentAt, marks>>

\* markSent patches by id; when the call throws, before or after its effect,
\* the attempt counts as failed.
MarkSent(d) ==
  /\ pc[d] = "sent"
  /\ \/ /\ alert' = [alert EXCEPT ![Current(d)].status = "SENT"] /\ Stamped(Current(d))
        /\ \/ Advance(d)
           \/ Goto(d, "failed") /\ UNCHANGED listed
     \/ Goto(d, "failed") /\ UNCHANGED <<alert, listed, sentAt, marks>>
  /\ UNCHANGED <<messages, faults>>

\* markFailed counts from the attempts that were listed.
MarkFailed(d) ==
  /\ pc[d] = "failed"
  /\ LET attempt == listed[d][Current(d)] + 1
     IN  alert' = [alert EXCEPT ![Current(d)] = [@ EXCEPT
           !.status = IF attempt >= MaxAttempts THEN "FAILED" ELSE "PENDING",
           !.attempts = attempt]]
  /\ Advance(d)
  /\ UNCHANGED <<messages, sentAt, marks, faults>>

\* The run is killed, or markFailed throws: the rest of the list is dropped.
Cut(d) ==
  /\ listed[d] # NoList
  /\ faults < MaxFaults /\ faults' = faults + 1
  /\ listed' = [listed EXCEPT ![d] = NoList]
  /\ Goto(d, "send")
  /\ UNCHANGED <<alert, messages, sentAt, marks>>

Dispatch(d) == Send(d) \/ MarkSent(d) \/ MarkFailed(d)

DispatchNext ==
  \/ \E a \in Alerts, kind \in Kinds : Materialize(a, kind)
  \/ \E d \in Dispatchers : (\E kind \in Kinds : List(d, kind)) \/ Dispatch(d) \/ Cut(d)

\* The outbox by itself, whoever writes events.
DispatchSpec == DispatchInit /\ [][DispatchNext]_dispatchVars

-----------------------------------------------------------------------------

\* An event marked SENT is in the chat: "mark event SENT only after Telegram
\* success" (milestone 6 plan), whatever other runs and faults do to it.
SentWasDelivered == \A a \in Alerts : alert[a].status = "SENT" => messages[a] > 0

\* Not so: "never resend SENT fingerprint" (milestone 6 plan).  A second run that
\* listed an event before it was marked SENT delivers it once more.
==============================================================================
