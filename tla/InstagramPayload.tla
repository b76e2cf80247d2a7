--------------------------- MODULE InstagramPayload ---------------------------
(***************************************************************************)
(* What collecting makes of Meta's answers: the retries of a fetch, the    *)
(* category of a failure, and which posts of an account can be read.       *)
(***************************************************************************)
EXTENDS Integers, Sequences, SequencesExt

Formats == {"IMAGE", "CAROUSEL_ALBUM", "REELS", "VIDEO"}
Categories == {"unsupported_account", "permission", "rate_limited", "temporary_upstream",
               "invalid_payload", "database", "run_budget_exhausted", "internal"}

\* An answer: its status, 0 when there is none, and the code of Meta's error, 0
\* when the body has none that can be read.
Answer(status, code) == [status |-> status, code |-> code]

\* Where the body of a good answer cannot be parsed, or is too long.
Garbled == -1

ErrorCategory(answer) ==
    CASE answer.status = 0 -> "temporary_upstream"
      [] answer.status = 429 \/ answer.code \in {4, 17, 32, 613} -> "rate_limited"
      [] answer.status \in {401, 403} \/ answer.code \in {10, 190, 200} -> "permission"
      [] answer.code = 100 -> "unsupported_account"
      [] answer.status >= 500 -> "temporary_upstream"
      [] OTHER -> "invalid_payload"

Retriable(answer) ==
    answer.status # 200 /\ ErrorCategory(answer) \in {"rate_limited", "temporary_upstream"}

DecodeSuccess(answer) == IF answer.code = Garbled THEN "invalid_payload" ELSE "ok"

\* fetchAccount: the first of three answers that is not worth a retry, or the last.
FetchAccountOutcome(answers) ==
    LET last == SelectInSeq(answers, LAMBDA x : ~Retriable(x))
        answer == answers[IF last = 0 THEN Len(answers) ELSE last]
    IN  IF answer.status = 200 THEN DecodeSuccess(answer) ELSE ErrorCategory(answer)

Trouble == {Answer(0, 0), Answer(500, 0), Answer(429, 4)}
Triples(answers) == [1..3 -> answers]

\* With a valid token an account may be found, or be none that can be discovered.
FetchOutcomes == {FetchAccountOutcome(t) : t \in Triples(Trouble \cup {Answer(200, 0), Answer(200, Garbled), Answer(400, 100)})}

\* With an expired one Meta refuses, whatever the account.
ExpiredOutcomes == {FetchAccountOutcome(t) : t \in Triples(Trouble \cup {Answer(401, 190), Answer(400, 190)})}

\* A post is read if its format is one of the three, a video only as a reel, and
\* if it is not newer than the run.
NormalizesPost(shown, collectedAt) ==
    shown.format \in {"IMAGE", "CAROUSEL_ALBUM", "REELS"} /\ shown.at =< collectedAt

\* A failure after the account's time is over counts as the upstream's.
FailureCategory(category, timedOut) == IF timedOut THEN "temporary_upstream" ELSE category

MarkUnsupported(category) == category \in {"unsupported_account", "permission"}
==============================================================================
