---------------------------- MODULE AIModeration ----------------------------
(***************************************************************************)
(* How the text of a review is judged (marketplace/services/               *)
(* ai_moderation.py): filters, then a model and another when it fails, and *)
(* what rate_app, reply_review and moderate_review_task make of it.  One   *)
(* review, whose author writes its text several times; what is public and  *)
(* how saves overtake each other is the matter of Reviews, here it is      *)
(* whether a moderator hears of what waits for one.                        *)
(***************************************************************************)
EXTENDS Integers, FiniteSets

CONSTANTS
  Callers,    \* requests and task workers that run at the same time
  LastText,   \* bound: texts the author writes
  MaxTrouble  \* bound: calls of Telegram and of the queue that fail, deaths of
              \* workers, and changes of the settings

ASSUME AIModerationAssumption ==
  /\ LastText \in Nat
  /\ MaxTrouble \in Nat

VARIABLES
  setting,   \* the settings: AI off, asked later, asked at once, or without a key
  review,    \* the row: its id, status and text, whether no AI has looked at it
             \* (ai_reason), and whether the developer has replied
  tasksDue,  \* tasks in the queue for each id
  caller,    \* what each caller does
  written,   \* texts written so far
  trouble    \* such events so far

(* History: the texts moderators were told of, or whose notice or task failed. *)
VARIABLE told

aiVars == <<setting, review, tasksDue, caller, written, trouble, told>>

-----------------------------------------------------------------------------
Ids == 1..LastText   \* a row has the number of the text that made it

NoReview == [id |-> 0, status |-> "none", text |-> 0, noAI |-> FALSE,
             replied |-> FALSE]
NoCaller == [at |-> "none", as |-> "none", id |-> 0, text |-> 0, model |-> 0, why |-> "none",
             replied |-> FALSE]

AIInit ==
  /\ setting \in {"off", "later", "now", "keyless"}
  /\ review = NoReview
  /\ tasksDue = [i \in Ids |-> 0]
  /\ caller = [c \in Callers |-> NoCaller]
  /\ written = 0
  /\ trouble = 0
  /\ told = {}

At(c, point)    == caller[c].at = point
Goes(c, point)  == caller' = [caller EXCEPT ![c].at = point]
Judged(c, why)  == caller' = [caller EXCEPT ![c] = [@ EXCEPT !.at = "judged", !.why = why,
                                                                    !.model = 0]]
Finishes(c)     == caller' = [caller EXCEPT ![c] = NoCaller]
Troubled        == trouble < MaxTrouble /\ trouble' = trouble + 1

\* A result is its decision, a pending one by its reason.
Undecided == {"borderline", "service_error", "missing_api_key", "ai_moderation_disabled"}

-----------------------------------------------------------------------------
(* moderate_review_text: off, filters, no key, then the models in their order *)

Screens(c) ==
  /\ At(c, "screen")
  /\ \/ setting = "off" /\ Judged(c, "ai_moderation_disabled")
     \* check_prompt_injection and check_banned_phrases, before any model is asked
     \/ setting # "off" /\ Judged(c, "rejected")
     \/ setting = "keyless" /\ Judged(c, "missing_api_key")
     \/ /\ setting \in {"now", "later"}
        /\ caller' = [caller EXCEPT ![c] = [@ EXCEPT !.at = "ask", !.model = 1]]
  /\ UNCHANGED <<setting, review, tasksDue, written, trouble, told>>

\* An answer counts when it is JSON with a score within bounds, whatever else is
\* in it: at or below one threshold, at or above the other, or between them.
Scores(c) ==
  /\ At(c, "ask")
  /\ \E why \in {"approved", "rejected", "borderline"} : Judged(c, why)
  /\ UNCHANGED <<setting, review, tasksDue, written, trouble, told>>

\* _call_openrouter_model, _clean_and_parse_json: no answer or no good one, and the
\* next model is asked, if there is one and the answer was not 401, 402 or 429.  The
\* alert that those send (notify_balance_or_api_error), unless there was one lately,
\* is left out: nothing here depends on it.
Fails(c) ==
  /\ At(c, "ask")
  /\ \/ caller[c].model = 1 /\ caller' = [caller EXCEPT ![c].model = 2]
     \/ Judged(c, "service_error")
  /\ UNCHANGED <<setting, review, tasksDue, written, trouble, told>>

-----------------------------------------------------------------------------
(* rate_app *)

\* update_or_create makes a row where there is none.
RowId(text) == IF review.id = 0 THEN text ELSE review.id

\* A rating without a text is public at once.
RatesOnly(c) ==
  /\ At(c, "none") /\ written < LastText
  /\ written' = written + 1
  /\ review' = [NoReview EXCEPT !.id = RowId(written'), !.status = "approved", !.replied = review.replied]
  /\ UNCHANGED <<setting, tasksDue, caller, trouble, told>>

Begins(c, point, why) ==
  caller' = [caller EXCEPT ![c] = [NoCaller EXCEPT !.at = point, !.as = "rate", !.text = written',
                                                   !.why = why]]

\* Whether a text is judged at once, by a task, or not by a machine at all
RatesWithText(c) ==
  /\ At(c, "none") /\ written < LastText
  /\ written' = written + 1
  /\ \/ setting \in {"now", "keyless"} /\ Begins(c, "screen", "none")
     \/ setting = "later" /\ Begins(c, "save", "later")
     \/ setting = "off" /\ Begins(c, "save", "ai_disabled")
  /\ UNCHANGED <<setting, review, tasksDue, trouble, told>>

\* A rejected text changes nothing; a borderline one is announced before it is saved.
Rates(c) ==
  /\ At(c, "judged") /\ caller[c].as = "rate"
  /\ \/ caller[c].why = "rejected" /\ Finishes(c)
     \/ caller[c].why = "borderline" /\ Goes(c, "tell")
     \/ caller[c].why \notin {"rejected", "borderline"} /\ Goes(c, "save")
  /\ UNCHANGED <<setting, review, tasksDue, written, trouble, told>>

\* Which texts a task judges after the author has his answer
EnqueuesSlow(why) == why = "later"   \* mutant: a failed service is not tried again
Enqueues(why) == why \in {"later", "service_error"}

\* The reasons that say so
NoAI(why) == why \in {"ai_disabled", "ai_moderation_disabled", "missing_api_key"}

\* update_or_create of the row, which leaves a reply to an earlier text
SavesRating(c) ==
  /\ At(c, "save") /\ caller[c].as = "rate"
  /\ review' = [id |-> RowId(caller[c].text),
                status |-> IF caller[c].why = "approved" THEN "approved" ELSE "pending",
                text |-> caller[c].text, noAI |-> NoAI(caller[c].why),
                replied |-> review.replied]
  /\ IF Enqueues(caller[c].why) THEN caller' = [caller EXCEPT ![c] =
                     [@ EXCEPT !.at = "enqueue", !.why = "none", !.id = review'.id]]
       ELSE Finishes(c)
  /\ UNCHANGED <<setting, tasksDue, written, trouble, told>>

Queued(id) == tasksDue' = [tasksDue EXCEPT ![id] = @ + 1]

EnqueuesTask(c) ==
  /\ At(c, "enqueue")
  /\ Queued(caller[c].id)
  /\ Finishes(c)
  /\ UNCHANGED <<setting, review, written, trouble, told>>

\* The enqueue raises, or the process ends before it: the row is saved.
EnqueueFails(c) ==
  /\ At(c, "enqueue") /\ Troubled
  /\ told' = told \cup {caller[c].text}
  /\ Finishes(c)
  /\ UNCHANGED <<setting, review, tasksDue, written>>

-----------------------------------------------------------------------------
(* Notices *)

\* The message to the moderators; rate_app saves after it, the task before.
AfterNotice(c) == IF caller[c].as = "rate" THEN Goes(c, "save") ELSE Finishes(c)

Tells(c) ==
  /\ At(c, "tell")
  /\ told' = told \cup {caller[c].text}
  /\ AfterNotice(c)
  /\ UNCHANGED <<setting, review, tasksDue, written, trouble>>

\* A failure is logged and no more.
TellFails(c) ==
  /\ At(c, "tell") /\ Troubled
  /\ told' = told \cup {caller[c].text}
  /\ AfterNotice(c)
  /\ UNCHANGED <<setting, review, tasksDue, written>>

-----------------------------------------------------------------------------
(* moderate_review_task *)

\* A review that is gone needs none, one without a text is approved.
TaskStarts(c, id) ==
  /\ At(c, "none") /\ tasksDue[id] > 0
  /\ tasksDue' = [tasksDue EXCEPT ![id] = @ - 1]
  /\ \/ review.id # id /\ UNCHANGED <<review, caller>>
     \/ /\ review.id = id /\ review.text = 0
        /\ review' = [review EXCEPT !.status = "approved"] /\ UNCHANGED caller
     \/ /\ review.id = id /\ review.text # 0
        /\ caller' = [caller EXCEPT ![c] = [NoCaller EXCEPT !.at = "screen", !.as = "task",
                                      !.id = id, !.text = review.text, !.replied = review.replied]]
        /\ UNCHANGED review
  /\ UNCHANGED <<setting, written, trouble, told>>

\* A rejected text goes with the review of that id, whatever has been written in it
\* since; any other result is saved with the text, and the reply, that were read: a
\* row that is gone is inserted again, unless the author has another one by now, and
\* then the task fails.
TaskDecides(c) ==
  /\ At(c, "judged") /\ caller[c].as = "task"
  /\ \/ /\ caller[c].why = "rejected"
        /\ review' = IF review.id = caller[c].id THEN NoReview ELSE review
     \/ /\ caller[c].why # "rejected" /\ review.id \notin {0, caller[c].id}
        /\ UNCHANGED review
     \/ /\ caller[c].why # "rejected" /\ review.id \in {0, caller[c].id}
        /\ review' = [id |-> caller[c].id,
                      status |-> IF caller[c].why \in Undecided THEN "pending" ELSE "approved",
                      text |-> caller[c].text, noAI |-> FALSE,
                      replied |-> caller[c].replied]
  /\ IF caller[c].why \in Undecided /\ review'.id = caller[c].id
       THEN caller' = [caller EXCEPT ![c] = [@ EXCEPT !.at = "tell", !.why = "none"]]
       ELSE Finishes(c)
  /\ UNCHANGED <<setting, tasksDue, written, trouble, told>>

\* A worker that dies has not acknowledged the message: another claims it.
TaskDies(c) ==
  /\ caller[c].as = "task" /\ Troubled
  /\ Queued(caller[c].id)
  /\ Finishes(c)
  /\ UNCHANGED <<setting, review, written, told>>

-----------------------------------------------------------------------------
(* reply_review: whatever is not rejected is public, if the row is still there.
   Bound: no reply while there is one. *)

RepliesTo(c) ==
  /\ At(c, "none") /\ review.status = "approved" /\ ~review.replied
  /\ caller' = [caller EXCEPT ![c] = [NoCaller EXCEPT
                  !.as = "reply", !.id = review.id,
                  !.at = IF setting = "off" THEN "publish" ELSE "screen"]]
  /\ UNCHANGED <<setting, review, tasksDue, written, trouble, told>>

Replies(c) ==
  /\ caller[c].as = "reply" /\ caller[c].at \in {"judged", "publish"}
  /\ review' = IF review.id # caller[c].id \/ caller[c].why = "rejected" THEN review
                 ELSE [review EXCEPT !.replied = TRUE]
  /\ Finishes(c)
  /\ UNCHANGED <<setting, tasksDue, written, trouble, told>>

\* delete_review_reply
ClearsReply ==
  /\ review.replied
  /\ review' = [review EXCEPT !.replied = FALSE]
  /\ UNCHANGED <<setting, tasksDue, caller, written, trouble, told>>

-----------------------------------------------------------------------------
\* A moderator, of a review that waits; the author, of any
Decides ==
  /\ \/ review.status = "pending"
        /\ review' \in {NoReview, [review EXCEPT !.status = "approved"]}
     \/ review.status # "none" /\ review' = NoReview
  /\ UNCHANGED <<setting, tasksDue, caller, written, trouble, told>>

\* recheck_ai_action: another task, and no change of the review (bound: while none waits)
Rechecks ==
  /\ review.status # "none" /\ tasksDue[review.id] = 0
  /\ Queued(review.id)
  /\ UNCHANGED <<setting, review, caller, written, trouble, told>>

Configures ==
  /\ Troubled
  /\ setting' \in {"off", "later", "now", "keyless"} \ {setting}
  /\ UNCHANGED <<review, tasksDue, caller, written, told>>

CallerSteps(c) ==
  \/ Screens(c) \/ Scores(c) \/ Fails(c)
  \/ RatesOnly(c) \/ RatesWithText(c) \/ Rates(c) \/ SavesRating(c)
  \/ EnqueuesTask(c) \/ EnqueueFails(c) \/ Tells(c) \/ TellFails(c)
  \/ (\E id \in Ids : TaskStarts(c, id)) \/ TaskDecides(c) \/ TaskDies(c) \/ RepliesTo(c) \/ Replies(c)

AINext ==
  \/ \E c \in Callers : CallerSteps(c)
  \/ Decides \/ ClearsReply \/ Rechecks \/ Configures

AISpec == AIInit /\ [][AINext]_aiVars

-----------------------------------------------------------------------------
\* What waits for a moderator is not forgotten: a pending review was announced
\* with the text it has, or a task or a request is on its way to do so.  Left out
\* are the texts that rate_app leaves pending because there is no AI or no key,
\* of which nobody is told, and those whose notice or enqueue failed.
PendingKnown ==
  review.status = "pending" =>
    \/ review.text \in told
    \/ review.noAI
    \/ tasksDue[review.id] > 0
    \/ \E c \in Callers : \/ caller[c].as = "task" /\ caller[c].id = review.id
                          \/ At(c, "enqueue") /\ caller[c].text = review.text
=============================================================================
