------------------------------- MODULE Posting -------------------------------
(***************************************************************************)
(* The posts of the agent on Moltbook and on X.                            *)
(*                                                                         *)
(* An event asks a language model for a text and posts it, unless a post   *)
(* for the same trigger was made within the window.  The time is noted     *)
(* when the site answers: events that overlap may repeat a post, and so    *)
(* may any event after an answer that was lost.  Times and the survival    *)
(* state announced on X are in memory only.                                *)
(*                                                                         *)
(* Moltbook answers a post with a challenge; an agent posts only once it   *)
(* has solved one.  On X an event that finds a new survival state starts   *)
(* one of its own.  The sites and the language model are external: any     *)
(* call may fail.  Times are ages, and stop at the window of their trigger. *)
(***************************************************************************)
EXTENDS Naturals

CONSTANTS
  Slot,        \* events that may be under way at a time
  Trigger,     \* <<site, trigger>>
  Window,      \* the window of each trigger, DEDUP_MS or SURVIVAL_CHECK_MS
  Alarm,       \* the triggers of the two timers that look at the runway first
  Survival, Alarming  \* survival states; critical and emergency

Change == <<"x", "survival_state_change">>
Site(t) == t[1]

PostingAssumption ==
  Change \in Trigger /\ Window \in [Trigger -> Nat]

VARIABLES
  last,       \* the age of the last post of each trigger the agent noted
  posted,     \* history: the age of the last post the site took, but for those
              \* before a lost answer of their trigger or a restart
  event,      \* the events under way: trigger, age and what is awaited
  verified,   \* moltbook_verified, also in the config
  survival,   \* computeSurvivalState of the runway
  announced,  \* lastSurvivalState, "" at the start
  unclaimed   \* the agent had no verified registration when the model began

vars == <<last, posted, event, verified, survival, announced, unclaimed>>

Older(t, n) == IF n < Window[t] THEN n + 1 ELSE n

None == [pc |-> "none", trigger |-> Change, age |-> 0]

Init ==
  /\ last = Window /\ posted = Window
  /\ event = [s \in Slot |-> None]
  /\ verified \in BOOLEAN /\ unclaimed = ~verified
  /\ survival \in Survival /\ announced = ""

Time ==
  /\ last'   = [t \in Trigger |-> Older(t, last[t])]
  /\ posted' = [t \in Trigger |-> Older(t, posted[t])]
  /\ event'  = [s \in Slot |-> IF event[s] = None THEN None
                               ELSE [event[s] EXCEPT !.age = Older(event[s].trigger, @)]]
  /\ UNCHANGED <<verified, survival, announced, unclaimed>>

SurvivalChanges ==
  /\ survival' \in Survival
  /\ UNCHANGED <<last, posted, event, verified, announced, unclaimed>>

-----------------------------------------------------------------------------
\* Mutant: the window of X is not looked at.
DueOnMoltbook(t) == Site(t) = "x" \/ (verified /\ last[t] >= Window[t])

\* Mutant: an agent that is not verified posts.
DueUnverified(t) == last[t] >= Window[t]

Due(t) ==
  /\ last[t] >= Window[t]
  /\ Site(t) = "moltbook" => verified
  /\ t \in Alarm => survival \in Alarming

Started(t) == [pc |-> "writing", trigger |-> t, age |-> 0]

\* onEvent up to the language model.
OnEvent(s, t) ==
  /\ event[s] = None /\ Due(t)
  /\ Site(t) = "x" /\ t # Change => survival = announced
  /\ event' = [event EXCEPT ![s] = Started(t)]
  /\ announced' = IF Site(t) = "x" THEN survival ELSE announced
  /\ UNCHANGED <<last, posted, verified, survival, unclaimed>>

\* ... when it finds a new survival state, on X: the change is noted at once,
\* and a second event starts unless its own window forbids it.
OnEventAndChange(s, q, t) ==
  /\ s # q /\ event[s] = None /\ event[q] = None
  /\ Site(t) = "x" /\ t # Change /\ Due(t) /\ survival # announced
  /\ announced' = survival
  /\ event' = [event EXCEPT ![s] = Started(t),
                            ![q] = IF Due(Change) THEN Started(Change) ELSE None]
  /\ UNCHANGED <<last, posted, verified, survival, unclaimed>>

\* The text is there and the site takes the post.
Post(s) ==
  /\ event[s].pc = "writing"
  /\ posted' = [posted EXCEPT ![event[s].trigger] = 0]
  /\ event' = [event EXCEPT ![s].pc = "answering"]
  /\ UNCHANGED <<last, verified, survival, announced, unclaimed>>

\* Its answer arrives, on Moltbook perhaps with a challenge.
Answered(s) ==
  LET t == event[s].trigger
  IN  /\ event[s].pc = "answering"
      /\ last' = [last EXCEPT ![t] = 0]
      /\ event' \in {[event EXCEPT ![s] = None]} \cup
           IF Site(t) = "moltbook" THEN {[event EXCEPT ![s].pc = "challenged"]} ELSE {}
      /\ UNCHANGED <<posted, verified, survival, announced, unclaimed>>

\* It does not: the call throws, and the post is not noted.
AnswerLost(s) ==
  /\ event[s].pc = "answering"
  /\ posted' = [posted EXCEPT ![event[s].trigger] = Window[event[s].trigger]]
  /\ event' = [event EXCEPT ![s] = None]
  /\ UNCHANGED <<last, verified, survival, announced, unclaimed>>

\* The challenge is solved.
SolveVerification(s) ==
  /\ event[s].pc = "challenged"
  /\ verified' = TRUE
  /\ event' = [event EXCEPT ![s] = None]
  /\ UNCHANGED <<last, posted, survival, announced, unclaimed>>

\* A call fails, the text is empty, the challenge is not read or the answer
\* rejected: the event is over.  A survival state stays noted.
Fail(s) ==
  /\ event[s].pc \in {"writing", "challenged"}
  /\ event' = [event EXCEPT ![s] = None]
  /\ UNCHANGED <<last, posted, verified, survival, announced, unclaimed>>

Restart ==
  /\ last' = Window /\ posted' = Window
  /\ event' = [s \in Slot |-> None]
  /\ announced' = ""
  /\ UNCHANGED <<verified, survival, unclaimed>>

Next ==
  \/ Time \/ SurvivalChanges \/ Restart
  \/ \E s \in Slot, t \in Trigger :
       OnEvent(s, t) \/ \E q \in Slot : OnEventAndChange(s, q, t)
  \/ \E s \in Slot : Post(s) \/ Answered(s) \/ AnswerLost(s) \/ SolveVerification(s) \/ Fail(s)

Spec == Init /\ [][Next]_vars

-----------------------------------------------------------------------------
\* When an event is about to post, the site has taken no post of its trigger
\* within the window, but for those before a restart or a lost answer, and
\* those of events that overlap with it: noted after it began, or not yet.
RepeatOnlyOverlapping ==
  \A s \in Slot :
    LET t == event[s].trigger
    IN  event[s].pc = "writing" =>
          \/ posted[t] >= Window[t]
          \/ last[t] <= event[s].age
          \/ \E q \in Slot : event[q].pc = "answering" /\ event[q].trigger = t

\* The flag that allows posts is set only after a post: at an agent that
\* registers with this program the site takes none, whatever happens afterwards.
UnclaimedNeverPosts ==
  unclaimed => \A t \in Trigger : Site(t) = "moltbook" => posted[t] = Window[t]
=============================================================================
