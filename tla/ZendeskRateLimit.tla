-------------------------- MODULE ZendeskRateLimit --------------------------
(***************************************************************************)
(* The rate limit of ZendeskClient: what the last answer said of it is     *)
(* kept, and a call of _getJsonEntityWithRateLimitCheck that finds the     *)
(* reserve touched waits for the reset before it sends.  The pages of an   *)
(* export are requested without that check.  Zendesk counts requests by    *)
(* windows of time; a reset that is computed from a delayed answer is      *)
(* late, and may come at any time after the end of its window.             *)
(***************************************************************************)
EXTENDS Naturals, FiniteSets

CONSTANTS Callers,         \* concurrent calls of _getJsonEntityWithRateLimitCheck
          Limit,           \* requests Zendesk allows in a window
          Reserve,         \* _rateLimitReserve
          MaxPages,        \* pages requested in a window
          MaxWindows       \* a bound

VARIABLES window, left,    \* Zendesk: the window, and the requests left in it
          pages,           \* requests of the window that were not checked
          known,           \* _rateLimitRemaining, and the window of _rateLimitReset
          caller           \* what each caller does, and the last answer it saw

Answer == [left |-> left, window |-> window]

Caller(at, answer) == [at |-> at, answer |-> answer]

\* That nothing is known yet is the same to the check as a full window.
RateInit ==
    /\ window = 1 /\ left = Limit /\ pages = 0
    /\ known = Answer
    /\ caller = [c \in Callers |-> Caller("idle", Answer)]

\* Fault: only an exhausted limit is waited for.
LimitExhausted == known.left = 0

ReserveTouched == known.left <= Reserve

\* Up to its await, or to the request.
_rateLimitCheck(c) ==
    /\ caller[c].at = "idle"
    /\ \E isOver \in {FALSE, known.window < window} :
         caller' = [caller EXCEPT ![c] = Caller(IF ReserveTouched /\ ~isOver THEN "waiting" ELSE "sent",
                                                known)]
    /\ UNCHANGED <<window, left, pages, known>>

\* The timer fires; the limit is not looked at again.
WaitEnds(c) ==
    /\ caller[c].at = "waiting" /\ caller[c].answer.window < window
    /\ caller' = [caller EXCEPT ![c].at = "sent"]
    /\ UNCHANGED <<window, left, pages, known>>

\* Zendesk answers, also with an error, and tells the limit.
Serve(c) ==
    /\ caller[c].at = "sent" /\ left > 0
    /\ left' = left - 1
    /\ caller' = [caller EXCEPT ![c] = Caller("answered", [Answer EXCEPT !.left = left - 1])]
    /\ UNCHANGED <<window, pages, known>>

\* Answers overtake each other.
_updateRateLimit(c) ==
    /\ caller[c].at = "answered"
    /\ known' = caller[c].answer
    /\ caller' = [caller EXCEPT ![c].at = "idle"]
    /\ UNCHANGED <<window, left, pages>>

RequestPage ==
    /\ pages < MaxPages /\ left > 0
    /\ pages' = pages + 1 /\ left' = left - 1
    /\ UNCHANGED <<window, known, caller>>

NextWindow ==
    /\ window < MaxWindows
    /\ window' = window + 1 /\ left' = Limit /\ pages' = 0
    /\ UNCHANGED <<known, caller>>

RateNext ==
    \/ RequestPage
    \/ NextWindow
    \/ \E c \in Callers : _rateLimitCheck(c) \/ WaitEnds(c) \/ Serve(c) \/ _updateRateLimit(c)

RateSpec == RateInit /\ [][RateNext]_<<window, left, pages, known, caller>>

------------------------------------------------------------------------------
\* Properties

\* When n callers have their answers in hand, the first to be told lets all
\* that are free ask once more, and so does each after it.
Overtaken(n) == (n * (n + 1)) \div 2

\* However answers overtake each other and windows pass, the reserve is used by
\* nothing but the requests of pages and fewer than Overtaken(n) calls of n
\* callers, so that a large enough reserve is never used up.
ReserveIsKept == left + pages + Overtaken(Cardinality(Callers)) > Reserve
==============================================================================
