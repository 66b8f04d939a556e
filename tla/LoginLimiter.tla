----------------------------- MODULE LoginLimiter -----------------------------
(***************************************************************************)
(* The sliding-window limit on sign-ins (enforce_login_rate_limit of       *)
(* backend/main.py), kept in the memory of the one backend process: a deque *)
(* of times per `host|email`, guarded by a lock.                            *)
(*                                                                         *)
(* The deque of a key is the tail accepted[key][first[key]..] of the times  *)
(* of all the sign-ins it has let through: popping its left end moves       *)
(* `first` on, and what was popped stays behind as history.                 *)
(***************************************************************************)
EXTENDS Naturals, Sequences

CONSTANTS
    Keys,           \* client host and e-mail, paired
    MaxAttempts,    \* LOGIN_RATE_LIMIT_ATTEMPTS, at least 1
    WindowLength    \* LOGIN_RATE_LIMIT_WINDOW_SECONDS, at least 1

ASSUME LimitsOK == MaxAttempts \in Nat \ {0} /\ WindowLength \in Nat \ {0}

VARIABLES
    accepted,   \* times of the sign-ins let through since the process started
    first       \* position of the oldest one still in the deque

limiterVars == <<accepted, first>>

LimiterTypeOK == /\ accepted \in [Keys -> Seq(Nat)]
                 /\ first \in [Keys -> Nat]

LimiterInit == /\ accepted = [k \in Keys |-> <<>>]
               /\ first = [k \in Keys |-> 1]

\* The process dies and its memory with it.
LimiterRestart == /\ accepted' = [k \in Keys |-> <<>>]
                  /\ first' = [k \in Keys |-> 1]

\* The same with the last time of the window popped too.
IsLeftEndEarly(k, at, i) ==
    /\ i \in first[k]..(Len(accepted[k]) + 1)
    /\ \A j \in first[k]..(i - 1) : at >= accepted[k][j] + WindowLength
    /\ i <= Len(accepted[k]) => at < accepted[k][i] + WindowLength
\* The left end of the deque once the old times have been popped: the first
\* time that is not old stops the popping, whatever comes after it.
IsLeftEnd(k, at, i) ==
    /\ i \in first[k]..(Len(accepted[k]) + 1)
    /\ \A j \in first[k]..(i - 1) : at > accepted[k][j] + WindowLength
    /\ i <= Len(accepted[k]) => at <= accepted[k][i] + WindowLength

InDeque(k, i) == (Len(accepted[k]) + 1) - i     \* length of the deque from i on

\* One pass under the lock, for a caller that read the clock at `at`, before.
Admit(k, at) ==
    \E i \in 1..(Len(accepted[k]) + 1) :
        /\ IsLeftEnd(k, at, i)
        /\ InDeque(k, i) < MaxAttempts
        /\ accepted' = [accepted EXCEPT ![k] = Append(@, at)]
        /\ first' = [first EXCEPT ![k] = i]

Refuse(k, at) ==
    \E i \in 1..(Len(accepted[k]) + 1) :
        /\ IsLeftEnd(k, at, i)
        /\ InDeque(k, i) >= MaxAttempts
        /\ first' = [first EXCEPT ![k] = i]
        /\ UNCHANGED accepted

\* Of any MaxAttempts + 1 consecutive sign-ins a key is let through for, one
\* read the clock more than a window after the first: no window lets through
\* more than MaxAttempts, even when two requests take the lock in the other
\* order than they read the clock (enforce_login_rate_limit).
LoginsPerWindow ==
    \A k \in Keys : \A i \in 1..Len(accepted[k]) :
        i + MaxAttempts <= Len(accepted[k]) =>
            \E j \in (i + 1)..(i + MaxAttempts) :
                accepted[k][j] > accepted[k][i] + WindowLength
=============================================================================
